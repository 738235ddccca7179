--------------------------- MODULE TranscriptPages ---------------------------
(***************************************************************************)
(* Paging through an agent's transcript.  transcriptindex keeps, for each  *)
(* JSONL transcript, the byte spans of its logical messages; get_session_  *)
(* messages brings the index up to date (Store.Ensure), picks the spans of *)
(* a page, and only then reads their bytes again and lets the agent's      *)
(* history builder make the messages (PageIndex.Replay).  Spans come from  *)
(* an extractor of their own, which must draw the boundaries the builder   *)
(* draws.  Here a record is one byte long, so that an offset is a number   *)
(* of records, and a message is the set of records it is made of.          *)
(***************************************************************************)
EXTENDS Integers, Sequences, FiniteSets, SequencesExt

CONSTANTS
    PageBackends,       \* "codex" and "claude"
    RecordKinds,        \* kinds of record the agent writes
    MsgKeys,            \* ids of Claude's messages and of tool calls
    Readers,            \* phones that page through the session
    PageSize,           \* Limit of a request
    PageBudget,         \* maxPageResponseBytes, in records
    AnchorWindow,       \* bytes the continuity anchor covers
    LineageDepth,       \* maxLineageDepth
    ByteBudget,         \* maxInFlightBytes
    MaxRecords, MaxFileChanges, MaxPageRequests, MaxBridgeRestarts     \* bounds

AllRecordKinds == {"user", "context", "text", "call", "result", "meta", "none", "launch", "skill"}

ASSUME PagesAssumption ==
    /\ PageBackends \subseteq {"codex", "claude"} /\ RecordKinds \subseteq AllRecordKinds
    /\ {PageSize, PageBudget, AnchorWindow, LineageDepth, ByteBudget} \subseteq Nat \ {0}
    /\ {MaxRecords, MaxFileChanges, MaxPageRequests, MaxBridgeRestarts} \subseteq Nat

VARIABLES
    source,         \* whose transcript it is (never changes)
    transcript,     \* the transcript: its records, inode, and modification time
    savedIndex,     \* the index on disk, a set of at most one
    inFlight,       \* the reader whose Ensure builds, a set of at most one
    asking,         \* each reader's request: its stage, cursor and index
    walk,           \* what each reader has read so far, going back from the newest page
    gens,           \* generations and records made so far, and the requests and restarts
    spent

pageVars == <<source, transcript, savedIndex, inFlight, asking, walk, gens, spent>>

------------------------------------------------------------------------------
(* The history builders: the messages of a piece of transcript.            *)

Flushed(out, cur) == IF cur = {} THEN out ELSE Append(out, cur)

\* richHistoryBuilder of Codex: one open assistant entry, which every user
\* record ends, also one that shows nothing ("context").
CodexEntry(b, r) ==
    CASE r.kind = "user" -> [out |-> Append(Flushed(b.out, b.cur), {r}), cur |-> {}]
      [] r.kind = "context" -> [out |-> Flushed(b.out, b.cur), cur |-> {}]
      [] r.kind \in {"text", "call"} -> [b EXCEPT !.cur = @ \cup {r}]
      [] r.kind = "result" /\ (\E c \in b.cur : c.kind = "call" /\ c.key = r.key) -> [b EXCEPT !.cur = @ \cup {r}]
      [] OTHER -> b

ParseRichHistoryFromReader(recs) ==
    LET b == FoldLeft(CodexEntry, [out |-> <<>>, cur |-> {}], recs) IN Flushed(b.out, b.cur)

IsOf(key, m) == \E r \in m : r.kind \in {"text", "call", "none"} /\ r.key = key

\* An assistant line joins the message of its id; a tool's result joins the
\* message that called it, or waits for it.
ClaudeAssistant(b, r) ==
    LET i == SelectInSeq(b.out, LAMBDA m : IsOf(r.key, m))
        part == {r} \cup {p \in b.pending : r.kind = "call" /\ p.key = r.key} IN
    [b EXCEPT !.out = IF i = 0 THEN Append(@, part) ELSE [@ EXCEPT ![i] = @ \cup part],
              !.pending = @ \ part, !.skill = FALSE]

ClaudeResult(b, r) ==
    LET i == SelectInSeq(b.out, LAMBDA m : \E c \in m : c.kind = "call" /\ c.key = r.key)
        lit == [b EXCEPT !.skill = @ \/ r.kind = "launch"] IN
    IF i = 0 THEN [lit EXCEPT !.pending = @ \cup {r}] ELSE [lit EXCEPT !.out[i] = @ \cup {r}]

\* Claude's builder leaves out what `claude --resume` puts in the transcript
\* (a meta line, and the answer to it if it comes next) and the text of a
\* skill that a result has just launched.
ClaudeEntry(b0, r) ==
    LET b == [b0 EXCEPT !.resumed = FALSE] IN
    CASE r.kind = "meta" -> [b EXCEPT !.resumed = TRUE]
      [] r.kind = "none" /\ b0.resumed -> b
      [] r.kind \in {"text", "call"} \/ (r.kind = "none" /\ ~b0.resumed) -> ClaudeAssistant(b, r)
      [] r.kind \in {"result", "launch"} -> ClaudeResult(b, r)
      [] r.kind = "user" \/ (r.kind = "skill" /\ ~b.skill) -> [b EXCEPT !.out = Append(@, {r}), !.skill = FALSE]
      [] r.kind = "skill" /\ b.skill -> [b EXCEPT !.skill = FALSE]
      [] OTHER -> b0

LoadClaudeRichHistoryFromReader(recs) ==
    FoldLeft(ClaudeEntry, [out |-> <<>>, pending |-> {}, skill |-> FALSE, resumed |-> FALSE], recs).out

Entries(recs) == IF source = "codex" THEN ParseRichHistoryFromReader(recs) ELSE LoadClaudeRichHistoryFromReader(recs)

------------------------------------------------------------------------------
(* The span extractors.  `at' is the record's offset in what is scanned.   *)

NewSpan(at, key) == [start |-> at, end |-> at + 1, open |-> 0, key |-> key]

Extended(s, at, opened) ==
    [s EXCEPT !.end = IF at + 1 > @ THEN at + 1 ELSE @,
              !.open = IF @ + opened < 0 THEN 0 ELSE @ + opened]

CodexFlush(x) == [x EXCEPT !.spans = @ \o x.cur, !.cur = <<>>]

\* ensureCurrent, emitUser and closeTool
CodexSpans(x, at, r) ==
    CASE r.kind = "user" -> [CodexFlush(x) EXCEPT !.spans = Append(@, NewSpan(at, {}))]
      [] r.kind \in {"text", "call"} ->
            LET opened == IF r.kind = "call" THEN 1 ELSE 0 IN
            [x EXCEPT !.cur = <<Extended(IF @ = <<>> THEN NewSpan(at, {}) ELSE @[1], at, opened)>>]
      [] r.kind = "result" /\ x.cur # <<>> -> [x EXCEPT !.cur = <<Extended(@[1], at, -1)>>]
      [] OTHER -> x

ClaudeSpans(x, at, r) ==
    LET i == SelectInSeq(x.spans, LAMBDA s : s.key = {r.key})
        waiting == {p \in x.pending : p.key = r.key} IN
    CASE r.kind \in {"text", "call", "none"} ->
            LET opened == IF r.kind = "call" /\ waiting = {} THEN 1 ELSE 0
                with(s) == Extended(s, at, opened)
                y == IF i = 0 THEN [x EXCEPT !.spans = Append(@, with(NewSpan(at, {r.key})))]
                              ELSE [x EXCEPT !.spans[i] = with(@)] IN
            IF r.kind = "call" THEN [y EXCEPT !.called = @ \cup {r.key}, !.pending = @ \ waiting] ELSE y
      [] r.kind \in {"result", "launch"} ->
            IF r.key \in x.called THEN [x EXCEPT !.spans[i] = Extended(@, at, -1)]
                                  ELSE [x EXCEPT !.pending = @ \cup {[key |-> r.key, end |-> at + 1]}]
      [] r.kind \in {"user", "meta", "skill"} -> [x EXCEPT !.spans = Append(@, NewSpan(at, {}))]
      [] OTHER -> x

\* scanTranscript counts offsets from where the reader stands when it begins.
ScanSpans(recs) ==
    LET x0 == [spans |-> <<>>, cur |-> <<>>, called |-> {}, pending |-> {}]
        step(x, i) == IF source = "codex" THEN CodexSpans(x, i - 1, recs[i]) ELSE ClaudeSpans(x, i - 1, recs[i]) IN
    CodexFlush(FoldLeft(step, x0, [i \in 1 .. Len(recs) |-> i])).spans

------------------------------------------------------------------------------
(* The index: Build, Refresh, and the lineage of its generations.          *)

anchorFor(recs, through) == SubSeq(recs, IF through > AnchorWindow THEN through - AnchorWindow + 1 ELSE 1, through)

foldLineage(lineage) ==
    IF Len(lineage) <= LineageDepth THEN lineage ELSE SubSeq(lineage, Len(lineage) - LineageDepth + 1, Len(lineage))

\* `seen' is what the file held when it was indexed; no code reads it.
IndexOf(spans, gen, lineage) ==
    [spans |-> spans, parseOffset |-> Len(transcript.recs), mtime |-> transcript.mtime, inode |-> transcript.inode,
     gen |-> gen, anchor |-> anchorFor(transcript.recs, Len(transcript.recs)), lineage |-> lineage, seen |-> transcript.recs]

Build(gen) == IndexOf(ScanSpans(transcript.recs), gen, <<gen>>)

\* The largest offset that no span straddles, below the last span and every
\* span with an open tool call.
refreshReplayStart(spans) ==
    IF spans = <<>> THEN 0
    ELSE LET S == ToSet(spans)
             from == Min({Last(spans).start} \cup {s.start : s \in {t \in S : t.open > 0}}) IN
         Max({p \in 0 .. from : ~\E s \in S : s.start < p /\ p < s.end})

keepSpansBefore(spans, from) ==
    LET late == {i \in 1 .. Len(spans) : spans[i].start >= from} IN
    IF late = {} THEN spans ELSE SubSeq(spans, 1, Min(late) - 1)

\* A refresh that trusts the size and the inode.
AnchorTrusted(idx) == TRUE

verifyAnchorAt(idx) == anchorFor(transcript.recs, idx.parseOffset) = idx.anchor

Continues(idx) ==
    /\ idx.inode = transcript.inode
    /\ Len(transcript.recs) >= idx.parseOffset
    /\ verifyAnchorAt(idx)

Refresh(idx, gen) ==
    LET from == refreshReplayStart(idx.spans)
        tail == ScanSpans(SubSeq(transcript.recs, from + 1, Len(transcript.recs)))
        same == /\ idx.inode = transcript.inode /\ idx.mtime = transcript.mtime
                /\ Len(transcript.recs) = idx.parseOffset IN
    CASE same -> idx
      [] ~same /\ ~Continues(idx) -> Build(gen)
      [] OTHER -> IndexOf(keepSpansBefore(idx.spans, from) \o tail, gen, foldLineage(Append(idx.lineage, gen)))

IsCursorStale(idx, cursor) == cursor.gen \notin ToSet(idx.lineage)

------------------------------------------------------------------------------
(* A page.  The ordinal of a span is its place in the index.               *)

LastN(idx) == (Len(idx.spans) - PageSize) .. (Len(idx.spans) - 1)

PageBefore(idx, ordinal) == (ordinal - PageSize) .. (IF ordinal > Len(idx.spans) THEN Len(idx.spans) - 1 ELSE ordinal - 1)

PageOrdinals(idx, cursor) ==
    (IF cursor = {} THEN LastN(idx) ELSE UNION {PageBefore(idx, c.ord) : c \in cursor}) \cap Nat

\* The least range around the page that cuts no span in two.
spanByteUnion(spans, page) ==
    LET lo == Min({spans[o + 1].start : o \in page})
        hi == Max({spans[o + 1].end : o \in page})
        top == Max({s.end : s \in ToSet(spans)})
        whole == {w \in (0 .. lo) \X (hi .. top) :
                     \A s \in ToSet(spans) : s.end <= w[1] \/ s.start >= w[2] \/ (w[1] <= s.start /\ s.end <= w[2])} IN
    <<Max({w[1] : w \in whole}), Min({w[2] : w \in whole})>>

\* Replay matches what the builder makes of the range with ordinals by
\* position, from the first span that begins where the range does.
Replay(idx, page) ==
    LET range == spanByteUnion(idx.spans, page)
        made == Entries(SubSeq(transcript.recs, range[1] + 1, IF range[2] > Len(transcript.recs) THEN Len(transcript.recs) ELSE range[2]))
        first == SelectInSeq(idx.spans, LAMBDA s : s.start = range[1]) - 1
        wanted == SelectSeq([i \in 1 .. Len(made) |-> i], LAMBDA i : first + i - 1 \in page) IN
    [i \in 1 .. Len(wanted) |-> made[wanted[i]]]

Bytes(wire) == FoldLeft(LAMBDA n, m : n + Cardinality(m), 0, wire)

\* The newest messages that fit the page, at least one.
trimWireToBudget(wire) ==
    LET fits == {k \in 1 .. Len(wire) : k = Len(wire) \/ Bytes(SubSeq(wire, k, Len(wire))) <= PageBudget} IN
    SubSeq(wire, Min(fits), Len(wire))

\* A cursor that forgets what the budget dropped.
OldestOfPage(page, wire) == Min(page)

OldestOrdinal(page, wire) == Max(page) - Len(wire) + 1

------------------------------------------------------------------------------
Unasked == [stage |-> "idle", cursor |-> {}, index |-> {}]
Unread == [read |-> <<>>, cursor |-> {}, from |-> 0, whole |-> <<>>, more |-> FALSE, exact |-> TRUE, torn |-> FALSE, stitched |-> FALSE]

PagesTypeOK ==
    /\ source \in PageBackends /\ Len(transcript.recs) <= MaxRecords
    /\ Cardinality(savedIndex) <= 1 /\ Cardinality(inFlight) <= 1 /\ inFlight \subseteq Readers
    /\ \A r \in Readers : asking[r].stage \in {"idle", "building", "waiting", "indexed"}
    /\ \A i \in savedIndex : Len(i.lineage) \in 1 .. LineageDepth /\ i.gen = Last(i.lineage)

PagesInit ==
    /\ source \in PageBackends
    /\ transcript = [recs |-> <<>>, inode |-> 0, mtime |-> 0]
    /\ savedIndex = {} /\ inFlight = {}
    /\ asking = [r \in Readers |-> Unasked] /\ walk = [r \in Readers |-> Unread]
    /\ gens = 0
    /\ spent = [records |-> 0, changes |-> 0, requests |-> 0, restarts |-> 0]

\* The agent appends a record.  A key names one tool call and its result.
AgentAppends(kind, key) ==
    /\ spent.records < MaxRecords
    /\ \A r \in ToSet(transcript.recs) : kind \in {"call", "result", "launch"} /\ r.key = key => r.kind # kind
    /\ transcript' = [transcript EXCEPT !.recs = Append(@, [kind |-> kind, key |-> key, serial |-> spent.records]), !.mtime = @ + 1]
    /\ spent' = [spent EXCEPT !.records = @ + 1]
    /\ UNCHANGED <<source, savedIndex, inFlight, asking, walk, gens>>

\* The agent cuts its transcript, in place or by writing a new file.
AgentCuts(n, inode) ==
    /\ spent.changes < MaxFileChanges /\ n < Len(transcript.recs)
    /\ transcript' = [recs |-> SubSeq(transcript.recs, 1, n), inode |-> inode, mtime |-> transcript.mtime + 1]
    /\ spent' = [spent EXCEPT !.changes = @ + 1]
    /\ UNCHANGED <<source, savedIndex, inFlight, asking, walk, gens>>

\* get_session_messages: the newest page, or the one before the oldest read.
\* Ensure builds, or waits for the build that is under way.
GetSessionMessages(r, older) ==
    /\ asking[r].stage = "idle" /\ spent.requests < MaxPageRequests
    /\ older => walk[r].more
    /\ asking' = [asking EXCEPT ![r] = [stage |-> IF inFlight = {} THEN "building" ELSE "waiting",
                                        cursor |-> IF older THEN walk[r].cursor ELSE {}, index |-> {}]]
    /\ inFlight' = IF inFlight = {} THEN {r} ELSE inFlight
    /\ walk' = IF older THEN walk ELSE [walk EXCEPT ![r] = Unread]
    /\ spent' = [spent EXCEPT !.requests = @ + 1]
    /\ UNCHANGED <<source, transcript, savedIndex, gens>>

Indexed(idx) ==
    asking' = [r \in Readers |-> IF asking[r].stage \in {"building", "waiting"}
                                 THEN [asking[r] EXCEPT !.stage = "indexed", !.index = idx] ELSE asking[r]]

LoadIndex == {i \in savedIndex : i.lineage # <<>>}

SaveIndex(saves, idx) == savedIndex' = IF saves THEN {idx} ELSE savedIndex

\* buildWithBudgets, for everyone who waits; the save may fail.
EnsureBuilds(saves) ==
    /\ inFlight # {} /\ Len(transcript.recs) <= ByteBudget
    /\ LET idx == IF LoadIndex = {} THEN Build(gens + 1) ELSE Refresh(CHOOSE i \in LoadIndex : TRUE, gens + 1) IN
       /\ Indexed({idx})
       /\ gens' = IF idx.gen = gens + 1 THEN gens + 1 ELSE gens
       /\ SaveIndex(saves, idx)
    /\ inFlight' = {}
    /\ UNCHANGED <<source, transcript, walk, spent>>

EnsureOverBudget ==
    /\ inFlight # {} /\ Len(transcript.recs) > ByteBudget
    /\ Indexed({}) /\ inFlight' = {}
    /\ UNCHANGED <<source, transcript, savedIndex, walk, gens, spent>>

Answered(r, w) ==
    /\ asking' = [asking EXCEPT ![r] = Unasked]
    /\ walk' = [walk EXCEPT ![r] = w]
    /\ UNCHANGED <<source, transcript, savedIndex, inFlight, gens, spent>>

\* Whether the index has the spans of the messages the builder makes.
Mirrors(idx) ==
    LET made == Entries(idx.seen) IN
    /\ Len(made) = Len(idx.spans)
    /\ \A i \in 1 .. Len(made) :
          LET at == {j \in 1 .. Len(idx.seen) : idx.seen[j] \in made[i]} IN
          /\ idx.spans[i].start = Min(at) - 1
          /\ Max(at) <= idx.spans[i].end

\* paginatedEnvelope: the cursor of the next page is the oldest message sent.
paginatedEnvelope(r, idx, page, wire) ==
    LET w == walk[r]
        oldest == OldestOrdinal(page, wire) IN
    [read |-> wire \o w.read, from |-> oldest, more |-> oldest > 0,
     cursor |-> {[ord |-> oldest, gen |-> idx.gen, seen |-> idx.seen]},
     whole |-> IF asking[r].cursor = {} THEN Entries(idx.seen) ELSE w.whole,
     exact |-> w.exact /\ Mirrors(idx),
     torn |-> w.torn \/ ~IsPrefix(idx.seen, transcript.recs),
     stitched |-> w.stitched \/ \E c \in asking[r].cursor : ~IsPrefix(c.seen, idx.seen)]

\* servePaginatedMessages once the index is there: a page, cursor_stale (the
\* phone starts again), an empty page, or the whole history after all.
ServePage(r) ==
    /\ asking[r].stage = "indexed"
    /\ \E idx \in asking[r].index :
          LET page == PageOrdinals(idx, asking[r].cursor)
              made == Replay(idx, page) IN
          /\ ~\E c \in asking[r].cursor : IsCursorStale(idx, c)
          /\ page # {} /\ Len(made) = Cardinality(page)
          /\ Answered(r, paginatedEnvelope(r, idx, page, trimWireToBudget(made)))

CursorStale(r) ==
    /\ asking[r].stage = "indexed"
    /\ \E idx \in asking[r].index, c \in asking[r].cursor : IsCursorStale(idx, c)
    /\ Answered(r, Unread)

EmptyPage(r) ==
    /\ asking[r].stage = "indexed"
    /\ \E idx \in asking[r].index :
          /\ ~\E c \in asking[r].cursor : IsCursorStale(idx, c)
          /\ PageOrdinals(idx, asking[r].cursor) = {}
    /\ Answered(r, [walk[r] EXCEPT !.more = FALSE])

FallBack(r) ==
    /\ asking[r].stage = "indexed"
    /\ \A idx \in asking[r].index :
          LET page == PageOrdinals(idx, asking[r].cursor) IN
          /\ ~\E c \in asking[r].cursor : IsCursorStale(idx, c)
          /\ page # {} /\ Len(Replay(idx, page)) # Cardinality(page)
    /\ Answered(r, Unread)

\* The bridge restarts: requests are lost, the index on disk and what the
\* phones have stay.
BridgeRestarts ==
    /\ spent.restarts < MaxBridgeRestarts
    /\ asking' = [r \in Readers |-> Unasked] /\ inFlight' = {}
    /\ spent' = [spent EXCEPT !.restarts = @ + 1]
    /\ UNCHANGED <<source, transcript, savedIndex, walk, gens>>

PagesNext ==
    \/ \E k \in RecordKinds, key \in MsgKeys : AgentAppends(k, key)
    \/ \E n \in 0 .. MaxRecords, i \in {transcript.inode, transcript.inode + 1} : AgentCuts(n, i)
    \/ \E r \in Readers, older \in BOOLEAN : GetSessionMessages(r, older)
    \/ \E saves \in BOOLEAN : EnsureBuilds(saves)
    \/ EnsureOverBudget
    \/ \E r \in Readers : ServePage(r) \/ CursorStale(r) \/ EmptyPage(r) \/ FallBack(r)
    \/ BridgeRestarts

PagesSpec == PagesInit /\ [][PagesNext]_pageVars

------------------------------------------------------------------------------
\* What a reader has is every message from its oldest one on, each once and in
\* order (a message may meanwhile have grown).
ReadIsExact(w) ==
    /\ Len(w.read) = Len(w.whole) - w.from
    /\ \A i \in 1 .. Len(w.read), j \in 1 .. Len(w.whole) :
          IF j = w.from + i THEN w.whole[j] \subseteq w.read[i] ELSE w.whole[j] \cap w.read[i] = {}

\* Going back page by page a reader gets every message once and in order,
\* whatever the byte budget drops from a page and whatever the agent appends
\* meanwhile, if the index has the builder's boundaries and the transcript was
\* not cut between a page's index and its replay (servePaginatedMessages,
\* trimWireToBudget, paginatedEnvelope).
WalkExact == \A r \in Readers : walk[r].read # <<>> /\ walk[r].exact /\ ~walk[r].torn => ReadIsExact(walk[r])

\* A cursor never leads into another history: a page is served for it only if
\* the transcript still begins with all that was indexed when the cursor was
\* given, else the reader is told that it is stale (Refresh, IsCursorStale).
NoStitching == \A r \in Readers : ~walk[r].stitched

\* "A mismatch between produced and expected messages is reported as an error
\* rather than silently misaligning pages" (PageIndex.Replay): no page has a
\* wrong message, and none is skipped.
PagesExact == \A r \in Readers : walk[r].read # <<>> /\ ~walk[r].torn => ReadIsExact(walk[r])
==============================================================================
