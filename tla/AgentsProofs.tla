---------------------------- MODULE AgentsProofs ----------------------------
(***************************************************************************)
(* Proofs about what the agent sessions tell the bridge: that the text of  *)
(* a turn is told exactly, in order and once, and that the end of a turn   *)
(* is told once and to the message it belongs to.                          *)
(*                                                                         *)
(* Each of the three sessions holds a pipe whose other end keeps talking:  *)
(* the stdout of the Claude process, the lines of codex exec and opencode  *)
(* run, the messages of a subscription.  What a session has told is exact  *)
(* for what it has READ, not for what the other side does NOW, so the      *)
(* invariants speak of the states of the other side between the two: for   *)
(* Claude and the subscriptions they are a history h, one state per line   *)
(* still in the pipe, each leading to the next by the line between them;   *)
(* for the CLI sessions, whose goroutine takes a line at a time, they are  *)
(* the instructions the goroutine still has to carry out.                  *)
(***************************************************************************)
EXTENDS ClaudeProcess, CliSession, PassiveStream, SequenceTheorems, FiniteSetTheorems,
        WellFoundedInduction, TLAPS

(* A text and the rest of a longer one that begins with it.                *)
LEMMA TextRest ==
    ASSUME NEW S, NEW a \in Seq(S), NEW b \in Seq(S), Len(a) <= Len(b),
           \A i \in 1..Len(a) : a[i] = b[i]
    PROVE  a \o SubSeq(b, Len(a) + 1, Len(b)) = b
<1> DEFINE r == SubSeq(b, Len(a) + 1, Len(b))
<1>1. /\ r \in Seq(S) /\ Len(r) = Len(b) - Len(a)
      /\ \A i \in 1..Len(r) : r[i] = b[Len(a) + i]
  OBVIOUS
<1> HIDE DEF r
<1>2. a \o r \in Seq(S) /\ Len(a \o r) = Len(b)
  BY <1>1
<1>3. \A i \in 1..Len(b) : (a \o r)[i] = b[i]
  BY <1>1, SMTT(30)
<1> QED
  BY <1>2, <1>3, SeqEqual DEF r

(* A text is a prefix of another when the two agree as far as it goes.     *)
LEMMA TextPrefix ==
    ASSUME NEW S, NEW a \in Seq(S), NEW b \in Seq(S)
    PROVE  IsPrefix(a, b) <=> Len(a) <= Len(b) /\ \A i \in 1..Len(a) : a[i] = b[i]
<1>0. Len(a) \in Nat /\ Len(b) \in Nat
  OBVIOUS
<1>1. SubSeq(a, 1, Len(a)) = a
  OBVIOUS
<1>2. CASE Len(a) <= Len(b)
  <2> DEFINE c == SubSeq(b, 1, Len(a))
  <2>1. c \in Seq(S) /\ Len(c) = Len(a) /\ \A i \in 1..Len(a) : c[i] = b[i]
    BY <1>0, <1>2
  <2> HIDE DEF c
  <2>2. (a = c) <=> \A i \in 1..Len(a) : a[i] = b[i]
    BY <2>1, SeqEqual
  <2> QED
    BY <1>1, <1>2, <2>2 DEF IsPrefix, c
<1>3. CASE ~(Len(a) <= Len(b))
  BY <1>3 DEF IsPrefix
<1> QED
  BY <1>2, <1>3

(* What CheckpointStreamed appends to what is shown completes the text.    *)
LEMMA TextRestOfPrefix ==
    ASSUME NEW S, NEW a \in Seq(S), NEW b \in Seq(S), IsPrefix(a, b)
    PROVE  /\ a \o SubSeq(b, Len(a) + 1, Len(b)) = b
           /\ SubSeq(b, Len(a) + 1, Len(b)) \in Seq(S)
<1>1. Len(a) <= Len(b) /\ \A i \in 1..Len(a) : a[i] = b[i]
  BY TextPrefix
<1>2. a \o SubSeq(b, Len(a) + 1, Len(b)) = b
  BY <1>1, TextRest
<1>3. SubSeq(b, Len(a) + 1, Len(b)) \in Seq(S)
  BY <1>1
<1> QED
  BY <1>2, <1>3
-----------------------------------------------------------------------------
(* The long-lived Claude process (ClaudeProcess).                          *)
Pieces == Tokens \cup {NoToken}

(* The states of the process, its lines and the streams, for any number of *)
(* turns and any length of a text.                                         *)
Ids == MsgIDs \cup {NoMsg}
LineKinds == {"system", "start", "delta", "assistant", "thinking", "tool_use", "tool_result",
              "result", "request"}
Lines == [kind : LineKinds, id : Ids, text : Seq(Pieces), tok : Pieces, edit : BOOLEAN,
          live : BOOLEAN]
Streams == [id : Ids, text : Seq(Pieces)]
Clis == [runs : BOOLEAN, replays : BOOLEAN, msg : Ids, told : SUBSET MsgIDs,
         text : Seq(Pieces), turns : Nat]

(* What the CLI is saying: its message, the text of it so far, and the ids *)
(* it has used.                                                            *)
Talks == [id : Ids, text : Seq(Pieces), told : SUBSET MsgIDs]
Talk == [id |-> cli.msg, text |-> cli.text, told |-> cli.told]

(* The text of t is that of s, or one piece longer.                        *)
Grown(s, t) == t.text = s.text \/ \E x \in Pieces : t.text = Append(s.text, x)

(* From s the CLI writes the line l and is then at t.                      *)
Utters(s, l, t) ==
    CASE l.kind = "start" ->
            /\ l.id \in MsgIDs /\ l.id \notin s.told
            /\ t = [id |-> l.id, text |-> <<>>, told |-> s.told \cup {l.id}]
      [] l.kind = "delta" ->
            /\ s.id # NoMsg /\ t.id = s.id /\ t.told = s.told
            /\ \E x \in Seq(Pieces) : t.text = s.text \o x
      [] l.kind = "assistant" ->
            /\ s.id # NoMsg /\ l.id = s.id /\ t.told = s.told
            /\ \/ t.id = s.id /\ t.text = l.text /\ Grown(s, t)
               \/ t.id = NoMsg /\ l.text = s.text
      [] l.kind = "result" -> t.id = NoMsg /\ t.told = s.told
      [] OTHER -> t = s

(* Two texts differ at a place both have.                                  *)
Parted(x, y) == \E i \in 1..Len(x) : i <= Len(y) /\ x[i] # y[i]

(* What the reader holds of a message the CLI is saying is shown, or else  *)
(* it differs from what was said at some place, or ran ahead of it.        *)
Follows(s) ==
    stream.id # NoMsg =>
        /\ stream.id \in s.told
        /\ s.id # NoMsg =>
              /\ s.id = stream.id
              /\ ahead \/ shown = stream.text \/ Parted(stream.text, s.text)

(* The lines in the pipe lead from what the reader has read to what the    *)
(* CLI says now.                                                           *)
Leads(h) ==
    /\ h \in [0..Len(pipe) -> Talks]
    /\ \A q \in 1..Len(pipe) : Utters(h[q - 1], pipe[q], h[q])
    /\ out => h[Len(pipe)] = Talk
    /\ Follows(h[0])

(* The types of what the proof speaks of.                                  *)
ClaudeTypes ==
    /\ cli \in Clis /\ (cli.msg = NoMsg => cli.text = <<>>)
    /\ pipe \in Seq(Lines) /\ out \in BOOLEAN
    /\ drain \in BOOLEAN /\ stream \in Streams /\ active \in Streams
    /\ shown \in Seq(Pieces) /\ claimed \subseteq Seq(Pieces) /\ swallowed \in BOOLEAN
    /\ ahead \in BOOLEAN

(* No result was swallowed; while the history is drained no turn was asked *)
(* for, nothing streams and the pipe holds no line of a live turn.         *)
Drains ==
    /\ ~swallowed
    /\ drain => /\ stdin # "sending" /\ cli.turns = 0 /\ stream.id = NoMsg
                /\ \A q \in DOMAIN pipe : ~pipe[q].live

(* The inductive invariant of the Claude session.                          *)
ClaudeInv ==
    /\ ClaudeTypes /\ Drains /\ StreamedTextExact
    /\ \E h \in [0..Len(pipe) -> Talks] : Leads(h)
-----------------------------------------------------------------------------
(* Only these variables matter: a step that leaves the pipe and what the   *)
(* reader holds alone keeps the invariant.                                 *)
LEMMA ClaudeAside ==
    ASSUME ClaudeInv, cli' \in Clis, Talk' = Talk, drain' \in BOOLEAN,
           drain' => drain /\ stdin' # "sending" /\ cli'.turns = 0,
           UNCHANGED <<pipe, out, stream, active, shown, claimed, ahead, swallowed>>
    PROVE  ClaudeInv'
<1>0. cli'.msg = cli.msg /\ cli'.text = cli.text
  BY DEF Talk
<1>1. ClaudeTypes' /\ Drains' /\ StreamedTextExact'
  BY <1>0 DEF ClaudeInv, ClaudeTypes, Drains, StreamedTextExact
<1>2. PICK h \in [0..Len(pipe) -> Talks] : Leads(h)
  BY DEF ClaudeInv
<1>3. Leads(h)'
  <2>1. Follows(h[0])'
    BY <1>2 DEF Leads, Follows
  <2> QED
    BY <1>2, <2>1 DEF Leads
<1> QED
  BY <1>1, <1>2, <1>3 DEF ClaudeInv

(* The end of the pipe is cut off when the bridge closes it.               *)
LEMMA ClaudeCut ==
    ASSUME ClaudeInv, NEW n \in 0..Len(pipe), pipe' = SubSeq(pipe, 1, n), out' = FALSE,
           UNCHANGED <<cli, drain, stdin, stream, active, shown, claimed, ahead, swallowed>>
    PROVE  ClaudeInv'
<1>0. pipe \in Seq(Lines)
  BY DEF ClaudeInv, ClaudeTypes
<1>1. /\ pipe' \in Seq(Lines) /\ Len(pipe') = n /\ n \in Nat
      /\ \A q \in 1..n : pipe'[q] = pipe[q]
  BY <1>0
<1>2. ClaudeTypes' /\ Drains' /\ StreamedTextExact'
  <2>1. ClaudeTypes' /\ StreamedTextExact'
    BY <1>1 DEF ClaudeInv, ClaudeTypes, StreamedTextExact
  <2>2. \A q \in DOMAIN pipe' : q \in DOMAIN pipe /\ pipe'[q] = pipe[q]
    BY <1>0, <1>1
  <2>3. Drains'
    BY <2>2 DEF ClaudeInv, Drains
  <2> QED
    BY <2>1, <2>3
<1>3. PICK h \in [0..Len(pipe) -> Talks] : Leads(h)
  BY DEF ClaudeInv
<1> DEFINE g == [q \in 0..n |-> h[q]]
<1>4. g \in [0..Len(pipe') -> Talks] /\ \A q \in 0..n : g[q] = h[q]
  BY <1>0, <1>1
<1>5. \A q \in 1..n : Utters(g[q - 1], pipe'[q], g[q])
  <2> TAKE q \in 1..n
  <2>1. Utters(h[q - 1], pipe[q], h[q])
    BY <1>0, <1>3 DEF Leads
  <2>2. q - 1 \in 0..n /\ q \in 0..n
    BY <1>1
  <2> HIDE DEF g
  <2> QED
    BY <1>1, <1>4, <2>1, <2>2
<1>6. Follows(g[0])'
  <2>1. g[0] = h[0]
    BY <1>1, <1>4
  <2> HIDE DEF g
  <2> QED
    BY <1>3, <2>1 DEF Leads, Follows
<1> HIDE DEF g
<1>7. Leads(g)'
  BY <1>1, <1>4, <1>5, <1>6 DEF Leads
<1> QED
  BY <1>2, <1>4, <1>7 DEF ClaudeInv

(* The CLI writes a line.                                                  *)
LEMMA ClaudeLine ==
    ASSUME ClaudeInv, out, NEW l \in Lines, pipe' = Append(pipe, l), cli' \in Clis,
           cli'.msg = NoMsg => cli'.text = <<>>,
           Utters(Talk, l, Talk'), drain => ~l.live /\ cli'.turns = 0,
           UNCHANGED <<out, drain, stdin, stream, active, shown, claimed, ahead, swallowed>>
    PROVE  ClaudeInv'
<1>0. pipe \in Seq(Lines)
  BY DEF ClaudeInv, ClaudeTypes
<1>n. PICK n \in Nat : n = Len(pipe)
  BY <1>0
<1>1. /\ pipe' \in Seq(Lines) /\ Len(pipe') = n + 1 /\ n \in Nat
      /\ \A q \in 1..n : pipe'[q] = pipe[q]
      /\ pipe'[n + 1] = l /\ n = Len(pipe)
  BY <1>0, <1>n
<1>2. ClaudeTypes' /\ StreamedTextExact'
  BY <1>1 DEF ClaudeInv, ClaudeTypes, StreamedTextExact
<1>3. Drains'
  <2>1. \A q \in DOMAIN pipe' : q \in DOMAIN pipe \/ q = n + 1
    BY <1>0, <1>1
  <2>2. \A q \in DOMAIN pipe : pipe'[q] = pipe[q]
    BY <1>0, <1>1
  <2> QED
    BY <1>1, <2>1, <2>2 DEF ClaudeInv, Drains
<1>4. PICK h \in [0..Len(pipe) -> Talks] : Leads(h)
  BY DEF ClaudeInv
<1>5. PICK now \in Talks : now = Talk'
  BY DEF Talk, Talks, Clis
<1> DEFINE g == [q \in 0..(n + 1) |-> IF q = n + 1 THEN now ELSE h[q]]
<1>6. /\ g \in [0..Len(pipe') -> Talks]
      /\ \A q \in 0..n : g[q] = h[q]
      /\ g[n + 1] = Talk'
  BY <1>1, <1>5
<1>7. \A q \in 1..(n + 1) : Utters(g[q - 1], pipe'[q], g[q])
  <2> HIDE DEF g
  <2> TAKE q \in 1..(n + 1)
  <2>1. CASE q = n + 1
    <3>1. g[q - 1] = Talk
      BY <1>1, <1>4, <1>6, <2>1 DEF Leads
    <3> QED
      BY <1>1, <1>6, <2>1, <3>1
  <2>2. CASE q # n + 1
    <3>1. Utters(h[q - 1], pipe[q], h[q])
      BY <1>1, <1>4, <2>2 DEF Leads
    <3>2. q - 1 \in 0..n /\ q \in 0..n /\ q \in 1..n
      BY <1>1, <2>2
    <3> QED
      BY <1>1, <1>6, <3>1, <3>2
  <2> QED
    BY <2>1, <2>2
<1>8. Follows(g[0])'
  <2> HIDE DEF g
  <2>1. g[0] = h[0]
    BY <1>1, <1>6
  <2> QED
    BY <1>4, <2>1 DEF Leads, Follows
<1> HIDE DEF g
<1>9. Leads(g)'
  BY <1>1, <1>6, <1>7, <1>8 DEF Leads
<1> QED
  BY <1>2, <1>3, <1>6, <1>9 DEF ClaudeInv

(* The reader takes a line.                                                *)
LEMMA ClaudeTakes ==
    ASSUME ClaudeInv, pipe # <<>>, pipe' = Tail(pipe), UNCHANGED <<cli, out>>,
           ClaudeTypes', Drains', StreamedTextExact',
           \A s, t \in Talks : Utters(s, Head(pipe), t) /\ Follows(s) => Follows(t)'
    PROVE  ClaudeInv'
<1>0. pipe \in Seq(Lines)
  BY DEF ClaudeInv, ClaudeTypes
<1>n. PICK n \in Nat : n = Len(pipe)
  BY <1>0
<1>1. /\ n = Len(pipe) /\ n \in Nat \ {0} /\ Len(pipe') = n - 1 /\ Head(pipe) = pipe[1]
      /\ \A q \in 1..(n - 1) : pipe'[q] = pipe[q + 1]
  BY <1>0, <1>n
<1>2. PICK h \in [0..Len(pipe) -> Talks] : Leads(h)
  BY DEF ClaudeInv
<1> DEFINE g == [q \in 0..(n - 1) |-> h[q + 1]]
<1>3. /\ g \in [0..Len(pipe') -> Talks]
      /\ \A q \in 0..(n - 1) : g[q] = h[q + 1]
  BY <1>1
<1>4. \A q \in 1..(n - 1) : Utters(g[q - 1], pipe'[q], g[q])
  <2> HIDE DEF g
  <2> TAKE q \in 1..(n - 1)
  <2>1. q + 1 \in 1..Len(pipe) /\ (q + 1) - 1 = (q - 1) + 1
    BY <1>1
  <2>2. Utters(h[(q - 1) + 1], pipe[q + 1], h[q + 1])
    BY <1>2, <2>1 DEF Leads
  <2>3. q - 1 \in 0..(n - 1) /\ q \in 0..(n - 1)
    BY <1>1
  <2> QED
    BY <1>1, <1>3, <2>2, <2>3
<1>5. Follows(g[0])'
  <2> HIDE DEF g
  <2>1. g[0] = h[1] /\ h[0] \in Talks /\ h[1] \in Talks /\ 1 \in 1..Len(pipe) /\ 1 - 1 = 0
    BY <1>1, <1>3
  <2>2. Utters(h[1 - 1], pipe[1], h[1]) /\ Follows(h[0])
    BY <1>2, <2>1 DEF Leads
  <2>3. Follows(h[1])'
    BY <1>1, <2>1, <2>2
  <2> QED
    BY <2>1, <2>3
<1> HIDE DEF g
<1>6. out' => g[Len(pipe')] = Talk'
  BY <1>1, <1>2, <1>3 DEF Leads, Talk
<1>7. Leads(g)'
  BY <1>1, <1>3, <1>4, <1>5, <1>6 DEF Leads
<1> QED
  BY <1>3, <1>7 DEF ClaudeInv

(* What every treatment of a line leaves to the reader's own state.        *)
LEMMA ClaudeReads ==
    ASSUME ClaudeInv, pipe # <<>>, pipe' = Tail(pipe), UNCHANGED <<cli, out, stdin>>,
           drain' \in BOOLEAN, stream' \in Streams, active' \in Streams,
           shown' \in Seq(Pieces), claimed' \subseteq Seq(Pieces),
           drain' => drain /\ stream'.id = NoMsg,
           swallowed' = (swallowed \/ (drain /\ Head(pipe).live)),
           ahead' \in BOOLEAN,
           \A text \in claimed' : shown' = text \/ (ahead' /\ stream'.text = text),
           \A s, t \in Talks : Utters(s, Head(pipe), t) /\ Follows(s) => Follows(t)'
    PROVE  ClaudeInv'
<1>0. pipe \in Seq(Lines)
  BY DEF ClaudeInv, ClaudeTypes
<1>1. /\ Len(pipe) \in Nat \ {0} /\ Len(pipe') = Len(pipe) - 1 /\ Head(pipe) = pipe[1]
      /\ \A q \in 1..(Len(pipe) - 1) : pipe'[q] = pipe[q + 1]
      /\ pipe' \in Seq(Lines)
  BY <1>0
<1>2. ClaudeTypes'
  BY <1>1 DEF ClaudeInv, ClaudeTypes
<1>3. Drains'
  <2>1. \A q \in DOMAIN pipe' : q + 1 \in DOMAIN pipe /\ pipe'[q] = pipe[q + 1]
    BY <1>0, <1>1
  <2>2. 1 \in DOMAIN pipe
    BY <1>0, <1>1
  <2> QED
    BY <1>1, <2>1, <2>2 DEF ClaudeInv, Drains
<1> QED
  BY <1>2, <1>3, ClaudeTakes DEF StreamedTextExact

(* The line the reader takes.                                              *)
LEMMA ClaudeHead ==
    ASSUME ClaudeInv, pipe # <<>>
    PROVE  Head(pipe) \in Lines
BY DEF ClaudeInv, ClaudeTypes

(* Records of a stream.                                                    *)
LEMMA ClaudeStreams ==
    /\ NoStream \in Streams /\ NoStream.id = NoMsg
    /\ \A i \in Ids, x \in Seq(Pieces) :
          [id |-> i, text |-> x] \in Streams
    /\ \A st \in Streams, x \in Seq(Pieces) :
          /\ [st EXCEPT !.text = x] \in Streams
          /\ [st EXCEPT !.text = x].id = st.id /\ [st EXCEPT !.text = x].text = x
          /\ st.text \in Seq(Pieces) /\ st.id \in Ids
BY DEF NoStream, Streams, Ids

(* A line that is about no message.                                        *)
LEMMA ClaudeOther ==
    ASSUME ClaudeInv, pipe # <<>>, pipe' = Tail(pipe), UNCHANGED <<cli, out, stdin>>,
           Head(pipe).kind \notin {"start", "delta", "assistant", "result"},
           UNCHANGED <<drain, shown, swallowed>>, active' \in Streams,
           ~Head(pipe).live \/ ~drain,
           \/ UNCHANGED <<stream, claimed, ahead>>
           \/ stream' = NoStream /\ claimed' = {} /\ ahead' = FALSE
    PROVE  ClaudeInv'
<1>1. ASSUME NEW s \in Talks, NEW t \in Talks, Utters(s, Head(pipe), t), Follows(s)
      PROVE  Follows(t)'
  <2>1. t = s
    BY <1>1 DEF Utters
  <2> QED
    BY <1>1, <2>1, ClaudeStreams DEF Follows
<1>2. /\ stream' \in Streams /\ claimed' \subseteq Seq(Pieces) /\ ahead' \in BOOLEAN
      /\ drain' => drain /\ stream'.id = NoMsg
  BY ClaudeStreams DEF ClaudeInv, ClaudeTypes, Drains
<1>3. \A text \in claimed' : shown' = text \/ (ahead' /\ stream'.text = text)
  BY DEF ClaudeInv, StreamedTextExact
<1>4. drain' \in BOOLEAN /\ shown' \in Seq(Pieces)
      /\ swallowed' = (swallowed \/ (drain /\ Head(pipe).live))
  BY DEF ClaudeInv, ClaudeTypes
<1> QED
  BY <1>1, <1>2, <1>3, <1>4, ClaudeReads

(* While the history is drained, the line read is not of a live turn.      *)
LEMMA ClaudeNotLive ==
    ASSUME ClaudeInv, pipe # <<>>
    PROVE  /\ ~Head(pipe).live \/ ~drain
           /\ swallowed = (swallowed \/ (drain /\ Head(pipe).live))
           /\ drain \in BOOLEAN /\ (drain => stream.id = NoMsg)
<1>1. Head(pipe) = pipe[1] /\ 1 \in DOMAIN pipe
  BY DEF ClaudeInv, ClaudeTypes
<1>2. ~Head(pipe).live \/ ~drain
  BY <1>1 DEF ClaudeInv, Drains
<1>3. swallowed \in BOOLEAN /\ drain \in BOOLEAN
  BY DEF ClaudeInv, ClaudeTypes
<1>4. drain => stream.id = NoMsg
  BY DEF ClaudeInv, Drains
<1> QED
  BY <1>2, <1>3, <1>4

(* A system line (handleSystem).                                           *)
LEMMA ClaudeSystem ==
    ASSUME ClaudeInv, pipe # <<>>, pipe' = Tail(pipe), UNCHANGED <<cli, out, stdin>>,
           Head(pipe).kind = "system", HandleSystem(Head(pipe))
    PROVE  ClaudeInv'
<1>1. /\ drain' = drain /\ stream' = NoStream /\ active' = NoStream
      /\ claimed' = {} /\ ahead' = FALSE /\ UNCHANGED <<shown, swallowed>>
  BY Zenon DEF HandleSystem, Handle
<1> QED
  BY <1>1, ClaudeOther, ClaudeNotLive, ClaudeStreams

(* A line about a tool, about thinking or a control request.               *)
LEMMA ClaudeToolOrRequest ==
    ASSUME ClaudeInv, pipe # <<>>, pipe' = Tail(pipe), UNCHANGED <<cli, out, stdin>>,
           \/ Head(pipe).kind \in {"thinking", "tool_use", "tool_result"} /\ HandleTool(Head(pipe))
           \/ Head(pipe).kind = "request" /\ HandleControlRequest(Head(pipe))
    PROVE  ClaudeInv'
<1>1. /\ drain' = drain /\ stream' = stream /\ active' = active
      /\ UNCHANGED <<shown, claimed, ahead, swallowed>>
  BY Zenon DEF HandleTool, HandleControlRequest, Handle
<1>2. active \in Streams
  BY DEF ClaudeInv, ClaudeTypes
<1> QED
  BY <1>1, <1>2, ClaudeOther, ClaudeNotLive

(* The result of a turn, or of the replayed history, ends the stream and   *)
(* the drain (handleResult).                                               *)
LEMMA ClaudeResult ==
    ASSUME ClaudeInv, pipe # <<>>, pipe' = Tail(pipe), UNCHANGED <<cli, out, stdin>>,
           Head(pipe).kind = "result", HandleResult(Head(pipe))
    PROVE  ClaudeInv'
<1>1. /\ drain' = FALSE /\ stream' = NoStream /\ active' = NoStream
      /\ claimed' = {} /\ shown' = <<>> /\ ahead' = FALSE
      /\ swallowed' = (swallowed \/ (drain /\ Head(pipe).live))
  BY Zenon DEF HandleResult, Handle
<1>2. \A s, t \in Talks : Utters(s, Head(pipe), t) /\ Follows(s) => Follows(t)'
  BY <1>1, ClaudeStreams DEF Follows
<1>3. shown' \in Seq(Pieces)
  BY <1>1
<1> QED
  BY <1>1, <1>2, <1>3, ClaudeReads, ClaudeStreams

(* The ids of the messages are new, so that a stream never continues in    *)
(* the message of another turn.                                            *)
LEMMA ClaudeStart ==
    ASSUME ClaudeInv, pipe # <<>>, pipe' = Tail(pipe), UNCHANGED <<cli, out, stdin>>,
           Head(pipe).kind = "start", HandleMessageStart(Head(pipe))
    PROVE  ClaudeInv'
<1> DEFINE l == Head(pipe)
<1>1. /\ drain' = drain /\ active' = active /\ claimed' = {} /\ swallowed' = swallowed
      /\ stream' = IF drain \/ stream.id = l.id THEN stream ELSE [id |-> l.id, text |-> <<>>]
      /\ shown' = IF drain \/ stream.id = l.id THEN shown ELSE <<>>
      /\ ahead' = (ahead /\ (drain \/ stream.id = l.id))
  BY Zenon DEF HandleMessageStart, Handle
<1>2. l.id \in Ids /\ stream \in Streams /\ active \in Streams /\ shown \in Seq(Pieces)
  BY ClaudeHead DEF Lines, ClaudeInv, ClaudeTypes
<1>3. stream' \in Streams /\ shown' \in Seq(Pieces) /\ (drain' => stream' = stream)
  <2>1. [id |-> l.id, text |-> <<>>] \in Streams /\ <<>> \in Seq(Pieces)
    BY <1>2 DEF Streams
  <2> HIDE DEF l
  <2> QED
    BY <1>1, <1>2, <2>1
<1>4. ASSUME NEW s \in Talks, NEW t \in Talks, Utters(s, l, t), Follows(s)
      PROVE  Follows(t)'
  <2>1. l.id \in MsgIDs /\ l.id \notin s.told
    BY <1>4 DEF Utters
  <2>2. t.id = l.id /\ t.text = <<>> /\ l.id \in t.told
    BY <1>4 DEF Utters
  <2>3. CASE drain
    BY <1>1, <2>3 DEF ClaudeInv, Drains, Follows
  <2>4. CASE ~drain
    <3>1. stream.id # l.id
      BY <1>4, <2>1, ClaudeAssumption DEF Follows
    <3>2. stream'.id = l.id /\ stream'.text = <<>> /\ shown' = <<>>
      BY <1>1, <2>4, <3>1
    <3> QED
      BY <2>2, <3>2 DEF Follows
  <2> QED
    BY <2>3, <2>4
<1>5. /\ drain' \in BOOLEAN /\ (drain' => drain /\ stream'.id = NoMsg)
      /\ swallowed' = (swallowed \/ (drain /\ l.live))
  BY <1>1, <1>3, ClaudeNotLive
<1>6. /\ \A text \in claimed' : shown' = text \/ (ahead' /\ stream'.text = text)
      /\ ahead' \in BOOLEAN
  BY <1>1
<1>7. claimed' \subseteq Seq(Pieces)
  BY <1>1
<1> QED
  BY <1>1, <1>2, <1>3, <1>4, <1>5, <1>6, <1>7, ClaudeReads

(* A delta goes to the message that streams and is shown, or to none       *)
(* (handleStreamEvent).                                                    *)
LEMMA ClaudeDelta ==
    ASSUME ClaudeInv, pipe # <<>>, pipe' = Tail(pipe), UNCHANGED <<cli, out, stdin>>,
           Head(pipe).kind = "delta", HandleDelta(Head(pipe))
    PROVE  ClaudeInv'
<1> DEFINE l == Head(pipe)
<1>1. /\ drain' = drain /\ active' = active /\ claimed' = {} /\ swallowed' = swallowed
      /\ ahead' = ahead
      /\ drain => UNCHANGED <<stream, shown>>
      /\ ~drain => /\ stream' = [stream EXCEPT !.text = Append(@, l.tok)]
                   /\ shown' = Append(shown, l.tok)
  BY Zenon DEF HandleDelta, Handle
<1>2. l.tok \in Pieces /\ stream \in Streams /\ active \in Streams /\ shown \in Seq(Pieces)
  BY ClaudeHead DEF Lines, ClaudeInv, ClaudeTypes
<1>3. /\ Append(stream.text, l.tok) \in Seq(Pieces) /\ Append(shown, l.tok) \in Seq(Pieces)
      /\ stream.text \in Seq(Pieces)
  BY <1>2 DEF Streams
<1>4. /\ stream' \in Streams /\ shown' \in Seq(Pieces) /\ stream'.id = stream.id
      /\ ~drain => stream'.text = Append(stream.text, l.tok)
  <2>1. /\ [stream EXCEPT !.text = Append(stream.text, l.tok)] \in Streams
        /\ [stream EXCEPT !.text = Append(stream.text, l.tok)].id = stream.id
        /\ [stream EXCEPT !.text = Append(stream.text, l.tok)].text
              = Append(stream.text, l.tok)
    BY <1>2, <1>3, ClaudeStreams
  <2> QED
    BY <1>1, <1>2, <1>3, <2>1, ClaudeNotLive
<1>5. ASSUME NEW s \in Talks, NEW t \in Talks, Utters(s, l, t), Follows(s)
      PROVE  Follows(t)'
  <2>1. CASE drain
    BY <1>1, <2>1 DEF ClaudeInv, Drains, Follows
  <2>2. CASE ~drain /\ stream.id # NoMsg
    <3>1. s.id # NoMsg /\ t.id = s.id /\ t.told = s.told
      BY <1>5 DEF Utters
    <3>2. PICK x \in Seq(Pieces) : t.text = s.text \o x
      BY <1>5 DEF Utters
    <3>3. /\ stream.id \in s.told /\ s.id = stream.id
          /\ ahead \/ shown = stream.text \/ Parted(stream.text, s.text)
      BY <1>5, <2>2, <3>1 DEF Follows
    <3>4. s.text \in Seq(Pieces)
      BY DEF Talks
    <3>5. CASE Parted(stream.text, s.text)
      <4>1. PICK i \in 1..Len(stream.text) : i <= Len(s.text) /\ stream.text[i] # s.text[i]
        BY <3>5 DEF Parted
      <4>2. stream'.text = Append(stream.text, l.tok)
        BY <1>4, <2>2
      <4> HIDE DEF l
      <4>3. i \in 1..Len(stream'.text) /\ stream'.text[i] = stream.text[i]
        BY <1>2, <1>3, <4>1, <4>2
      <4>4. i <= Len(t.text) /\ t.text[i] = s.text[i]
        BY <3>2, <3>4, <4>1
      <4>5. Parted(stream'.text, t.text)
        BY <4>1, <4>3, <4>4 DEF Parted
      <4> QED
        BY <1>4, <3>1, <3>3, <4>5 DEF Follows
    <3>6. CASE ahead
      BY <1>1, <1>4, <3>1, <3>3, <3>6 DEF Follows
    <3>7. CASE shown = stream.text
      <4>1. shown' = stream'.text
        BY <1>1, <1>4, <2>2, <3>7
      <4> QED
        BY <1>4, <3>1, <3>3, <4>1 DEF Follows
    <3> QED
      BY <3>3, <3>5, <3>6, <3>7
  <2>3. CASE stream.id = NoMsg
    BY <1>4, <2>3 DEF Follows
  <2> QED
    BY <2>1, <2>2, <2>3
<1>6. /\ drain' \in BOOLEAN /\ (drain' => drain /\ stream'.id = NoMsg)
      /\ swallowed' = (swallowed \/ (drain /\ l.live))
  BY <1>1, <1>4, ClaudeNotLive
<1>7. /\ \A text \in claimed' : shown' = text \/ (ahead' /\ stream'.text = text)
      /\ claimed' \subseteq Seq(Pieces) /\ ahead' \in BOOLEAN
  BY <1>1 DEF ClaudeInv, ClaudeTypes
<1> QED
  BY <1>1, <1>2, <1>4, <1>5, <1>6, <1>7, ClaudeReads

(* A checkpoint of the message that is streamed.  If the stream differed   *)
(* from what the CLI said, it differs from the checkpoint in the same      *)
(* place; if it did not, it is the beginning of it, or the two part here,  *)
(* or the stream has all of it and more.                                   *)
LEMMA ClaudeCheckpoint ==
    ASSUME ClaudeInv, pipe # <<>>, pipe' = Tail(pipe), UNCHANGED <<cli, out, stdin>>,
           Head(pipe).kind = "assistant", ~drain, stream.id = Head(pipe).id,
           Head(pipe).text # <<>>, CheckpointStreamed(Head(pipe)),
           claimed' = {Head(pipe).text}, UNCHANGED swallowed
    PROVE  ClaudeInv'
<1>l. PICK l \in Lines : l = Head(pipe)
  BY ClaudeHead
<1> DEFINE rest == SubSeq(l.text, Len(stream.text) + 1, Len(l.text))
<1>1. /\ drain' = drain /\ active' = active
      /\ Divergent(l.text) => /\ stream' = stream /\ shown' = l.text
                              /\ ahead' = (ahead \/ IsPrefix(l.text, stream.text))
      /\ ~Divergent(l.text) => /\ stream' = [stream EXCEPT !.text = l.text]
                               /\ shown' = shown \o rest /\ ahead' = ahead
  BY <1>l, Zenon DEF CheckpointStreamed, Handle
<1>2. /\ l.text \in Seq(Pieces) /\ stream \in Streams /\ stream.text \in Seq(Pieces)
      /\ active \in Streams /\ shown \in Seq(Pieces) /\ ahead \in BOOLEAN
  BY ClaudeStreams DEF Lines, ClaudeInv, ClaudeTypes
<1>3. PICK h \in [0..Len(pipe) -> Talks] : Leads(h)
  BY DEF ClaudeInv
<1>4. 1 \in 1..Len(pipe) /\ 1 - 1 = 0 /\ Head(pipe) = pipe[1] /\ h[0] \in Talks
  <2>1. pipe \in Seq(Lines)
    BY DEF ClaudeInv, ClaudeTypes
  <2>2. Len(pipe) \in Nat /\ 1 \in 1..Len(pipe) /\ Head(pipe) = pipe[1]
    BY <2>1
  <2>3. 0 \in 0..Len(pipe)
    BY <2>2
  <2> QED
    BY <2>2, <2>3
<1>5. Utters(h[0], l, h[1]) /\ Follows(h[0])
  BY <1>l, <1>3, <1>4 DEF Leads
(* Any two talks around this line. *)
<1>6. ASSUME NEW s \in Talks, NEW t \in Talks, Utters(s, l, t), Follows(s)
      PROVE  /\ s.id = stream.id /\ s.id # NoMsg /\ stream.id \in t.told /\ t.id \in {s.id, NoMsg}
             /\ t.id # NoMsg => t.text = l.text
             /\ ahead \/ shown = stream.text \/ Parted(stream.text, l.text)
  <2>1. /\ s.id # NoMsg /\ l.id = s.id /\ t.told = s.told
        /\ \/ t.id = s.id /\ t.text = l.text /\ Grown(s, t)
           \/ t.id = NoMsg /\ l.text = s.text
    BY <1>l, <1>6 DEF Utters
  <2>2. /\ stream.id \in s.told /\ s.id = stream.id
        /\ ahead \/ shown = stream.text \/ Parted(stream.text, s.text)
    BY <1>l, <1>6, <2>1 DEF Follows
  <2>3. s.text \in Seq(Pieces)
    BY DEF Talks
  <2>4. Len(s.text) <= Len(l.text) /\ \A i \in 1..Len(s.text) : l.text[i] = s.text[i]
    <3>1. CASE l.text = s.text
      BY <2>3, <3>1
    <3>2. CASE t.text = l.text /\ \E x \in Pieces : t.text = Append(s.text, x)
      <4>1. PICK x \in Pieces : l.text = Append(s.text, x)
        BY <3>2
      <4> HIDE DEF rest
      <4> QED
        BY <2>3, <4>1
    <3> QED
      BY <2>1, <3>1, <3>2 DEF Grown
  <2>5. Len(stream.text) \in Nat /\ Len(s.text) \in Nat /\ Len(l.text) \in Nat
    BY <1>2, <2>3
  <2>6. Parted(stream.text, s.text) => Parted(stream.text, l.text)
    BY <2>4, <2>5 DEF Parted
  <2> HIDE DEF rest
  <2> QED
    BY <2>1, <2>2, <2>6
<1>7. ahead \/ shown = stream.text \/ Parted(stream.text, l.text)
  <2>1. h[1] \in Talks
    BY <1>3, <1>4
  <2> QED
    BY <1>4, <1>5, <1>6, <2>1
<1>8. CASE Divergent(l.text)
  <2>1. IsPrefix(l.text, stream.text) \/ Parted(stream.text, l.text)
    <3>1. Len(stream.text) \in Nat /\ Len(l.text) \in Nat
      BY <1>2
    <3>2. ~IsPrefix(stream.text, l.text)
      BY <1>8 DEF Divergent
    <3>3. CASE Len(stream.text) <= Len(l.text)
      <4>1. \E i \in 1..Len(stream.text) : stream.text[i] # l.text[i]
        BY <1>2, <3>2, <3>3, TextPrefix
      <4> QED
        BY <3>1, <3>3, <4>1 DEF Parted
    <3>4. CASE Len(l.text) <= Len(stream.text)
      <4>1. CASE \A i \in 1..Len(l.text) : l.text[i] = stream.text[i]
        BY <1>2, <3>4, <4>1, TextPrefix
      <4>2. CASE \E i \in 1..Len(l.text) : l.text[i] # stream.text[i]
        BY <3>1, <3>4, <4>2 DEF Parted
      <4> QED
        BY <4>1, <4>2
    <3> QED
      BY <3>1, <3>3, <3>4
  <2>2. stream' = stream /\ shown' = l.text /\ ahead' = (ahead \/ IsPrefix(l.text, stream.text))
    BY <1>1, <1>8
  <2>3. ASSUME NEW s \in Talks, NEW t \in Talks, Utters(s, l, t), Follows(s)
        PROVE  Follows(t)'
    <3>1. ahead' \/ Parted(stream.text, l.text)
      BY <2>1, <2>2
    <3> QED
      BY <1>6, <2>2, <2>3, <3>1 DEF Follows
  <2>4. /\ drain' \in BOOLEAN /\ (drain' => drain /\ stream'.id = NoMsg)
        /\ swallowed' = (swallowed \/ (drain /\ l.live))
    BY <1>l, <1>1, ClaudeNotLive
  <2>5. ahead' \in BOOLEAN
    BY <2>2
  <2>6. \A text \in claimed' : shown' = text \/ (ahead' /\ stream'.text = text)
    BY <1>l, <2>2
  <2>7. claimed' \subseteq Seq(Pieces)
    BY <1>l, <1>2
  <2> QED
    BY <1>l, <1>1, <1>2, <2>2, <2>3, <2>4, <2>5, <2>6, <2>7, ClaudeReads
<1>9. CASE ~Divergent(l.text)
  <2>1. Len(stream.text) <= Len(l.text) /\ \A i \in 1..Len(stream.text) : stream.text[i] = l.text[i]
    BY <1>2, <1>9, TextPrefix DEF Divergent
  <2>2. ahead \/ shown = stream.text
    BY <1>7, <2>1 DEF Parted
  <2>3. ahead' = ahead /\ shown' = shown \o rest
    BY <1>1, <1>9
  <2>4. shown = stream.text => shown' = l.text
    BY <1>2, <2>1, <2>3, TextRest
  <2>5. stream' \in Streams /\ stream'.id = stream.id /\ stream'.text = l.text
    <3>1. /\ [stream EXCEPT !.text = l.text] \in Streams
          /\ [stream EXCEPT !.text = l.text].id = stream.id
          /\ [stream EXCEPT !.text = l.text].text = l.text
      BY <1>2, ClaudeStreams
    <3> QED
      BY <1>1, <1>9, <3>1
  <2>6. rest \in Seq(Pieces)
    BY <1>2, <2>1
  <2>7. shown' \in Seq(Pieces)
    <3> HIDE DEF rest
    <3> QED
      BY <1>2, <2>3, <2>6
  <2> HIDE DEF rest
  <2>8. \A s, t \in Talks : Utters(s, l, t) /\ Follows(s) => Follows(t)'
    <3> SUFFICES ASSUME NEW s \in Talks, NEW t \in Talks, Utters(s, l, t), Follows(s)
                 PROVE  Follows(t)'
      OBVIOUS
    <3>1. /\ s.id = stream.id /\ stream.id \in t.told /\ t.id \in {s.id, NoMsg}
          /\ t.id # NoMsg => t.text = l.text
      BY <1>6
    <3>2. ahead' \/ shown' = stream'.text
      BY <2>2, <2>3, <2>4, <2>5
    <3> QED
      BY <2>5, <3>1, <3>2 DEF Follows
  <2>9. /\ drain' \in BOOLEAN /\ (drain' => drain /\ stream'.id = NoMsg)
        /\ swallowed' = (swallowed \/ (drain /\ l.live))
    BY <1>l, <1>1, ClaudeNotLive
  <2>10. \A text \in claimed' : shown' = text \/ (ahead' /\ stream'.text = text)
    BY <1>l, <2>2, <2>3, <2>4, <2>5
  <2>11. claimed' \subseteq Seq(Pieces) /\ ahead' \in BOOLEAN
    BY <1>l, <1>2, <2>3
  <2> QED
    BY <1>l, <1>1, <1>2, <2>5, <2>7, <2>8, <2>9, <2>10, <2>11, ClaudeReads
<1> QED
  BY <1>8, <1>9

(* Any other checkpoint: while draining it is ignored, and one of another  *)
(* message or without a text leaves the stream and, of the message that is *)
(* streamed, what is shown.                                                *)
LEMMA ClaudePlain ==
    ASSUME ClaudeInv, pipe # <<>>, pipe' = Tail(pipe), UNCHANGED <<cli, out, stdin>>,
           Head(pipe).kind = "assistant",
           \/ drain /\ Handle(0, drain, stream, active) /\ UNCHANGED <<shown, ahead>>
           \/ /\ ~drain /\ ~(stream.id = Head(pipe).id /\ Head(pipe).text # <<>>)
              /\ CheckpointPlain(Head(pipe)),
           claimed' = {}, UNCHANGED swallowed
    PROVE  ClaudeInv'
<1>l. PICK l \in Lines : l = Head(pipe)
  BY ClaudeHead
<1> DEFINE prev == IF active.id = l.id THEN active.text ELSE <<>>
           rest == IF IsPrefix(prev, l.text)
                   THEN SubSeq(l.text, Len(prev) + 1, Len(l.text)) ELSE l.text
<1>1. /\ drain' = drain /\ stream' = stream /\ ahead' = ahead
      /\ drain => active' = active /\ shown' = shown
      /\ ~drain => /\ active' = IF l.text = <<>> THEN active ELSE [id |-> l.id, text |-> l.text]
                   /\ shown' = shown \o rest
                   /\ ~(stream.id = l.id /\ l.text # <<>>)
  BY <1>l, Zenon DEF CheckpointPlain, Handle
<1>2. /\ l.text \in Seq(Pieces) /\ l.id \in Ids /\ stream \in Streams /\ active \in Streams
      /\ active.text \in Seq(Pieces) /\ shown \in Seq(Pieces)
  BY ClaudeStreams DEF Lines, ClaudeInv, ClaudeTypes
<1>3. prev \in Seq(Pieces)
  BY <1>2
<1>4. rest \in Seq(Pieces) /\ (l.text = <<>> => rest = <<>>)
  <2> HIDE DEF prev
  <2>1. Len(prev) + 1 \in Nat \ {0}
    BY <1>3
  <2>2. SubSeq(l.text, Len(prev) + 1, Len(l.text)) \in Seq(Pieces)
    BY <1>2, <1>3, <2>1
  <2>3. l.text = <<>> => SubSeq(l.text, Len(prev) + 1, Len(l.text)) = <<>>
    BY <1>2, <1>3, <2>1
  <2> QED
    BY <1>2, <2>2, <2>3
<1> HIDE DEF rest
<1>5. shown' \in Seq(Pieces) /\ (l.text = <<>> => shown' = shown)
  <2>1. shown \o rest \in Seq(Pieces)
    BY <1>2, <1>4
  <2>2. rest = <<>> => shown \o rest = shown
    BY <1>2
  <2> QED
    BY <1>1, <1>2, <1>4, <2>1, <2>2
<1>6. active' \in Streams
  <2>1. [id |-> l.id, text |-> l.text] \in Streams
    BY <1>2 DEF Streams
  <2> QED
    BY <1>1, <1>2, <2>1, ClaudeNotLive
<1>7. \A s, t \in Talks : Utters(s, l, t) /\ Follows(s) => Follows(t)'
  <2> SUFFICES ASSUME NEW s \in Talks, NEW t \in Talks, Utters(s, l, t), Follows(s), stream.id # NoMsg
               PROVE  Follows(t)'
    BY <1>1 DEF Follows
  <2>1. /\ s.id # NoMsg /\ l.id = s.id /\ t.told = s.told
        /\ \/ t.id = s.id /\ t.text = l.text /\ Grown(s, t)
           \/ t.id = NoMsg /\ l.text = s.text
    BY <1>l DEF Utters
  <2>2. /\ stream.id \in s.told /\ s.id = stream.id
        /\ ahead \/ shown = stream.text \/ Parted(stream.text, s.text)
    BY <2>1 DEF Follows
  <2>3. l.text = <<>> /\ shown' = shown
    <3>1. ~drain
      BY ClaudeNotLive
    <3> QED
      BY <1>1, <1>5, <2>1, <2>2, <3>1
  <2>4. t.id # NoMsg => t.text = s.text
    <3>1. s.text \in Seq(Pieces)
      BY DEF Talks
    <3>2. \A x \in Pieces : Append(s.text, x) # <<>>
      BY <3>1, AppendProperties
    <3> QED
      BY <2>1, <2>3, <3>2 DEF Grown
  <2> QED
    BY <1>1, <2>1, <2>2, <2>3, <2>4 DEF Follows
<1>8. /\ drain' \in BOOLEAN /\ (drain' => drain /\ stream'.id = NoMsg)
      /\ swallowed' = (swallowed \/ (drain /\ l.live))
  BY <1>l, <1>1, ClaudeNotLive
<1>9. /\ \A text \in claimed' : shown' = text \/ (ahead' /\ stream'.text = text)
      /\ claimed' \subseteq Seq(Pieces) /\ ahead' \in BOOLEAN
  BY <1>1 DEF ClaudeInv, ClaudeTypes
<1> QED
  BY <1>l, <1>1, <1>2, <1>5, <1>6, <1>7, <1>8, <1>9, ClaudeReads

(* A checkpoint of a message (handleAssistant).                            *)
LEMMA ClaudeAssistant ==
    ASSUME ClaudeInv, pipe # <<>>, pipe' = Tail(pipe), UNCHANGED <<cli, out, stdin>>,
           Head(pipe).kind = "assistant", HandleAssistant(Head(pipe))
    PROVE  ClaudeInv'
<1>1. CASE ~drain /\ stream.id = Head(pipe).id /\ Head(pipe).text # <<>>
  <2>1. /\ CheckpointStreamed(Head(pipe)) /\ claimed' = {Head(pipe).text} /\ UNCHANGED swallowed
    BY <1>1, Zenon DEF HandleAssistant
  <2> QED
    BY <1>1, <2>1, ClaudeCheckpoint
<1>2. CASE ~(~drain /\ stream.id = Head(pipe).id /\ Head(pipe).text # <<>>)
  <2>1. /\ \/ drain /\ Handle(0, drain, stream, active) /\ UNCHANGED <<shown, ahead>>
           \/ /\ ~drain /\ ~(stream.id = Head(pipe).id /\ Head(pipe).text # <<>>)
              /\ CheckpointPlain(Head(pipe))
        /\ claimed' = {} /\ UNCHANGED swallowed
    BY <1>2, Zenon DEF HandleAssistant
  <2> QED
    BY <1>2, <2>1, ClaudePlain
<1> QED
  BY <1>1, <1>2
-----------------------------------------------------------------------------
(* The CLI's turn: every line it writes is one that its state allows.      *)
LEMMA CliTalks ==
    ASSUME ClaudeInv
    PROVE  /\ cli.msg \in Ids /\ cli.text \in Seq(Pieces) /\ cli.told \subseteq MsgIDs
           /\ cli.turns \in Nat /\ cli \in Clis
           /\ Talk.id = cli.msg /\ Talk.text = cli.text /\ Talk.told = cli.told
BY DEF ClaudeInv, ClaudeTypes, Clis, Talk

(* A line that is about no message, as the CLI writes it.                  *)
LEMMA CliLines ==
    ASSUME ClaudeInv, NEW k \in LineKinds
    PROVE  /\ Line(k) \in Lines /\ Line(k).kind = k /\ Line(k).id = NoMsg
           /\ (drain => ~Line(k).live)
<1>1. drain => ~(k = "result" /\ cli.turns > 0)
  BY DEF ClaudeInv, Drains
<1> DEFINE v == k = "result" /\ cli.turns > 0
           l == [kind |-> k, id |-> NoMsg, text |-> <<>>, tok |-> NoToken, edit |-> FALSE,
                 live |-> v]
<1>2. v \in BOOLEAN
  OBVIOUS
<1>3. Line(k) = l
  BY DEF Line
<1>4. drain => ~v
  BY <1>1
<1> HIDE DEF v
<1>5. l \in Lines /\ l.kind = k /\ l.id = NoMsg /\ l.live = v
  BY <1>2 DEF Lines, Ids, Pieces
<1> QED
  BY <1>3, <1>4, <1>5

(* What changing a field of a line leaves.                                 *)
LEMMA LineFields ==
    ASSUME NEW l \in Lines
    PROVE  /\ \A i \in Ids : /\ [l EXCEPT !.id = i] \in Lines
                             /\ [l EXCEPT !.id = i].kind = l.kind
                             /\ [l EXCEPT !.id = i].id = i
                             /\ [l EXCEPT !.id = i].live = l.live
           /\ \A x \in Seq(Pieces) : /\ [l EXCEPT !.text = x] \in Lines
                                     /\ [l EXCEPT !.text = x].kind = l.kind
                                     /\ [l EXCEPT !.text = x].id = l.id
                                     /\ [l EXCEPT !.text = x].text = x
                                     /\ [l EXCEPT !.text = x].live = l.live
           /\ \A c \in Pieces : /\ [l EXCEPT !.tok = c] \in Lines
                                /\ [l EXCEPT !.tok = c].kind = l.kind
                                /\ [l EXCEPT !.tok = c].live = l.live
           /\ \A b \in BOOLEAN : /\ [l EXCEPT !.edit = b] \in Lines
                                 /\ [l EXCEPT !.edit = b].kind = l.kind
                                 /\ [l EXCEPT !.edit = b].live = l.live
BY DEF Lines

(* A checkpoint carries the message, with its text or with a longer one.   *)
LEMMA CliCheckpoint ==
    ASSUME ClaudeInv, NEW x \in Seq(Pieces)
    PROVE  LET l == [Checkpoint EXCEPT !.text = x] IN
           /\ Checkpoint \in Lines /\ Checkpoint.kind = "assistant" /\ Checkpoint.id = cli.msg
           /\ Checkpoint.text = cli.text /\ (drain => ~Checkpoint.live)
           /\ l \in Lines /\ l.kind = "assistant" /\ l.id = cli.msg /\ l.text = x
           /\ (drain => ~l.live)
<1> DEFINE a == Line("assistant")
<1>1. a \in Lines /\ a.kind = "assistant" /\ (drain => ~a.live)
  BY CliLines DEF LineKinds
<1> HIDE DEF a
<1> DEFINE b == [a EXCEPT !.id = cli.msg]
<1>2. b \in Lines /\ b.kind = "assistant" /\ b.id = cli.msg /\ b.live = a.live
  BY <1>1, LineFields, CliTalks
<1>3. Checkpoint = [b EXCEPT !.text = cli.text]
  BY DEF Checkpoint, a, Line
<1> HIDE DEF b
<1> DEFINE c == [b EXCEPT !.text = cli.text]
<1>4. c \in Lines /\ c.kind = "assistant" /\ c.id = cli.msg /\ c.text = cli.text
      /\ c.live = a.live
  BY <1>2, LineFields, CliTalks
<1> HIDE DEF c
<1>5. Checkpoint = c
  BY <1>3 DEF c
<1>6. LET l == [c EXCEPT !.text = x] IN
         l \in Lines /\ l.kind = "assistant" /\ l.id = cli.msg /\ l.text = x /\ l.live = a.live
  BY <1>4, LineFields
<1> QED
  BY <1>1, <1>4, <1>5, <1>6

(* How each line changes the state of the CLI.                             *)
LEMMA CliRecord ==
    ASSUME NEW c \in Clis
    PROVE  /\ \A m \in MsgIDs :
                LET d == [c EXCEPT !.msg = m, !.told = @ \cup {m}] IN
                /\ d \in Clis /\ d.msg = m /\ d.told = c.told \cup {m} /\ d.text = c.text
                /\ d.turns = c.turns
           /\ \A x \in Seq(Pieces) :
                LET d == [c EXCEPT !.text = x] IN
                /\ d \in Clis /\ d.msg = c.msg /\ d.told = c.told /\ d.text = x
                /\ d.turns = c.turns
           /\ LET d == [c EXCEPT !.msg = NoMsg, !.text = <<>>] IN
                /\ d \in Clis /\ d.msg = NoMsg /\ d.told = c.told /\ d.text = <<>>
                /\ d.turns = c.turns
           /\ LET d == [c EXCEPT !.msg = NoMsg, !.text = <<>>, !.replays = FALSE,
                                 !.turns = IF @ > 0 THEN @ - 1 ELSE 0] IN
                /\ d \in Clis /\ d.msg = NoMsg /\ d.told = c.told /\ d.text = <<>>
                /\ d.turns = IF c.turns > 0 THEN c.turns - 1 ELSE 0
<1>1. \A m \in MsgIDs :
        LET d == [c EXCEPT !.msg = m, !.told = @ \cup {m}] IN
        /\ d \in Clis /\ d.msg = m /\ d.told = c.told \cup {m} /\ d.text = c.text
        /\ d.turns = c.turns
  BY DEF Clis, Ids
<1>2. \A x \in Seq(Pieces) :
        LET d == [c EXCEPT !.text = x] IN
        /\ d \in Clis /\ d.msg = c.msg /\ d.told = c.told /\ d.text = x
        /\ d.turns = c.turns
  BY DEF Clis
<1> DEFINE c1 == [c EXCEPT !.msg = NoMsg]
<1>3. /\ c1 \in Clis /\ c1.msg = NoMsg /\ c1.told = c.told /\ c1.turns = c.turns
  BY DEF Clis, Ids
<1> HIDE DEF c1
<1> DEFINE c2 == [c1 EXCEPT !.text = <<>>]
<1>4. /\ c2 \in Clis /\ c2.msg = NoMsg /\ c2.told = c.told /\ c2.turns = c.turns
      /\ c2.text = <<>>
  <2>1. \A x \in Seq(Pieces) :
           LET d == [c1 EXCEPT !.text = x] IN
           d \in Clis /\ d.msg = c1.msg /\ d.told = c1.told /\ d.turns = c1.turns /\ d.text = x
    BY <1>3 DEF Clis
  <2>2. <<>> \in Seq(Pieces)
    OBVIOUS
  <2> QED
    BY <1>3, <2>1, <2>2
<1>5. c2 = [c EXCEPT !.msg = NoMsg, !.text = <<>>]
  BY DEF c1
<1> HIDE DEF c2
<1> DEFINE c3 == [c2 EXCEPT !.replays = FALSE]
<1>6. /\ c3 \in Clis /\ c3.msg = NoMsg /\ c3.told = c.told /\ c3.turns = c.turns
      /\ c3.text = <<>>
  BY <1>4 DEF Clis
<1> HIDE DEF c3
<1> DEFINE less == IF c.turns > 0 THEN c.turns - 1 ELSE 0
           c4 == [c3 EXCEPT !.turns = less]
<1>7. less \in Nat
  BY DEF Clis
<1> HIDE DEF less
<1>8. /\ c4 \in Clis /\ c4.msg = NoMsg /\ c4.told = c.told /\ c4.turns = less
      /\ c4.text = <<>>
  BY <1>6, <1>7 DEF Clis
<1>9. c4 = [c EXCEPT !.msg = NoMsg, !.text = <<>>, !.replays = FALSE,
                     !.turns = IF @ > 0 THEN @ - 1 ELSE 0]
  BY <1>5 DEF c3, less
<1> QED
  BY <1>1, <1>2, <1>4, <1>5, <1>8, <1>9 DEF less

(* A line written while the pipe is open leads from what the CLI said to   *)
(* what it says now.                                                       *)
LEMMA ClaudeWrites ==
    ASSUME ClaudeInv, NEW l \in Lines, Writes(l), cli' \in Clis, Utters(Talk, l, Talk'),
           drain => ~l.live /\ cli'.turns = 0, cli'.msg = NoMsg => cli'.text = <<>>
    PROVE  ClaudeInv'
<1>1. /\ out /\ pipe' = Append(pipe, l)
      /\ UNCHANGED <<out, drain, stdin, stream, active, shown, claimed, ahead, swallowed>>
  BY Zenon DEF Writes, reading, endVars
<1> QED
  BY <1>1, ClaudeLine

(* Each kind of line the CLI writes.                                       *)
LEMMA CliWritesKeeps ==
    ASSUME ClaudeInv, CliWrites
    PROVE  ClaudeInv'
<1>t. /\ cli.msg \in Ids /\ cli.text \in Seq(Pieces) /\ cli.told \subseteq MsgIDs
      /\ cli.turns \in Nat /\ cli \in Clis
      /\ Talk.id = cli.msg /\ Talk.text = cli.text /\ Talk.told = cli.told
      /\ Talk' = [id |-> cli'.msg, text |-> cli'.text, told |-> cli'.told]
      /\ drain => cli.turns = 0
      /\ cli.msg = NoMsg => cli.text = <<>>
  BY CliTalks DEF Talk, ClaudeInv, ClaudeTypes, Drains
<1>s. \A l \in Lines : \A c \in Clis :
        Writes(l) /\ cli' = c /\ Utters(Talk, l, Talk') /\ (drain => ~l.live /\ c.turns = 0)
        /\ (c.msg = NoMsg => c.text = <<>>)
        => ClaudeInv'
  BY ClaudeWrites
<1>1. ASSUME NEW m \in MsgIDs \ cli.told, cli.msg = NoMsg,
             cli' = [cli EXCEPT !.msg = m, !.told = @ \cup {m}],
             Writes([Line("start") EXCEPT !.id = m])
      PROVE  ClaudeInv'
  <2> DEFINE l == [Line("start") EXCEPT !.id = m]
  <2>1. l \in Lines /\ l.kind = "start" /\ l.id = m /\ (drain => ~l.live)
    <3>1. m \in Ids /\ "start" \in LineKinds
      BY DEF Ids, LineKinds
    <3> QED
      BY <3>1, CliLines, LineFields
  <2> HIDE DEF l
  <2>2. /\ cli' \in Clis /\ cli'.msg = m /\ cli'.told = cli.told \cup {m} /\ cli'.text = cli.text
        /\ cli'.turns = cli.turns
    BY <1>1, <1>t, CliRecord, ZenonT(60)
  <2>3. cli.text = <<>> /\ m # NoMsg
    BY <1>1, <1>t, ClaudeAssumption
  <2>4. Utters(Talk, l, Talk')
    BY <1>t, <2>1, <2>2, <2>3 DEF Utters
  <2> QED
    BY <1>1, <1>s, <1>t, <2>1, <2>2, <2>3, <2>4 DEF l
<1>2. ASSUME NEW more \in SeqOf(Tokens, 2), NEW u \in Tokens, cli.msg # NoMsg,
             cli' = [cli EXCEPT !.text = @ \o more],
             Writes([Line("delta") EXCEPT !.tok = u])
      PROVE  ClaudeInv'
  <2> DEFINE l == [Line("delta") EXCEPT !.tok = u]
  <2>1. l \in Lines /\ l.kind = "delta" /\ (drain => ~l.live)
    <3>1. u \in Pieces /\ "delta" \in LineKinds
      BY DEF Pieces, LineKinds
    <3> QED
      BY <3>1, CliLines, LineFields
  <2> HIDE DEF l
  <2>2. more \in Seq(Pieces) /\ cli.text \o more \in Seq(Pieces)
    <3>1. PICK n \in 0..2 : more \in [1..n -> Tokens]
      BY DEF SeqOf
    <3>2. more \in [1..n -> Pieces]
      BY <3>1 DEF Pieces
    <3>3. more \in Seq(Pieces)
      BY <3>1, <3>2
    <3> QED
      BY <1>t, <3>3
  <2>3. /\ cli' \in Clis /\ cli'.msg = cli.msg /\ cli'.told = cli.told
        /\ cli'.text = cli.text \o more /\ cli'.turns = cli.turns
    BY <1>2, <1>t, <2>2, CliRecord
  <2>4. Utters(Talk, l, Talk')
    BY <1>2, <1>t, <2>1, <2>2, <2>3 DEF Utters
  <2> QED
    BY <1>2, <1>s, <1>t, <2>1, <2>3, <2>4 DEF l
<1>3. ASSUME NEW t \in Tokens, cli.msg # NoMsg,
             cli' = [cli EXCEPT !.text = Append(@, t)],
             Writes([Checkpoint EXCEPT !.text = Append(@, t)])
      PROVE  ClaudeInv'
  <2>1. t \in Pieces /\ Append(cli.text, t) \in Seq(Pieces)
    BY <1>t DEF Pieces
  <2> DEFINE l == [Checkpoint EXCEPT !.text = Append(cli.text, t)]
  <2>2. /\ Checkpoint.text = cli.text
        /\ l \in Lines /\ l.kind = "assistant" /\ l.id = cli.msg
        /\ l.text = Append(cli.text, t) /\ (drain => ~l.live)
    BY <2>1, CliCheckpoint
  <2>3. Writes(l)
    BY <1>3, <2>2
  <2> HIDE DEF l
  <2>4. /\ cli' \in Clis /\ cli'.msg = cli.msg /\ cli'.told = cli.told
        /\ cli'.text = Append(cli.text, t) /\ cli'.turns = cli.turns
    BY <1>3, <1>t, <2>1, CliRecord
  <2>5. Utters(Talk, l, Talk')
    BY <1>3, <1>t, <2>1, <2>2, <2>4 DEF Utters, Grown
  <2> QED
    BY <1>3, <1>s, <1>t, <2>2, <2>3, <2>4, <2>5
<1>4. ASSUME cli.msg # NoMsg, Writes(Checkpoint),
             UNCHANGED cli \/ cli' = [cli EXCEPT !.msg = NoMsg, !.text = <<>>]
      PROVE  ClaudeInv'
  <2>1. /\ Checkpoint \in Lines /\ Checkpoint.kind = "assistant" /\ Checkpoint.id = cli.msg
        /\ Checkpoint.text = cli.text /\ (drain => ~Checkpoint.live)
    <3>1. <<>> \in Seq(Pieces)
      OBVIOUS
    <3> QED
      BY <3>1, CliCheckpoint
  <2>2. CASE UNCHANGED cli
    <3>1. Utters(Talk, Checkpoint, Talk')
      BY <1>4, <1>t, <2>1, <2>2 DEF Utters, Grown
    <3> QED
      BY <1>4, <1>s, <1>t, <2>1, <2>2, <3>1
  <2>3. CASE cli' = [cli EXCEPT !.msg = NoMsg, !.text = <<>>]
    <3>1. /\ cli' \in Clis /\ cli'.msg = NoMsg /\ cli'.told = cli.told /\ cli'.text = <<>>
          /\ cli'.turns = cli.turns
      BY <1>t, <2>3, CliRecord
    <3>2. Utters(Talk, Checkpoint, Talk')
      BY <1>4, <1>t, <2>1, <3>1 DEF Utters
    <3> QED
      BY <1>4, <1>s, <1>t, <2>1, <3>1, <3>2
  <2> QED
    BY <1>4, <2>2, <2>3
<1>5. ASSUME NEW k \in {"system", "thinking", "tool_use", "tool_result"},
             Writes(Line(k)), UNCHANGED cli
      PROVE  ClaudeInv'
  <2>1. Line(k) \in Lines /\ Line(k).kind = k /\ (drain => ~Line(k).live)
    BY CliLines DEF LineKinds
  <2>2. Utters(Talk, Line(k), Talk')
    BY <1>5, <1>t, <2>1 DEF Utters, Talk
  <2> QED
    BY <1>5, <1>s, <1>t, <2>1, <2>2
<1>6. ASSUME NEW b \in BOOLEAN, UNCHANGED cli, Writes([Line("request") EXCEPT !.edit = b])
      PROVE  ClaudeInv'
  <2> DEFINE l == [Line("request") EXCEPT !.edit = b]
  <2>1. l \in Lines /\ l.kind = "request" /\ (drain => ~l.live)
    <3>1. "request" \in LineKinds
      BY DEF LineKinds
    <3> QED
      BY <3>1, CliLines, LineFields
  <2> HIDE DEF l
  <2>2. Utters(Talk, l, Talk')
    BY <1>6, <2>1 DEF Utters, Talk
  <2> QED
    BY <1>6, <1>s, <1>t, <2>1, <2>2 DEF l
<1>7. ASSUME Writes(Line("result")),
             cli' = [cli EXCEPT !.msg = NoMsg, !.text = <<>>, !.replays = FALSE,
                                !.turns = IF @ > 0 THEN @ - 1 ELSE 0]
      PROVE  ClaudeInv'
  <2>1. Line("result") \in Lines /\ Line("result").kind = "result" /\ (drain => ~Line("result").live)
    BY CliLines DEF LineKinds
  <2>2. /\ cli' \in Clis /\ cli'.msg = NoMsg /\ cli'.told = cli.told /\ cli'.text = <<>>
        /\ cli'.turns = IF cli.turns > 0 THEN cli.turns - 1 ELSE 0
    BY <1>7, <1>t, CliRecord
  <2>3. Utters(Talk, Line("result"), Talk')
    BY <1>t, <2>1, <2>2 DEF Utters
  <2>4. drain => cli'.turns = 0
    BY <1>t, <2>2
  <2> QED
    BY <1>7, <1>s, <2>1, <2>2, <2>3, <2>4
<1>8. \/ \E m \in MsgIDs \ cli.told : /\ cli.msg = NoMsg
                                      /\ cli' = [cli EXCEPT !.msg = m, !.told = @ \cup {m}]
                                      /\ Writes([Line("start") EXCEPT !.id = m])
      \/ \E more \in SeqOf(Tokens, 2), u \in Tokens :
            /\ cli.msg # NoMsg /\ cli' = [cli EXCEPT !.text = @ \o more]
            /\ Writes([Line("delta") EXCEPT !.tok = u])
      \/ \E t \in Tokens : /\ cli.msg # NoMsg
                           /\ cli' = [cli EXCEPT !.text = Append(@, t)]
                           /\ Writes([Checkpoint EXCEPT !.text = Append(@, t)])
      \/ /\ cli.msg # NoMsg /\ Writes(Checkpoint)
         /\ UNCHANGED cli \/ cli' = [cli EXCEPT !.msg = NoMsg, !.text = <<>>]
      \/ \E k \in {"system", "thinking", "tool_use", "tool_result"} :
            Writes(Line(k)) /\ UNCHANGED cli
      \/ \E b \in BOOLEAN : UNCHANGED cli /\ Writes([Line("request") EXCEPT !.edit = b])
      \/ /\ Writes(Line("result"))
         /\ cli' = [cli EXCEPT !.msg = NoMsg, !.text = <<>>, !.replays = FALSE,
                               !.turns = IF @ > 0 THEN @ - 1 ELSE 0]
  BY ZenonT(60) DEF CliWrites
<1> QED
  BY <1>1, <1>2, <1>3, <1>4, <1>5, <1>6, <1>7, <1>8, Zenon
-----------------------------------------------------------------------------
(* A step that touches none of the variables the invariant speaks of.      *)
LEMMA ClaudeStill ==
    ASSUME ClaudeInv,
           UNCHANGED <<cli, pipe, out, drain, stream, active, shown, claimed, ahead, swallowed, stdin>>
    PROVE  ClaudeInv'
<1>1. cli' \in Clis /\ Talk' = Talk /\ drain' \in BOOLEAN
  BY DEF ClaudeInv, ClaudeTypes, Talk
<1>2. drain' => drain /\ stdin' # "sending" /\ cli'.turns = 0
  BY DEF ClaudeInv, Drains
<1> QED
  BY <1>1, <1>2, ClaudeAside

(* The reader takes a line or finds the end of the pipe.                   *)
LEMMA ClaudeReaderKeeps ==
    ASSUME ClaudeInv, ReaderStep
    PROVE  ClaudeInv'
<1>1. CASE HandleReadLoopLine
  <2>1. /\ pipe # <<>> /\ pipe' = Tail(pipe) /\ UNCHANGED <<cli, out, stdin>>
    BY <1>1, Zenon DEF HandleReadLoopLine, endVars
  <2>2. \/ Head(pipe).kind = "system" /\ HandleSystem(Head(pipe))
        \/ Head(pipe).kind = "start" /\ HandleMessageStart(Head(pipe))
        \/ Head(pipe).kind = "delta" /\ HandleDelta(Head(pipe))
        \/ Head(pipe).kind = "assistant" /\ HandleAssistant(Head(pipe))
        \/ \/ /\ Head(pipe).kind \in {"thinking", "tool_use", "tool_result"}
              /\ HandleTool(Head(pipe))
           \/ Head(pipe).kind = "request" /\ HandleControlRequest(Head(pipe))
        \/ Head(pipe).kind = "result" /\ HandleResult(Head(pipe))
    BY <1>1, Zenon DEF HandleReadLoopLine
  <2> QED
    BY <2>1, <2>2, ClaudeSystem, ClaudeStart, ClaudeDelta, ClaudeAssistant,
       ClaudeToolOrRequest, ClaudeResult, Zenon
<1>2. CASE Answer
  <2>1. /\ stdin' \in {stdin, "answering"}
        /\ UNCHANGED <<cli, pipe, out, drain, stream, active, shown, claimed, ahead, swallowed>>
    BY <1>2, Zenon DEF Answer
  <2>2. cli' \in Clis /\ Talk' = Talk /\ drain' \in BOOLEAN
    BY <2>1 DEF ClaudeInv, ClaudeTypes, Talk
  <2>3. drain' => drain /\ stdin' # "sending" /\ cli'.turns = 0
    BY <2>1 DEF ClaudeInv, Drains
  <2> QED
    BY <2>1, <2>2, <2>3, ClaudeAside
<1>3. CASE \/ SendEvent \/ HandleReadLoopScanErr \/ SendScanErr \/ FinishReadLoop
           \/ CloseChannels
  <2>1. UNCHANGED <<cli, pipe, out, drain, stream, active, shown, claimed, ahead, swallowed, stdin>>
    BY <1>3, Zenon DEF SendEvent, HandleReadLoopScanErr, SendScanErr, FinishReadLoop,
       CloseChannels, endVars
  <2> QED
    BY <2>1, ClaudeStill
<1> QED
  BY <1>1, <1>2, <1>3 DEF ReaderStep

(* The goroutine that waits for the process, closing the pipe under the    *)
(* reader if a child holds it.                                             *)
LEMMA ClaudeWaitKeeps ==
    ASSUME ClaudeInv, WaitStep
    PROVE  ClaudeInv'
<1>1. CASE WaitReturns \/ CancelledCloses
  <2>1. /\ out' = FALSE /\ \E n \in 0..Len(pipe) : pipe' = SubSeq(pipe, 1, n)
        /\ UNCHANGED <<cli, drain, stdin, stream, active, shown, claimed, ahead, swallowed>>
    BY <1>1, Zenon DEF WaitReturns, CancelledCloses, reading, endVars
  <2> QED
    BY <2>1, ClaudeCut
<1>2. CASE WaitDone
  <2>1. UNCHANGED <<cli, pipe, out, drain, stream, active, shown, claimed, ahead, swallowed, stdin>>
    BY <1>2, Zenon DEF WaitDone, reading
  <2> QED
    BY <2>1, ClaudeStill
<1> QED
  BY <1>1, <1>2 DEF WaitStep

(* A message is sent only after the drain ended, and nothing starts the    *)
(* drain again.                                                            *)
LEMMA ClaudeStepKeeps ==
    ASSUME ClaudeInv, [ClaudeNext]_claudeVars
    PROVE  ClaudeInv'
<1>t. /\ cli \in Clis /\ drain \in BOOLEAN
      /\ drain => stdin # "sending" /\ cli.turns = 0
  BY DEF ClaudeInv, ClaudeTypes, Drains
<1>1. CASE DrainTimeout
  <2>1. /\ drain' = FALSE
        /\ UNCHANGED <<cli, pipe, out, stream, active, shown, claimed, ahead, swallowed>>
    BY <1>1, Zenon DEF DrainTimeout
  <2>2. Talk' = Talk
    BY <2>1 DEF Talk
  <2> QED
    BY <1>t, <2>1, <2>2, ClaudeAside
<1>2. CASE Send
  <2>1. /\ ~drain
        /\ UNCHANGED <<cli, pipe, out, drain, stream, active, shown, claimed, ahead, swallowed>>
    BY <1>2, Zenon DEF Send, DrainHistoryEvents, reading
  <2>2. Talk' = Talk
    BY <2>1 DEF Talk
  <2> QED
    BY <1>t, <2>1, <2>2, ClaudeAside
<1>3. CASE CloseStep
  <2>1. /\ stdin' = stdin \/ stdin' = "closed"
        /\ UNCHANGED <<cli, pipe, out, drain, stream, active, shown, claimed, ahead, swallowed>>
    BY <1>3, Zenon DEF CloseStep, Close, reading
  <2>2. Talk' = Talk
    BY <2>1 DEF Talk
  <2> QED
    BY <1>t, <2>1, <2>2, ClaudeAside
<1>4. CASE (\E m \in Modes : SetLiveMode(m)) \/ Consume \/ ConsumerLeaves
  <2>1. UNCHANGED <<cli, pipe, out, drain, stream, active, shown, claimed, ahead, swallowed, stdin>>
    BY <1>4, Zenon DEF SetLiveMode, Consume, ConsumerLeaves, reading, endVars
  <2> QED
    BY <2>1, ClaudeStill
<1>5. CASE CliReadsStdin
  <2>1. /\ stdin' = "open"
        /\ cli' = IF stdin = "sending" THEN [cli EXCEPT !.turns = @ + 1] ELSE cli
        /\ UNCHANGED <<pipe, out, drain, stream, active, shown, claimed, ahead, swallowed>>
    BY <1>5, Zenon DEF CliReadsStdin, WriteReturns
  <2>2. CASE stdin # "sending"
    <3>1. cli' = cli
      BY <2>1, <2>2
    <3>2. Talk' = Talk
      BY <3>1 DEF Talk
    <3> QED
      BY <1>t, <2>1, <3>1, <3>2, ClaudeAside
  <2>3. CASE stdin = "sending"
    <3>1. \A k \in Nat : LET d == [cli EXCEPT !.turns = k] IN
             d \in Clis /\ d.msg = cli.msg /\ d.told = cli.told /\ d.text = cli.text
      BY <1>t DEF Clis
    <3>2. cli.turns + 1 \in Nat
      BY <1>t DEF Clis
    <3>3. cli' \in Clis /\ cli'.msg = cli.msg /\ cli'.told = cli.told /\ cli'.text = cli.text
      BY <2>1, <2>3, <3>1, <3>2
    <3>4. Talk' = Talk
      BY <3>3 DEF Talk
    <3> QED
      BY <1>t, <2>1, <2>3, <3>3, <3>4, ClaudeAside
  <2> QED
    BY <2>2, <2>3
<1>6. CASE WriteFails
  <2>1. /\ stdin' = "open"
        /\ UNCHANGED <<cli, pipe, out, drain, stream, active, shown, claimed, ahead, swallowed>>
    BY <1>6, Zenon DEF WriteFails, WriteReturns
  <2>2. Talk' = Talk
    BY <2>1 DEF Talk
  <2> QED
    BY <1>t, <2>1, <2>2, ClaudeAside
<1>7. CASE CliExits
  <2>1. /\ cli' = [cli EXCEPT !.runs = FALSE]
        /\ UNCHANGED <<pipe, out, drain, stream, active, shown, claimed, ahead, swallowed, stdin>>
    BY <1>7, Zenon DEF CliExits, reading, endVars
  <2>2. /\ cli' \in Clis /\ cli'.msg = cli.msg /\ cli'.told = cli.told /\ cli'.text = cli.text
        /\ cli'.turns = cli.turns
    BY <1>t, <2>1 DEF Clis
  <2>3. Talk' = Talk
    BY <2>2 DEF Talk
  <2> QED
    BY <1>t, <2>1, <2>2, <2>3, ClaudeAside
<1>8. CASE UNCHANGED claudeVars
  <2>1. UNCHANGED <<cli, pipe, out, drain, stream, active, shown, claimed, ahead, swallowed, stdin>>
    BY <1>8, Zenon DEF claudeVars, reading, endVars
  <2> QED
    BY <2>1, ClaudeStill
<1>9. CASE RespondPermission
  <2>1. /\ stdin' = "replying"
        /\ UNCHANGED <<cli, pipe, out, drain, stream, active, shown, claimed, ahead, swallowed>>
    BY <1>9, Zenon DEF RespondPermission, reading
  <2>2. Talk' = Talk
    BY <2>1 DEF Talk
  <2> QED
    BY <1>t, <2>1, <2>2, ClaudeAside
<1> QED
  BY <1>1, <1>2, <1>3, <1>4, <1>5, <1>6, <1>7, <1>8, <1>9, ClaudeReaderKeeps, ClaudeWaitKeeps,
     CliWritesKeeps, Zenon DEF ClaudeNext, ClaudeSteps

(* A session starts with nothing said.                                     *)
LEMMA ClaudeStarts ==
    ASSUME ClaudeInit
    PROVE  ClaudeInv
<1>1. PICK resumed \in BOOLEAN :
          /\ drain = resumed
          /\ cli = [runs |-> TRUE, replays |-> resumed, msg |-> NoMsg, told |-> {},
                    text |-> <<>>, turns |-> 0]
  BY Zenon DEF ClaudeInit
<1>2. /\ pipe = <<>> /\ out = TRUE /\ stream = NoStream /\ active = NoStream
      /\ stdin = "open" /\ shown = <<>> /\ claimed = {} /\ ahead = FALSE /\ swallowed = FALSE
  BY Zenon DEF ClaudeInit
<1>3. cli \in Clis /\ cli.msg = NoMsg /\ cli.text = <<>> /\ cli.turns = 0
  BY <1>1 DEF Clis, Ids
<1>4. ClaudeTypes /\ Drains /\ StreamedTextExact
  <2>1. pipe \in Seq(Lines) /\ DOMAIN pipe = {} /\ shown \in Seq(Pieces)
    BY <1>2
  <2> QED
    BY <1>1, <1>2, <1>3, <2>1, ClaudeStreams DEF ClaudeTypes, Drains, StreamedTextExact
<1> DEFINE h == [q \in 0..0 |-> Talk]
<1>5. h \in [0..Len(pipe) -> Talks] /\ h[0] = Talk /\ Len(pipe) = 0
  <2>1. Talk \in Talks
    BY <1>3 DEF Talk, Talks, Clis
  <2> QED
    BY <1>2, <2>1
<1>6. Follows(h[0])
  BY <1>2, ClaudeStreams DEF Follows
<1> HIDE DEF h
<1>7. Leads(h)
  BY <1>5, <1>6 DEF Leads
<1> QED
  BY <1>4, <1>5, <1>7 DEF ClaudeInv

(* The invariant of the Claude session holds throughout.                   *)
LEMMA ClaudeInvariant == ClaudeSpec => []ClaudeInv
BY ClaudeStarts, ClaudeStepKeeps, PTL DEF ClaudeSpec

(* A reader that saw a message from its start shows, after each checkpoint *)
(* of it, exactly the text of the checkpoint, for any number of messages,  *)
(* tokens and lines in the pipe and any deltas: once the stream differs    *)
(* from what was said at a place both have, it keeps differing there, and  *)
(* every checkpoint replaces it.  Excepted is a checkpoint that agrees     *)
(* with a stream which had all of an earlier one and more.                 *)
THEOREM ClaudeStreamedTextExact == ClaudeSpec => []StreamedTextExact
<1>1. ClaudeInv => StreamedTextExact
  BY DEF ClaudeInv
<1> QED
  BY <1>1, ClaudeInvariant, PTL

(* The end of the replayed history is never the result of a message the    *)
(* bridge sent: while the drain lasts nothing has been written to stdin.   *)
THEOREM ClaudeResultNotSwallowed == ClaudeSpec => []ResultNotSwallowed
<1>1. ClaudeInv => ResultNotSwallowed
  BY DEF ClaudeInv, Drains, ResultNotSwallowed
<1> QED
  BY <1>1, ClaudeInvariant, PTL
-----------------------------------------------------------------------------
(* The sessions with one CLI process per message (CliSession).             *)
Classes == {"text", "thinking"}

(* The events, the texts, the instructions of a line and the states of a   *)
(* process.                                                                *)
Events == Classes \cup {"tool_use", "tool_result", "usage", "result", "error", "none"}
Texts == Prompts \X Nat
Instrs == {i \in [op : {"send", "flush", "clear"}, event : Events, text : Texts \cup {<<>>}] :
              i.text # <<>> \/ i.op = "flush" => i.event \in Classes}
Entries == [text : Texts, as : Classes]
Stages == {"none", "new", "thread", "turn", "completed", "failed"}
Procs == [up : BOOLEAN, child : BOOLEAN, stage : Stages, stderr : BOOLEAN]

(* A list of instructions td, the texts sd that were said and tl that were *)
(* told, and the texts held.                                               *)
Plain(i) == i.op = "send" /\ i.text = <<>>

(* Only plain instructions are left.                                       *)
AllPlain(td) == \A i \in DOMAIN td : Plain(td[i])

(* The texts held, in a class.                                             *)
Held(held, as) == [i \in 1..Len(held) |-> [text |-> held[i], as |-> as]]

(* The texts of the first k instructions.                                  *)
Ahead(td, k) == [i \in 1..k |-> [text |-> td[i].text, as |-> td[i].event]]

(* What was said is what was told and the texts held.                      *)
Untold(td, sd, tl, held) == AllPlain(td) /\ sd = tl \o Held(held, "text")

(* The flush is still to come, at f.                                       *)
Unflushed(td, sd, tl, held, as) ==
    /\ sd = tl \o Held(held, as)
    /\ \E f \in DOMAIN td :
          /\ td[f] = Flush(as)
          /\ \A i \in DOMAIN td : i # f => Plain(td[i])

(* The flush is under way: k texts of it are still to be told.             *)
Flushing(td, sd, tl, as) ==
    \E k \in 0..(Len(td) - 1) :
        /\ sd = tl \o Ahead(td, k)
        /\ \A i \in 1..k : td[i].op = "send" /\ td[i].event = as /\ td[i].text # <<>>
        /\ td[k + 1] = Clear
        /\ \A i \in (k + 2)..Len(td) : Plain(td[i])

(* What is still to be told of a codex turn: before the turn nothing was   *)
(* said; in it, all that was told is thinking and the rest is held, about  *)
(* to be flushed or being flushed; after it, the held texts are the        *)
(* answer.                                                                 *)
CodexOwes(td, sd, tl, held, stage, lp, al) ==
    /\ stage \in {"none", "new", "thread"} => sd = <<>> /\ tl = <<>> /\ AllPlain(td)
    /\ stage = "turn" /\ lp = "reading" /\ al =>
          /\ \A i \in DOMAIN tl : tl[i].as = "thinking"
          /\ \/ Untold(td, sd, tl, held)
             \/ Unflushed(td, sd, tl, held, "thinking")
             \/ Flushing(td, sd, tl, "thinking")
    /\ stage = "completed" /\ al =>
          \/ AllPlain(td) /\ sd = tl
          \/ lp = "reading" /\ Unflushed(td, sd, tl, held, "text")
          \/ lp = "reading" /\ Flushing(td, sd, tl, "text")

(* OpenCode passes on one text at a time.                                  *)
OpenCodeOwes(td, sd, tl) ==
    \/ AllPlain(td) /\ sd = tl
    \/ \E x \in Texts, as \in Classes :
          td = <<PutText(as, x)>> /\ sd = Append(tl, [text |-> x, as |-> as])

(* What each message still owes of its texts, unless Close cancelled the   *)
(* context.                                                                *)
TextsOwed ==
    ~cancelled =>
        \A p \in Prompts :
            /\ kind = "codex" =>
                  CodexOwes(todo[p], said[p], told[p], pendingMsgs, proc[p].stage, loop[p], alone[p])
            /\ kind = "opencode" => OpenCodeOwes(todo[p], said[p], told[p])

(* The end of a run is told, or about to be.                               *)
HasTerminal(td) == \E i \in DOMAIN td : td[i].op = "send" /\ td[i].event \in Terminal

(* A run whose end was read or seen has told it or is about to.            *)
EndsReported ==
    ~cancelled =>
        \A p \in Prompts :
            \/ reported[p] \/ HasTerminal(todo[p])
            \/ kind = "codex" /\ proc[p].stage \notin {"completed", "failed"}
            \/ kind = "opencode" /\ loop[p] \notin {"waiting", "done"}

(* A goroutine works on the instructions of its own message, after Send    *)
(* registered it; one that was alone so far is the only one.               *)
Order ==
    /\ \A p \in Prompts : todo[p] # <<>> => p \in Active
    /\ \A p \in Prompts : loop[p] # "none" => sending[p] = "ended"
    /\ \A p \in Prompts : sending[p] # "ended" => proc[p].stage \in {"none", "new"}
    /\ \A p, q \in Active : alone[p] => q = p

(* The types of what the proof speaks of.                                  *)
CliTypes ==
    /\ kind \in {"codex", "opencode"} /\ cancelled \in BOOLEAN
    /\ sending \in [Prompts -> {"idle", "checked", "started", "ended"}]
    /\ proc \in [Prompts -> Procs]
    /\ loop \in [Prompts -> {"none", "reading", "waiting", "done"}]
    /\ todo \in [Prompts -> Seq(Instrs)]
    /\ pendingMsgs \in Seq(Texts)
    /\ said \in [Prompts -> Seq(Entries)] /\ told \in [Prompts -> Seq(Entries)]
    /\ alone \in [Prompts -> BOOLEAN] /\ reported \in [Prompts -> BOOLEAN]

(* The inductive invariant of the CLI sessions, and its parts for one      *)
(* message.                                                                *)
CliInv == CliTypes /\ Order /\ EndsReported /\ TextsOwed
CliOwes(p) ==
    /\ kind = "codex" =>
          CodexOwes(todo[p], said[p], told[p], pendingMsgs, proc[p].stage, loop[p], alone[p])
    /\ kind = "opencode" => OpenCodeOwes(todo[p], said[p], told[p])

(* The end of one message is told, about to be, or not there yet.          *)
CliReports(p) ==
    \/ reported[p] \/ HasTerminal(todo[p])
    \/ kind = "codex" /\ proc[p].stage \notin {"completed", "failed"}
    \/ kind = "opencode" /\ loop[p] \notin {"waiting", "done"}
-----------------------------------------------------------------------------
(* A plain instruction carries no text, and each kind of instruction is    *)
(* told apart by its op.                                                   *)
LEMMA CliInstrs ==
    /\ \A e \in Events : Put(e) \in Instrs /\ Plain(Put(e))
    /\ \A as \in Classes : /\ Flush(as) \in Instrs /\ ~Plain(Flush(as))
                           /\ \A x \in Texts : PutText(as, x) \in Instrs /\ x # <<>>
    /\ Clear \in Instrs
    /\ \A e : Put(e).op = "send" /\ Put(e).event = e /\ Put(e).text = <<>>
    /\ \A e : Flush(e).op = "flush" /\ Flush(e).event = e
    /\ \A as, x : PutText(as, x).op = "send" /\ PutText(as, x).event = as /\ PutText(as, x).text = x
    /\ Clear.op = "clear"
<1>1. \A x \in Texts : x # <<>>
  BY DEF Texts
<1> QED
  BY <1>1 DEF Instrs, Put, PutText, Flush, Clear, Plain, Events, Classes

(* The first element of a list and the rest.                               *)
LEMMA CliHead ==
    ASSUME NEW S, NEW s \in Seq(S), s # <<>>
    PROVE  /\ Head(s) \in S /\ Head(s) = s[1] /\ 1 \in DOMAIN s /\ Tail(s) \in Seq(S)
           /\ Len(s) \in Nat /\ Len(s) >= 1 /\ Len(Tail(s)) = Len(s) - 1
           /\ DOMAIN s = 1..Len(s) /\ DOMAIN Tail(s) = 1..(Len(s) - 1)
           /\ \A i \in 1..(Len(s) - 1) : Tail(s)[i] = s[i + 1]
OBVIOUS

(* Two lists joined.                                                       *)
LEMMA CliJoin ==
    ASSUME NEW S, NEW s \in Seq(S), NEW u \in Seq(S)
    PROVE  /\ s \o u \in Seq(S) /\ Len(s \o u) = Len(s) + Len(u)
           /\ \A i \in 1..Len(s) : (s \o u)[i] = s[i]
           /\ \A i \in 1..Len(u) : (s \o u)[Len(s) + i] = u[i]
OBVIOUS

(* A function on 1..n is a list.                                           *)
LEMMA CliSequence ==
    ASSUME NEW S, NEW n \in Nat, NEW f \in [1..n -> S]
    PROVE  f \in Seq(S) /\ Len(f) = n
OBVIOUS

(* One entry and a list of one.                                            *)
LEMMA CliPair ==
    \A x, y : <<x>> \o <<y>> = <<x, y>> /\ <<x>> \o <<>> = <<x>>
<1> TAKE x, y
<1> DEFINE S == {x, y}
<1>1. <<x>> \in Seq(S) /\ <<y>> \in Seq(S) /\ <<x, y>> \in Seq(S)
  OBVIOUS
<1>2. <<x>> \o <<>> = <<x>>
  BY <1>1, ConcatEmptySeq
<1>3. <<x>> \o <<y>> = Append(<<x>>, y)
  BY <1>1, AppendIsConcat
<1>4. Append(<<x>>, y) = <<x, y>>
  <2> DEFINE a == Append(<<x>>, y)
             b == <<x, y>>
  <2>1. a \in Seq(S) /\ Len(a) = 2 /\ a[1] = x /\ a[2] = y
    BY <1>1
  <2>2. b \in Seq(S) /\ Len(b) = 2 /\ b[1] = x /\ b[2] = y
    BY <1>1
  <2> HIDE DEF a, b
  <2>3. a = b
    BY <2>1, <2>2, SeqEqual
  <2> QED
    BY <2>3 DEF a, b
<1> QED
  BY <1>2, <1>3, <1>4

(* Appending to a joined list appends to its second part.                  *)
LEMMA CliAppendLast ==
    ASSUME NEW S, NEW s \in Seq(S), NEW u \in Seq(S), NEW x \in S
    PROVE  Append(s \o u, x) = s \o Append(u, x)
<1>1. <<x>> \in Seq(S)
  OBVIOUS
<1>2. s \o u \in Seq(S)
  BY CliJoin
<1>3. Append(s \o u, x) = (s \o u) \o <<x>>
  BY <1>2, AppendIsConcat
<1>4. Append(u, x) = u \o <<x>>
  BY AppendIsConcat
<1> QED
  BY <1>1, <1>3, <1>4, ConcatAssociative

(* A send for which there was room: what it told is part of what is told,  *)
(* and the rest is still owed.                                             *)
Telling(td, tl) ==
    IF Head(td).text = <<>> THEN tl
    ELSE Append(tl, [text |-> Head(td).text, as |-> Head(td).event])

(* After a send, what is owed is owed of what is left to do.               *)
LEMMA CliSendOwes ==
    ASSUME NEW td \in Seq(Instrs), NEW sd \in Seq(Entries), NEW tl \in Seq(Entries),
           NEW held \in Seq(Texts), NEW as \in Classes,
           td # <<>>, Head(td).op = "send"
    PROVE  /\ AllPlain(td) => AllPlain(Tail(td)) /\ Telling(td, tl) = tl
           /\ Unflushed(td, sd, tl, held, as) =>
                 Unflushed(Tail(td), sd, Telling(td, tl), held, as) /\ Telling(td, tl) = tl
           /\ Flushing(td, sd, tl, as) =>
                 /\ Flushing(Tail(td), sd, Telling(td, tl), as)
                 /\ Head(td).text # <<>> /\ Head(td).event = as
<1> DEFINE tl2 == Telling(td, tl)
<1>t. tl2 = IF Head(td).text = <<>> THEN tl
            ELSE Append(tl, [text |-> Head(td).text, as |-> Head(td).event])
  BY DEF Telling
<1> HIDE DEF tl2
<1>h. /\ Head(td) \in Instrs /\ Head(td) = td[1] /\ 1 \in DOMAIN td /\ Tail(td) \in Seq(Instrs)
      /\ Len(td) \in Nat /\ Len(td) >= 1 /\ Len(Tail(td)) = Len(td) - 1
      /\ DOMAIN td = 1..Len(td) /\ DOMAIN Tail(td) = 1..(Len(td) - 1)
      /\ \A i \in 1..(Len(td) - 1) : Tail(td)[i] = td[i + 1]
  BY CliHead
<1>1. ASSUME AllPlain(td) PROVE AllPlain(Tail(td)) /\ tl2 = tl
  BY <1>1, <1>h, <1>t DEF AllPlain, Plain
<1>2. ASSUME Unflushed(td, sd, tl, held, as)
      PROVE  Unflushed(Tail(td), sd, tl2, held, as) /\ tl2 = tl
  <2>1. PICK f \in DOMAIN td : /\ td[f] = Flush(as)
                               /\ \A i \in DOMAIN td : i # f => Plain(td[i])
    BY <1>2, Zenon DEF Unflushed
  <2>a. td[f].op = "flush" /\ td[1].op = "send"
    BY <1>h, <2>1, CliInstrs, Zenon
  <2>b. f # 1 /\ f \in 1..Len(td)
    BY <1>h, <2>a
  <2>2. f \in Nat /\ f > 1 /\ f - 1 \in 1..(Len(td) - 1) /\ (f - 1) + 1 = f
    BY <1>h, <2>b
  <2>3. Plain(td[1]) /\ tl2 = tl
    BY <1>h, <1>t, <2>1, <2>2 DEF Plain
  <2>4. Tail(td)[f - 1] = Flush(as)
    <3>1. Tail(td)[f - 1] = td[(f - 1) + 1]
      BY <1>h, <2>2, Zenon
    <3> QED
      BY <2>1, <2>2, <3>1
  <2>5. \A i \in DOMAIN Tail(td) : i # f - 1 => Plain(Tail(td)[i])
    <3> TAKE i \in DOMAIN Tail(td)
    <3>1. i + 1 \in DOMAIN td /\ Tail(td)[i] = td[i + 1] /\ i \in Nat
      BY <1>h
    <3> QED
      BY <2>1, <2>2, <3>1
  <2>6. f - 1 \in DOMAIN Tail(td) /\ sd = tl2 \o Held(held, as)
    BY <1>2, <1>h, <2>2, <2>3 DEF Unflushed
  <2> QED
    BY <2>3, <2>4, <2>5, <2>6, Zenon DEF Unflushed
<1>3. ASSUME Flushing(td, sd, tl, as)
      PROVE  /\ Flushing(Tail(td), sd, tl2, as)
             /\ Head(td).text # <<>> /\ Head(td).event = as
  <2>1. PICK k \in 0..(Len(td) - 1) :
            /\ sd = tl \o Ahead(td, k)
            /\ \A i \in 1..k : td[i].op = "send" /\ td[i].event = as /\ td[i].text # <<>>
            /\ td[k + 1] = Clear
            /\ \A i \in (k + 2)..Len(td) : Plain(td[i])
    BY <1>3, Zenon DEF Flushing
  <2>2. k \in Nat /\ k >= 1 /\ k - 1 \in 0..(Len(td) - 2) /\ k <= Len(td) - 1
    BY <1>h, <2>1, CliInstrs
  <2>3. Head(td).text # <<>> /\ Head(td).event = as
    <3>1. 1 \in 1..k
      BY <2>2
    <3>2. td[1].text # <<>> /\ td[1].event = as
      BY <2>1, <3>1, Zenon
    <3> QED
      BY <1>h, <3>2
  <2>4. /\ tl2 = Append(tl, [text |-> Head(td).text, as |-> as])
        /\ [text |-> Head(td).text, as |-> as] \in Entries
    <3>1. Head(td).text \in Texts
      BY <1>h, <2>3 DEF Instrs
    <3> QED
      BY <1>t, <2>3, <3>1 DEF Entries
  <2>5. \A i \in 1..(k - 1) : i + 1 \in 1..k /\ Tail(td)[i] = td[i + 1]
    BY <1>h, <2>2
  <2>6. Tail(td)[(k - 1) + 1] = Clear
    <3>1. k \in 1..(Len(td) - 1) /\ (k - 1) + 1 = k
      BY <1>h, <2>2
    <3>2. Tail(td)[k] = td[k + 1]
      BY <1>h, <3>1, Zenon
    <3> QED
      BY <2>1, <3>1, <3>2
  <2>7. \A i \in ((k - 1) + 2)..Len(Tail(td)) : Plain(Tail(td)[i])
    <3> TAKE i \in ((k - 1) + 2)..Len(Tail(td))
    <3>1. i + 1 \in (k + 2)..Len(td) /\ Tail(td)[i] = td[i + 1]
      BY <1>h, <2>2
    <3> QED
      BY <2>1, <3>1
  <2>8. sd = tl2 \o Ahead(Tail(td), k - 1)
    <3> DEFINE e == [text |-> Head(td).text, as |-> as]
               a == Ahead(td, k)
               b == Ahead(Tail(td), k - 1)
    <3>1. /\ a \in Seq(Entries) /\ Len(a) = k /\ \A i \in 1..k : a[i] = [text |-> td[i].text, as |-> td[i].event]
      <4>1. \A i \in 1..k : [text |-> td[i].text, as |-> td[i].event] \in Entries
        <5> TAKE i \in 1..k
        <5>0. i \in 1..Len(td)
          BY <1>h, <2>2
        <5>1. td[i] \in Instrs
          BY <5>0
        <5>3. td[i].text # <<>> /\ td[i].event = as
          BY <2>1, Zenon
        <5>2. td[i].text \in Texts
          BY <5>1, <5>3 DEF Instrs
        <5> QED
          BY <5>2, <5>3 DEF Entries
      <4> QED
        BY <2>2, <4>1 DEF Ahead
    <3>2. /\ b \in Seq(Entries) /\ Len(b) = k - 1
          /\ \A i \in 1..(k - 1) : b[i] = a[i + 1]
      <4>1. \A i \in 1..(k - 1) : [text |-> Tail(td)[i].text, as |-> Tail(td)[i].event] = a[i + 1]
        BY <2>2, <2>5, <3>1
      <4>2. \A i \in 1..(k - 1) : a[i + 1] \in Entries
        BY <2>2, <3>1
      <4>3. k - 1 \in Nat
        BY <2>2
      <4>4. b = [i \in 1..(k - 1) |-> a[i + 1]]
        BY <4>1, Zenon DEF Ahead
      <4> HIDE DEF a, b
      <4> QED
        BY <4>2, <4>3, <4>4
    <3>3. a[1] = e /\ e \in Entries
      <4>1. a[1] = [text |-> td[1].text, as |-> td[1].event]
        BY <2>2, <3>1
      <4>2. 1 \in 1..k
        BY <2>2
      <4>3. td[1].event = as
        BY <2>1, <4>2
      <4> QED
        BY <1>h, <2>4, <4>1, <4>3
    <3> HIDE DEF a, b, e
    <3>4. tl \o a = Append(tl, e) \o b
      <4>1. tl \o a \in Seq(Entries) /\ Append(tl, e) \o b \in Seq(Entries)
        BY <3>1, <3>2, <3>3
      <4>2. Len(tl \o a) = Len(Append(tl, e) \o b) /\ Len(tl \o a) = Len(tl) + k
        <5>1. Len(tl \o a) = Len(tl) + Len(a)
          BY <3>1, ConcatProperties, Zenon
        <5>2. Append(tl, e) \in Seq(Entries) /\ Len(Append(tl, e)) = Len(tl) + 1
          BY <3>3
        <5>3. Len(Append(tl, e) \o b) = Len(Append(tl, e)) + Len(b)
          BY <5>2, <3>2, ConcatProperties, Zenon
        <5>4. Len(tl) \in Nat
          OBVIOUS
        <5> QED
          BY <2>2, <3>1, <3>2, <5>1, <5>2, <5>3, <5>4
      <4>3. \A i \in 1..(Len(tl) + k) : (tl \o a)[i] = (Append(tl, e) \o b)[i]
        <5> TAKE i \in 1..(Len(tl) + k)
        <5>0. Len(tl) \in Nat /\ i \in Nat /\ k \in Nat
          BY <2>2
        <5> DEFINE c == Append(tl, e)
        <5>1. c \in Seq(Entries) /\ Len(c) = Len(tl) + 1 /\ c[Len(tl) + 1] = e
              /\ \A j \in 1..Len(tl) : c[j] = tl[j]
          BY <3>3
        <5> HIDE DEF c
        <5>2. CASE i <= Len(tl)
          BY <5>0, <5>1, <5>2, <3>1, <3>2
        <5>3. CASE i = Len(tl) + 1
          BY <5>0, <5>1, <5>3, <2>2, <3>1, <3>2, <3>3
        <5>4. CASE i > Len(tl) + 1
          <6>1. (tl \o a)[i] = a[i - Len(tl)]
            BY <5>0, <5>4, <3>1
          <6>5. i \in (Len(c) + 1)..(Len(c) + Len(b)) /\ Len(b) \in Nat
            BY <2>2, <5>0, <5>1, <5>4, <3>2
          <6>6. (c \o b)[i] = b[i - Len(c)]
            <7>1. /\ Len(c \o b) = Len(c) + Len(b)
                  /\ \A j \in 1..(Len(c) + Len(b)) :
                        (c \o b)[j] = IF j <= Len(c) THEN c[j] ELSE b[j - Len(c)]
              BY <5>1, <3>2, ConcatProperties, Zenon
            <7>2. i \in 1..(Len(c) + Len(b)) /\ ~(i <= Len(c))
              BY <5>0, <5>1, <6>5
            <7> QED
              BY <7>1, <7>2
          <6>2. (c \o b)[i] = b[i - (Len(tl) + 1)]
            BY <5>1, <6>6
          <6>3. i - (Len(tl) + 1) \in 1..(k - 1) /\ (i - (Len(tl) + 1)) + 1 = i - Len(tl)
            BY <5>0, <5>4
          <6>4. b[i - (Len(tl) + 1)] = a[(i - (Len(tl) + 1)) + 1]
            BY <3>2, <6>3
          <6> QED
            BY <6>1, <6>2, <6>3, <6>4 DEF c
        <5>5. i <= Len(tl) \/ i = Len(tl) + 1 \/ i > Len(tl) + 1
          BY <5>0
        <5> QED
          BY <5>2, <5>3, <5>4, <5>5 DEF c
      <4> QED
        BY <4>1, <4>2, <4>3, SeqEqual
    <3> QED
      BY <2>1, <2>4, <3>4 DEF a, b, e
  <2>9. k - 1 \in 0..(Len(Tail(td)) - 1)
    BY <1>h, <2>2
  <2>10. \A i \in 1..(k - 1) : /\ Tail(td)[i].op = "send" /\ Tail(td)[i].event = as
                               /\ Tail(td)[i].text # <<>>
    BY <2>1, <2>5
  <2> QED
    BY <2>3, <2>6, <2>7, <2>8, <2>9, <2>10, Zenon DEF Flushing
<1> QED
  BY <1>1, <1>2, <1>3, Zenon DEF tl2

(* The flush begins: the held texts become sends.                          *)
Spread(td, held) ==
    [i \in DOMAIN held |-> PutText(Head(td).event, held[i])] \o <<Clear>> \o Tail(td)

(* A list that was to be flushed is being flushed.                         *)
LEMMA CliFlushOwes ==
    ASSUME NEW td \in Seq(Instrs), NEW sd \in Seq(Entries), NEW tl \in Seq(Entries),
           NEW held \in Seq(Texts), NEW as \in Classes,
           td # <<>>, Head(td).op = "flush"
    PROVE  /\ Spread(td, held) \in Seq(Instrs)
           /\ ~AllPlain(td) /\ ~Flushing(td, sd, tl, as)
           /\ \A x \in Texts : td # <<PutText(as, x)>>
           /\ Unflushed(td, sd, tl, held, as) => Flushing(Spread(td, held), sd, tl, as)
           /\ HasTerminal(td) => HasTerminal(Spread(td, held))
<1> DEFINE td2 == Spread(td, held)
<1>t. td2 = [i \in DOMAIN held |-> PutText(Head(td).event, held[i])] \o <<Clear>> \o Tail(td)
  BY DEF Spread
<1> HIDE DEF td2
<1>h. /\ Head(td) \in Instrs /\ Head(td) = td[1] /\ 1 \in DOMAIN td /\ Tail(td) \in Seq(Instrs)
      /\ Len(td) \in Nat /\ Len(td) >= 1 /\ Len(Tail(td)) = Len(td) - 1
      /\ DOMAIN td = 1..Len(td) /\ DOMAIN Tail(td) = 1..(Len(td) - 1)
      /\ \A i \in 1..(Len(td) - 1) : Tail(td)[i] = td[i + 1]
  BY CliHead
<1> DEFINE n == Len(held)
           a == [i \in DOMAIN held |-> PutText(Head(td).event, held[i])]
<1>1. Head(td).event \in Classes
  BY <1>h DEF Instrs
<1>2. /\ n \in Nat /\ a \in Seq(Instrs) /\ Len(a) = n
      /\ \A i \in 1..n : a[i] = PutText(Head(td).event, held[i]) /\ held[i] \in Texts
  <2>1. \A i \in 1..n : held[i] \in Texts
    OBVIOUS
  <2>2. \A i \in 1..n : PutText(Head(td).event, held[i]) \in Instrs
    BY <1>1, <2>1, CliInstrs, Zenon
  <2>3. n \in Nat /\ a = [i \in 1..n |-> PutText(Head(td).event, held[i])]
    OBVIOUS
  <2> HIDE DEF a, n
  <2>4. a \in [1..n -> Instrs]
    BY <2>2, <2>3
  <2>5. a \in Seq(Instrs) /\ Len(a) = n
    BY <2>3, <2>4, CliSequence
  <2>6. \A i \in 1..n : a[i] = PutText(Head(td).event, held[i])
    BY <2>3, Zenon
  <2> QED
    BY <2>1, <2>3, <2>5, <2>6
<1> HIDE DEF a, n
<1>3. /\ td2 \in Seq(Instrs) /\ Len(td2) = n + Len(td)
      /\ \A i \in 1..n : td2[i] = a[i]
      /\ td2[n + 1] = Clear
      /\ \A i \in 2..Len(td) : td2[n + i] = td[i]
  <2>1. td2 = a \o <<Clear>> \o Tail(td)
    BY <1>t DEF a
  <2>2. <<Clear>> \in Seq(Instrs) /\ Len(<<Clear>>) = 1 /\ <<Clear>>[1] = Clear
    BY CliInstrs
  <2>3. a \o <<Clear>> \in Seq(Instrs) /\ Len(a \o <<Clear>>) = n + 1
        /\ (\A i \in 1..n : (a \o <<Clear>>)[i] = a[i]) /\ (a \o <<Clear>>)[n + 1] = Clear
    <3> DEFINE c == <<Clear>>
    <3>1. a \in Seq(Instrs) /\ c \in Seq(Instrs) /\ Len(a) = n /\ Len(c) = 1 /\ c[1] = Clear
      BY <1>2, <2>2
    <3> HIDE DEF c
    <3>2. /\ a \o c \in Seq(Instrs) /\ Len(a \o c) = Len(a) + Len(c)
          /\ \A i \in 1..Len(a) : (a \o c)[i] = a[i]
          /\ \A i \in 1..Len(c) : (a \o c)[Len(a) + i] = c[i]
      <4>1. a \in Seq(Instrs) /\ c \in Seq(Instrs)
        BY <3>1
      <4> QED
        BY <4>1, CliJoin
    <3>3. 1 \in 1..1
      OBVIOUS
    <3> QED
      BY <3>1, <3>2, <3>3 DEF c
  <2> DEFINE b == a \o <<Clear>>
  <2> HIDE DEF b
  <2>4. td2 = b \o Tail(td)
    BY <2>1 DEF b
  <2>5. /\ b \in Seq(Instrs) /\ Len(b) = n + 1 /\ (\A i \in 1..n : b[i] = a[i])
        /\ b[n + 1] = Clear
    BY <2>3 DEF b
  <2>6. /\ td2 \in Seq(Instrs) /\ Len(td2) = n + Len(td)
        /\ \A i \in 1..(n + 1) : td2[i] = b[i]
        /\ \A i \in 1..(Len(td) - 1) : td2[n + 1 + i] = Tail(td)[i]
    <3> DEFINE c == Tail(td)
    <3>1. c \in Seq(Instrs) /\ Len(c) = Len(td) - 1
      BY <1>h
    <3> HIDE DEF c
    <3>4. /\ b \o c \in Seq(Instrs) /\ Len(b \o c) = Len(b) + Len(c)
          /\ \A i \in 1..Len(b) : (b \o c)[i] = b[i]
          /\ \A i \in 1..Len(c) : (b \o c)[Len(b) + i] = c[i]
      <4>1. b \in Seq(Instrs) /\ c \in Seq(Instrs)
        BY <2>5, <3>1
      <4> QED
        BY <4>1, CliJoin
    <3>2. /\ b \o c \in Seq(Instrs) /\ Len(b \o c) = (n + 1) + (Len(td) - 1)
          /\ \A i \in 1..(n + 1) : (b \o c)[i] = b[i]
          /\ \A i \in 1..(Len(td) - 1) : (b \o c)[n + 1 + i] = c[i]
      BY <2>5, <3>1, <3>4, Zenon
    <3>3. (n + 1) + (Len(td) - 1) = n + Len(td)
      BY <1>h, <1>2
    <3> QED
      BY <2>4, <3>2, <3>3, Zenon DEF c
  <2>7. \A i \in 2..Len(td) : td2[n + i] = td[i]
    <3> TAKE i \in 2..Len(td)
    <3>1. i - 1 \in 1..(Len(td) - 1) /\ n + 1 + (i - 1) = n + i /\ (i - 1) + 1 = i
      BY <1>h, <1>2
    <3>2. td2[n + 1 + (i - 1)] = Tail(td)[i - 1] /\ Tail(td)[i - 1] = td[(i - 1) + 1]
      BY <1>h, <2>6, <3>1
    <3> QED
      BY <3>1, <3>2
  <2>8. (\A i \in 1..n : i \in 1..(n + 1)) /\ n + 1 \in 1..(n + 1)
    BY <1>2
  <2> QED
    BY <2>5, <2>6, <2>7, <2>8, Zenon
<1>4. ~AllPlain(td)
  BY <1>h DEF AllPlain, Plain
<1>5. ~Flushing(td, sd, tl, as)
  <2> SUFFICES ASSUME Flushing(td, sd, tl, as) PROVE FALSE
    OBVIOUS
  <2>1. PICK k \in 0..(Len(td) - 1) :
            /\ \A i \in 1..k : td[i].op = "send"
            /\ td[k + 1] = Clear
    BY Zenon DEF Flushing
  <2>2. k = 0 \/ 1 \in 1..k
    BY <1>h, <2>1
  <2>3. k = 0 => td[1] = Clear
    BY <2>1
  <2> QED
    BY <1>h, <2>1, <2>2, <2>3, CliInstrs
<1>6. \A x \in Texts : td # <<PutText(as, x)>>
  <2> SUFFICES ASSUME NEW x \in Texts, td = <<PutText(as, x)>> PROVE FALSE
    OBVIOUS
  <2>1. td[1] = PutText(as, x)
    OBVIOUS
  <2>2. td[1].op = "send"
    BY <2>1 DEF PutText
  <2> QED
    BY <1>h, <2>2
<1>7. ASSUME Unflushed(td, sd, tl, held, as) PROVE Flushing(td2, sd, tl, as)
  <2>1. PICK f \in DOMAIN td : /\ td[f] = Flush(as)
                               /\ \A i \in DOMAIN td : i # f => Plain(td[i])
    BY <1>7, Zenon DEF Unflushed
  <2>a. td[f].event = as
    BY <2>1, CliInstrs, Zenon
  <2>2. f = 1 /\ Head(td).event = as
    BY <1>h, <2>1, <2>a DEF Plain
  <2>3. n \in 0..(Len(td2) - 1)
    BY <1>h, <1>2, <1>3
  <2>4. \A i \in 1..n : /\ td2[i].op = "send" /\ td2[i].event = as /\ td2[i].text = held[i]
                        /\ td2[i].text # <<>>
    <3> TAKE i \in 1..n
    <3>1. td2[i] = PutText(as, held[i]) /\ held[i] # <<>>
      BY <1>2, <1>3, <2>2, CliInstrs, Zenon
    <3>2. \A x : /\ PutText(as, x).op = "send" /\ PutText(as, x).event = as
                 /\ PutText(as, x).text = x
      BY DEF PutText
    <3> QED
      BY <3>1, <3>2
  <2>5. \A i \in (n + 2)..Len(td2) : Plain(td2[i])
    <3> TAKE i \in (n + 2)..Len(td2)
    <3>1. i - n \in 2..Len(td) /\ n + (i - n) = i
      BY <1>h, <1>2, <1>3, SMTT(30)
    <3>2. td2[i] = td[i - n]
      BY <1>3, <3>1
    <3>3. i - n \in DOMAIN td /\ i - n # f
      BY <1>h, <3>1, <2>2
    <3> QED
      BY <2>1, <3>2, <3>3
  <2>6. Held(held, as) = Ahead(td2, n)
    BY <2>4 DEF Held, Ahead, n
  <2>7. sd = tl \o Ahead(td2, n)
    BY <1>7, <2>6 DEF Unflushed
  <2> QED
    BY <1>3, <2>3, <2>4, <2>5, <2>7, Zenon DEF Flushing
<1>8. ASSUME HasTerminal(td) PROVE HasTerminal(td2)
  <2>1. PICK i \in DOMAIN td : td[i].op = "send" /\ td[i].event \in Terminal
    BY <1>8 DEF HasTerminal
  <2>2. i \in 2..Len(td)
    BY <1>h, <2>1
  <2>3. n + i \in DOMAIN td2
    BY <1>h, <1>2, <1>3, <2>2
  <2>4. td2[n + i] = td[i]
    BY <1>3, <2>2
  <2> QED
    BY <2>1, <2>3, <2>4, Zenon DEF HasTerminal
<1> QED
  BY <1>3, <1>4, <1>5, <1>6, <1>7, <1>8, Zenon DEF td2

(* The end of a flush: nothing of it is left to be told.                   *)
LEMMA CliClearOwes ==
    ASSUME NEW td \in Seq(Instrs), NEW sd \in Seq(Entries), NEW tl \in Seq(Entries),
           NEW held \in Seq(Texts), NEW as \in Classes,
           td # <<>>, Head(td).op = "clear"
    PROVE  /\ ~AllPlain(td) /\ ~Unflushed(td, sd, tl, held, as)
           /\ \A x \in Texts : td # <<PutText(as, x)>>
           /\ Flushing(td, sd, tl, as) => AllPlain(Tail(td)) /\ sd = tl
<1>h. /\ Head(td) \in Instrs /\ Head(td) = td[1] /\ 1 \in DOMAIN td /\ Tail(td) \in Seq(Instrs)
      /\ Len(td) \in Nat /\ Len(td) >= 1 /\ Len(Tail(td)) = Len(td) - 1
      /\ DOMAIN td = 1..Len(td) /\ DOMAIN Tail(td) = 1..(Len(td) - 1)
      /\ \A i \in 1..(Len(td) - 1) : Tail(td)[i] = td[i + 1]
  BY CliHead
<1>4. ~AllPlain(td)
  BY <1>h DEF AllPlain, Plain
<1>5. ~Unflushed(td, sd, tl, held, as)
  <2> SUFFICES ASSUME Unflushed(td, sd, tl, held, as) PROVE FALSE
    OBVIOUS
  <2>1. PICK f \in DOMAIN td : /\ td[f] = Flush(as)
                               /\ \A i \in DOMAIN td : i # f => Plain(td[i])
    BY Zenon DEF Unflushed
  <2>2. td[f].op = "flush"
    BY <2>1, CliInstrs, Zenon
  <2> QED
    BY <1>h, <2>1, <2>2 DEF Plain
<1>6. \A x \in Texts : td # <<PutText(as, x)>>
  <2> SUFFICES ASSUME NEW x \in Texts, td = <<PutText(as, x)>> PROVE FALSE
    OBVIOUS
  <2>1. td[1] = PutText(as, x)
    OBVIOUS
  <2>2. td[1].op = "send"
    BY <2>1 DEF PutText
  <2> QED
    BY <1>h, <2>2
<1>7. ASSUME Flushing(td, sd, tl, as) PROVE AllPlain(Tail(td)) /\ sd = tl
  <2>1. PICK k \in 0..(Len(td) - 1) :
            /\ sd = tl \o Ahead(td, k)
            /\ \A i \in 1..k : td[i].op = "send"
            /\ \A i \in (k + 2)..Len(td) : Plain(td[i])
    BY <1>7, Zenon DEF Flushing
  <2>2. k = 0
    BY <1>h, <2>1
  <2>3. Ahead(td, k) = <<>>
    BY <2>2 DEF Ahead
  <2>4. sd = tl
    BY <2>1, <2>3
  <2>5. \A i \in DOMAIN Tail(td) : Plain(Tail(td)[i])
    <3> TAKE i \in DOMAIN Tail(td)
    <3>1. i + 1 \in 2..Len(td) /\ Tail(td)[i] = td[i + 1]
      BY <1>h
    <3> QED
      BY <2>1, <2>2, <3>1
  <2> QED
    BY <2>4, <2>5 DEF AllPlain
<1> QED
  BY <1>4, <1>5, <1>6, <1>7, Zenon

(* Whether an end is about to be told, after the first instruction.        *)
LEMMA CliTerminalTail ==
    ASSUME NEW td \in Seq(Instrs), td # <<>>, HasTerminal(td)
    PROVE  \/ Head(td).op = "send" /\ Head(td).event \in Terminal
           \/ HasTerminal(Tail(td))
<1>h. /\ Head(td) \in Instrs /\ Head(td) = td[1] /\ 1 \in DOMAIN td /\ Tail(td) \in Seq(Instrs)
      /\ Len(td) \in Nat /\ Len(td) >= 1 /\ Len(Tail(td)) = Len(td) - 1
      /\ DOMAIN td = 1..Len(td) /\ DOMAIN Tail(td) = 1..(Len(td) - 1)
      /\ \A i \in 1..(Len(td) - 1) : Tail(td)[i] = td[i + 1]
  BY CliHead
<1>1. PICK i \in DOMAIN td : td[i].op = "send" /\ td[i].event \in Terminal
  BY DEF HasTerminal
<1>2. CASE i = 1
  BY <1>h, <1>1, <1>2
<1>3. CASE i # 1
  <2>1. i - 1 \in DOMAIN Tail(td) /\ Tail(td)[i - 1] = td[i]
    BY <1>h, <1>3
  <2> QED
    BY <1>1, <2>1, Zenon DEF HasTerminal
<1> QED
  BY <1>2, <1>3

(* The held texts of one class, and of another.                            *)
LEMMA CliHeldSeq ==
    ASSUME NEW held \in Seq(Texts), NEW as \in Classes
    PROVE  /\ Held(held, as) \in Seq(Entries) /\ Len(Held(held, as)) = Len(held)
           /\ \A i \in 1..Len(held) : Held(held, as)[i] = [text |-> held[i], as |-> as]
<1>1. \A y \in Texts : [text |-> y, as |-> as] \in Entries
  BY DEF Entries
<1>2. Len(held) \in Nat /\ \A i \in 1..Len(held) : held[i] \in Texts
  OBVIOUS
<1> DEFINE h == Held(held, as)
<1>3. h = [i \in 1..Len(held) |-> [text |-> held[i], as |-> as]]
  BY DEF Held
<1> HIDE DEF h
<1>4. h \in [1..Len(held) -> Entries]
  BY <1>1, <1>2, <1>3
<1>5. h \in Seq(Entries) /\ Len(h) = Len(held)
  BY <1>2, <1>4, CliSequence
<1>6. \A i \in 1..Len(held) : h[i] = [text |-> held[i], as |-> as]
  BY <1>3
<1> QED
  BY <1>5, <1>6 DEF h

(* Reclassing what was said reclasses the texts held of it.                *)
Reclasses(sd, sd2, tl, held) ==
    /\ sd \in Seq(Entries) /\ sd2 \in Seq(Entries) /\ tl \in Seq(Entries)
    /\ held \in Seq(Texts)
    /\ sd = tl \o Held(held, "text")
    /\ \A i \in DOMAIN tl : tl[i].as = "thinking"
    /\ Len(sd2) = Len(sd)
    /\ \A i \in 1..Len(sd) : sd2[i] = [text |-> sd[i].text, as |-> "thinking"]

(* A tool starts: all that was said, told and held, is thinking now.       *)
LEMMA CliReclassed ==
    ASSUME NEW sd, NEW sd2, NEW tl, NEW held, Reclasses(sd, sd2, tl, held)
    PROVE  sd2 = tl \o Held(held, "thinking")
<1>r. /\ sd \in Seq(Entries) /\ sd2 \in Seq(Entries) /\ tl \in Seq(Entries)
      /\ held \in Seq(Texts)
      /\ sd = tl \o Held(held, "text")
      /\ \A i \in DOMAIN tl : tl[i].as = "thinking"
      /\ Len(sd2) = Len(sd)
      /\ \A i \in 1..Len(sd) : sd2[i] = [text |-> sd[i].text, as |-> "thinking"]
  BY DEF Reclasses
<1> DEFINE a == Held(held, "text")
           b == Held(held, "thinking")
<1>0. "text" \in Classes /\ "thinking" \in Classes
  BY DEF Classes
<1>1. /\ a \in Seq(Entries) /\ Len(a) = Len(held)
      /\ \A i \in 1..Len(held) : a[i] = [text |-> held[i], as |-> "text"]
  BY <1>0, <1>r, CliHeldSeq
<1>2. /\ b \in Seq(Entries) /\ Len(b) = Len(held)
      /\ \A i \in 1..Len(held) : b[i] = [text |-> held[i], as |-> "thinking"]
  BY <1>0, <1>r, CliHeldSeq
<1>3. sd = tl \o a
  BY <1>r
<1> HIDE DEF a, b
<1>n. Len(tl) \in Nat /\ Len(held) \in Nat
  BY <1>r
<1>4. Len(sd) = Len(tl) + Len(held) /\ (\A i \in 1..Len(tl) : sd[i] = tl[i])
      /\ \A i \in 1..Len(held) : sd[Len(tl) + i] = a[i]
  <2>1. a \in Seq(Entries)
    BY <1>1
  <2>2. /\ Len(tl \o a) = Len(tl) + Len(a)
        /\ \A i \in 1..Len(tl) : (tl \o a)[i] = tl[i]
        /\ \A i \in 1..Len(a) : (tl \o a)[Len(tl) + i] = a[i]
    BY <1>r, <2>1, CliJoin
  <2> QED
    BY <1>1, <1>3, <2>2, Zenon
<1> DEFINE c == tl \o b
<1>5. c \in Seq(Entries) /\ Len(c) = Len(tl) + Len(held) /\ (\A i \in 1..Len(tl) : c[i] = tl[i])
      /\ \A i \in 1..Len(held) : c[Len(tl) + i] = b[i]
  <2>1. b \in Seq(Entries)
    BY <1>2
  <2>2. /\ tl \o b \in Seq(Entries) /\ Len(tl \o b) = Len(tl) + Len(b)
        /\ \A i \in 1..Len(tl) : (tl \o b)[i] = tl[i]
        /\ \A i \in 1..Len(b) : (tl \o b)[Len(tl) + i] = b[i]
    BY <1>r, <2>1, CliJoin
  <2> QED
    BY <1>2, <2>2, Zenon
<1> HIDE DEF c
<1>6. \A i \in 1..Len(tl) : sd2[i] = c[i]
  <2> TAKE i \in 1..Len(tl)
  <2>1. i \in 1..Len(sd) /\ i \in DOMAIN tl
    BY <1>r, <1>4, <1>n
  <2>2. tl[i] \in Entries /\ tl[i].as = "thinking"
    BY <1>r, <2>1
  <2>3. tl[i] = [text |-> tl[i].text, as |-> "thinking"]
    BY <2>2 DEF Entries
  <2> QED
    BY <1>r, <1>4, <1>5, <2>1, <2>3
<1>7. \A i \in 1..Len(held) : sd2[Len(tl) + i] = c[Len(tl) + i]
  <2> TAKE i \in 1..Len(held)
  <2>1. Len(tl) + i \in 1..Len(sd)
    BY <1>4, <1>n
  <2>2. sd[Len(tl) + i] = [text |-> held[i], as |-> "text"]
    BY <1>1, <1>4
  <2>3. sd2[Len(tl) + i] = [text |-> held[i], as |-> "thinking"]
    <3>1. sd2[Len(tl) + i] = [text |-> sd[Len(tl) + i].text, as |-> "thinking"]
      BY <1>r, <2>1, Zenon
    <3>2. sd[Len(tl) + i].text = held[i]
      BY <2>2
    <3> QED
      BY <3>1, <3>2
  <2> QED
    BY <1>2, <1>5, <2>3
<1>8. \A i \in 1..Len(c) : sd2[i] = c[i]
  <2> TAKE i \in 1..Len(c)
  <2>1. CASE i \in 1..Len(tl)
    BY <1>6, <2>1
  <2>2. CASE i > Len(tl)
    <3>1. i - Len(tl) \in 1..Len(held) /\ Len(tl) + (i - Len(tl)) = i
      BY <1>5, <1>n, <2>2
    <3> QED
      BY <1>7, <3>1
  <2>3. i \in 1..Len(tl) \/ i > Len(tl)
    BY <1>5, <1>n
  <2> QED
    BY <2>1, <2>2, <2>3
<1>9. Len(sd2) = Len(c)
  BY <1>r, <1>4, <1>5
<1> QED
  BY <1>r, <1>5, <1>8, <1>9, SeqEqual DEF c, b

(* One more text is held.                                                  *)
LEMMA CliHeldGrows ==
    ASSUME NEW held \in Seq(Texts), NEW x \in Texts, NEW as \in Classes
    PROVE  /\ Held(held, as) \in Seq(Entries)
           /\ Held(Append(held, x), as) = Append(Held(held, as), [text |-> x, as |-> as])
           /\ Held(Append(held, x), as) \in Seq(Entries)
<1> DEFINE h == Held(held, as)
           e == [text |-> x, as |-> as]
           g == Held(Append(held, x), as)
           m == Append(held, x)
<1>0. /\ m \in Seq(Texts) /\ Len(m) = Len(held) + 1 /\ m[Len(held) + 1] = x
      /\ \A i \in 1..Len(held) : m[i] = held[i]
  OBVIOUS
<1> HIDE DEF m
<1>1. \A y \in Texts : [text |-> y, as |-> as] \in Entries
  BY DEF Entries
<1>2. h = [i \in 1..Len(held) |-> [text |-> held[i], as |-> as]] /\ \A i \in 1..Len(held) : held[i] \in Texts
  BY DEF Held
<1>3. h \in Seq(Entries) /\ Len(h) = Len(held)
      /\ \A i \in 1..Len(held) : h[i] = [text |-> held[i], as |-> as]
  <2> HIDE DEF h
  <2>1. \A i \in 1..Len(held) : [text |-> held[i], as |-> as] \in Entries
    BY <1>1, <1>2
  <2>2. Len(held) \in Nat
    OBVIOUS
  <2>3. h \in [1..Len(held) -> Entries]
    BY <1>2, <2>1
  <2>4. h \in Seq(Entries) /\ Len(h) = Len(held)
    BY <2>2, <2>3, CliSequence
  <2> QED
    BY <1>2, <2>4
<1>4. g = [i \in 1..Len(m) |-> [text |-> m[i], as |-> as]] /\ \A i \in 1..Len(m) : m[i] \in Texts
  <2>1. g = [i \in 1..Len(m) |-> [text |-> m[i], as |-> as]]
    BY DEF Held, m
  <2> QED
    BY <1>0, <2>1
<1>5. g \in Seq(Entries) /\ Len(g) = Len(m)
      /\ \A i \in 1..Len(m) : g[i] = [text |-> m[i], as |-> as]
  <2> HIDE DEF g
  <2>1. \A i \in 1..Len(m) : [text |-> m[i], as |-> as] \in Entries
    BY <1>1, <1>4
  <2>2. Len(m) \in Nat
    BY <1>0
  <2>3. g \in [1..Len(m) -> Entries]
    BY <1>4, <2>1
  <2>4. g \in Seq(Entries) /\ Len(g) = Len(m)
    BY <2>2, <2>3, CliSequence
  <2> QED
    BY <1>4, <2>4
<1>6. e \in Entries
  BY <1>1
<1> HIDE DEF h, g
<1>7. g = Append(h, e)
  <2> DEFINE c == Append(h, e)
  <2>1. c \in Seq(Entries) /\ Len(c) = Len(held) + 1 /\ c[Len(held) + 1] = e
        /\ \A i \in 1..Len(held) : c[i] = h[i]
    BY <1>3, <1>6
  <2> HIDE DEF c
  <2>2. \A i \in 1..Len(c) : g[i] = c[i]
    <3> TAKE i \in 1..Len(c)
    <3>1. CASE i = Len(held) + 1
      BY <1>0, <1>5, <2>1, <3>1
    <3>2. CASE i \in 1..Len(held)
      BY <1>0, <1>3, <1>5, <2>1, <3>2
    <3>3. i = Len(held) + 1 \/ i \in 1..Len(held)
      BY <2>1
    <3> QED
      BY <3>1, <3>2, <3>3
  <2>3. Len(c) = Len(g)
    BY <1>0, <1>5, <2>1
  <2>4. g = c
    BY <1>5, <2>1, <2>2, <2>3, SeqEqual
  <2> QED
    BY <2>4 DEF c
<1> QED
  BY <1>3, <1>5, <1>7 DEF h, g, m

(* With nothing left to do, a prompt owes the held texts only.             *)
LEMMA CliNothingLeft ==
    ASSUME NEW td, td = <<>>
    PROVE  /\ AllPlain(td) /\ ~HasTerminal(td)
           /\ \A sd, tl, held, as : ~Unflushed(td, sd, tl, held, as)
           /\ \A sd, tl, as : ~Flushing(td, sd, tl, as)
           /\ \A as, x : td # <<PutText(as, x)>>
<1>1. DOMAIN td = {} /\ Len(td) = 0 /\ 0..(Len(td) - 1) = {}
  OBVIOUS
<1>2. \A as, x : td # <<PutText(as, x)>>
  OBVIOUS
<1>3. AllPlain(td) /\ ~HasTerminal(td)
  BY <1>1 DEF AllPlain, HasTerminal
<1>4. \A sd, tl, held, as : ~Unflushed(td, sd, tl, held, as)
  BY <1>1, Zenon DEF Unflushed
<1>5. \A sd, tl, as : ~Flushing(td, sd, tl, as)
  BY <1>1, Zenon DEF Flushing
<1> QED
  BY <1>2, <1>3, <1>4, <1>5, Zenon
-----------------------------------------------------------------------------
(* The invariant, one message at a time.                                   *)
LEMMA CliInvParts ==
    ASSUME CliInv
    PROVE  /\ CliTypes /\ Order
           /\ ~cancelled => \A p \in Prompts : CliOwes(p) /\ CliReports(p)
BY Zenon DEF CliInv, TextsOwed, EndsReported, CliOwes, CliReports

(* The parts for each message make up the invariant.                       *)
LEMMA CliInvJoin ==
    ASSUME CliTypes, Order, ~cancelled => \A p \in Prompts : CliOwes(p) /\ CliReports(p)
    PROVE  CliInv
BY Zenon DEF CliInv, TextsOwed, EndsReported, CliOwes, CliReports

(* The same of the next state.                                             *)
LEMMA CliInvJoinNext ==
    ASSUME CliTypes', Order', ~cancelled' => \A p \in Prompts : CliOwes(p)' /\ CliReports(p)'
    PROVE  CliInv'
BY Zenon DEF CliInv, TextsOwed, EndsReported, CliOwes, CliReports

(* What a codex prompt owes of the held texts only matters while its       *)
(* goroutine reads alone.                                                  *)
LEMMA CliHeldElsewhere ==
    ASSUME NEW td, NEW sd, NEW tl, NEW held, NEW held2, NEW stage, NEW lp, NEW al, NEW al2,
           CodexOwes(td, sd, tl, held, stage, lp, al),
           al2 => al, held2 = held \/ lp # "reading" \/ ~al2
    PROVE  CodexOwes(td, sd, tl, held2, stage, lp, al2)
BY Zenon DEF CodexOwes

(* A step of one goroutine leaves what the others owe.                     *)
LEMMA CliOthers ==
    ASSUME CliInv, NEW p \in Prompts, NEW q \in Prompts, q # p,
           kind' = kind, ~cancelled,
           pendingMsgs' = pendingMsgs \/ p \in Active,
           /\ todo'[q] = todo[q] /\ said'[q] = said[q] /\ told'[q] = told[q]
           /\ proc'[q].stage = proc[q].stage /\ loop'[q] = loop[q]
           /\ reported'[q] = reported[q] /\ (alone'[q] => alone[q])
    PROVE  CliOwes(q)' /\ CliReports(q)'
<1>1. CliOwes(q) /\ CliReports(q) /\ Order
  BY CliInvParts, Zenon
<1>2. CliReports(q)'
  BY <1>1 DEF CliReports
<1>3. pendingMsgs' = pendingMsgs \/ loop[q] # "reading" \/ ~alone'[q]
  BY <1>1 DEF Order, Active
<1>4. kind = "codex" =>
        CodexOwes(todo[q], said[q], told[q], pendingMsgs', proc[q].stage, loop[q], alone'[q])
  <2> HAVE kind = "codex"
  <2>1. CodexOwes(todo[q], said[q], told[q], pendingMsgs, proc[q].stage, loop[q], alone[q])
    BY <1>1, Zenon DEF CliOwes
  <2>2. alone'[q] => alone[q]
    OBVIOUS
  <2> QED
    BY <1>3, <2>1, <2>2, CliHeldElsewhere
<1>5. CliOwes(q)'
  BY <1>1, <1>4 DEF CliOwes
<1> QED
  BY <1>2, <1>5

(* A step of one goroutine, or of its Send.                                *)
LEMMA CliFrame ==
    ASSUME CliInv, CliTypes', NEW p \in Prompts,
           kind' = kind, cancelled' = cancelled,
           pendingMsgs' = pendingMsgs \/ p \in Active,
           \A q \in Prompts \ {p} :
              /\ todo'[q] = todo[q] /\ said'[q] = said[q] /\ told'[q] = told[q]
              /\ proc'[q].stage = proc[q].stage /\ loop'[q] = loop[q]
              /\ sending'[q] = sending[q]
              /\ reported'[q] = reported[q],
           alone' = alone, p \in Active' => p \in Active,
           todo'[p] # <<>> => p \in Active',
           loop'[p] # "none" => sending'[p] = "ended",
           sending'[p] # "ended" => proc'[p].stage \in {"none", "new"},
           ~cancelled => CliOwes(p)' /\ CliReports(p)'
    PROVE  CliInv'
<1>1. Order
  BY CliInvParts
<1>2. Active' \subseteq Active
  BY DEF Active
<1>3. Order'
  <2>1. \A q \in Prompts : todo'[q] # <<>> => q \in Active'
    BY <1>1 DEF Order, Active
  <2>2. \A q \in Prompts : loop'[q] # "none" => sending'[q] = "ended"
    BY <1>1 DEF Order
  <2>3. \A q \in Prompts : sending'[q] # "ended" => proc'[q].stage \in {"none", "new"}
    BY <1>1 DEF Order
  <2>4. \A q, r \in Active' : alone'[q] => r = q
    BY <1>1, <1>2 DEF Order
  <2> QED
    BY <2>1, <2>2, <2>3, <2>4, Zenon DEF Order
<1>4. ASSUME ~cancelled', NEW q \in Prompts PROVE CliOwes(q)' /\ CliReports(q)'
  <2>1. CASE q = p
    BY <1>4, <2>1
  <2>2. CASE q # p
    <3>1. alone'[q] => alone[q]
      OBVIOUS
    <3> QED
      BY <1>4, <2>2, <3>1, CliOthers
  <2> QED
    BY <2>1, <2>2
<1> QED
  BY <1>3, <1>4, CliInvJoinNext

(* A step that touches neither the lists nor the texts.                    *)
LEMMA CliAside ==
    ASSUME CliInv, cancelled' \in BOOLEAN, cancelled => cancelled',
           UNCHANGED <<kind, loop, todo, pendingMsgs, said, told, alone, reported>>,
           proc' \in [Prompts -> Procs], \A q \in Prompts : proc'[q].stage = proc[q].stage,
           sending' \in [Prompts -> {"idle", "checked", "started", "ended"}],
           \A q \in Prompts : sending'[q] = sending[q] \/ sending[q] # "ended"
    PROVE  CliInv'
<1>1. CliTypes /\ Order
  BY CliInvParts
<1>2. CliTypes'
  BY <1>1 DEF CliTypes
<1>3. Order'
  <2>0. Active' = Active
    BY DEF Active
  <2>1. \A q \in Prompts : todo'[q] # <<>> => q \in Active'
    BY <1>1, <2>0 DEF Order
  <2>2. \A q \in Prompts : loop'[q] # "none" => sending'[q] = "ended"
    BY <1>1 DEF Order
  <2>3. \A q \in Prompts : sending'[q] # "ended" => proc'[q].stage \in {"none", "new"}
    BY <1>1 DEF Order
  <2>4. \A q, r \in Active' : alone'[q] => r = q
    BY <1>1, <2>0 DEF Order
  <2> QED
    BY <2>1, <2>2, <2>3, <2>4, Zenon DEF Order
<1>4. ASSUME ~cancelled', NEW q \in Prompts PROVE CliOwes(q)' /\ CliReports(q)'
  <2>1. CliOwes(q) /\ CliReports(q)
    BY <1>4, CliInvParts, Zenon
  <2> QED
    BY <2>1 DEF CliOwes, CliReports
<1> QED
  BY <1>2, <1>3, <1>4, CliInvJoinNext

(* Send.                                                                   *)
LEMMA CliCheckedKeeps ==
    ASSUME CliInv, NEW p \in Prompts, Checked(p)
    PROVE  CliInv'
<1>1. /\ sending[p] = "idle"
      /\ sending' = [sending EXCEPT ![p] = IF alive THEN "checked" ELSE "ended"]
      /\ UNCHANGED <<kind, cancelled, proc, loop, todo, pendingMsgs, said, told, alone, reported>>
  BY Zenon DEF Checked
<1>2. CliTypes
  BY CliInvParts
<1>3. sending' \in [Prompts -> {"idle", "checked", "started", "ended"}]
  BY <1>1, <1>2 DEF CliTypes
<1>4. \A q \in Prompts : sending'[q] = sending[q] \/ sending[q] # "ended"
  BY <1>1, <1>2 DEF CliTypes
<1> QED
  BY <1>1, <1>2, <1>3, <1>4, CliAside DEF CliTypes

(* Send starts the process, or fails to prepare it.                        *)
LEMMA CliStartedKeeps ==
    ASSUME CliInv, NEW p \in Prompts, Started(p)
    PROVE  CliInv'
<1>1. /\ sending[p] = "checked"
      /\ UNCHANGED <<kind, cancelled, loop, todo, pendingMsgs, said, told, alone, reported>>
      /\ \/ /\ sending' = [sending EXCEPT ![p] = "ended"]
            /\ UNCHANGED proc
         \/ /\ sending' = [sending EXCEPT ![p] = "started"]
            /\ proc' = [proc EXCEPT ![p] = [NoProc EXCEPT !.up = TRUE, !.stage = "new"]]
  BY Zenon DEF Started, StageImagesFails, StartProcess
<1>2. CliTypes /\ Order /\ (~cancelled => CliOwes(p) /\ CliReports(p))
  BY CliInvParts, Zenon
<1>3. CASE sending' = [sending EXCEPT ![p] = "ended"] /\ UNCHANGED proc
  <2>1. sending' \in [Prompts -> {"idle", "checked", "started", "ended"}]
    BY <1>2, <1>3 DEF CliTypes
  <2>2. \A q \in Prompts : sending'[q] = sending[q] \/ sending[q] # "ended"
    BY <1>1, <1>2, <1>3 DEF CliTypes
  <2> QED
    BY <1>1, <1>2, <1>3, <2>1, <2>2, CliAside DEF CliTypes
<1>4. CASE /\ sending' = [sending EXCEPT ![p] = "started"]
           /\ proc' = [proc EXCEPT ![p] = [NoProc EXCEPT !.up = TRUE, !.stage = "new"]]
  <2> DEFINE n == [NoProc EXCEPT !.up = TRUE, !.stage = "new"]
  <2>1. n \in Procs /\ n.stage = "new"
    BY DEF NoProc, Procs, Stages
  <2>2. proc' = [proc EXCEPT ![p] = n]
    BY <1>4
  <2> HIDE DEF n
  <2>3. proc' \in [Prompts -> Procs] /\ proc'[p].stage = "new"
        /\ \A q \in Prompts \ {p} : proc'[q] = proc[q]
    BY <1>2, <2>1, <2>2 DEF CliTypes
  <2>4. /\ sending' \in [Prompts -> {"idle", "checked", "started", "ended"}]
        /\ sending'[p] = "started" /\ \A q \in Prompts \ {p} : sending'[q] = sending[q]
    BY <1>2, <1>4 DEF CliTypes
  <2>5. CliTypes'
    BY <1>1, <1>2, <2>3, <2>4 DEF CliTypes
  <2>6. loop[p] = "none" /\ proc[p].stage \in {"none", "new"} /\ todo[p] = <<>>
    BY <1>1, <1>2 DEF Order, Active, CliTypes
  <2>7. ASSUME ~cancelled PROVE CliOwes(p)' /\ CliReports(p)'
    <3>1. kind = "codex" => said[p] = <<>> /\ told[p] = <<>> /\ AllPlain(todo[p])
      BY <1>2, <2>6, <2>7 DEF CliOwes, CodexOwes
    <3>2. kind = "codex" =>
            CodexOwes(todo[p], said[p], told[p], pendingMsgs, "new", loop[p], alone[p])
      BY <3>1 DEF CodexOwes
    <3>3. CliOwes(p)'
      BY <1>1, <1>2, <2>3, <2>7, <3>2 DEF CliOwes
    <3>4. CliReports(p)'
      BY <1>1, <1>2, <2>3, <2>6 DEF CliReports, CliTypes
    <3> QED
      BY <3>3, <3>4
  <2>8. Active' = Active /\ p \notin Active
    BY <1>1, <2>6 DEF Active
  <2>9. /\ todo'[p] = <<>> /\ loop'[p] = "none" /\ proc'[p].stage \in {"none", "new"}
        /\ \A q \in Prompts \ {p} :
              /\ todo'[q] = todo[q] /\ said'[q] = said[q] /\ told'[q] = told[q]
              /\ proc'[q].stage = proc[q].stage /\ loop'[q] = loop[q]
              /\ sending'[q] = sending[q]
              /\ reported'[q] = reported[q]
    BY <1>1, <2>3, <2>4, <2>6
  <2> QED
    BY <1>1, <2>5, <2>7, <2>8, <2>9, CliFrame
<1> QED
  BY <1>1, <1>3, <1>4

(* From here on the goroutine of p shares pendingMsgs with those that read *)
(* already.                                                                *)
LEMMA CliRegisteredKeeps ==
    ASSUME CliInv, NEW p \in Prompts, Registered(p)
    PROVE  CliInv'
<1>1. /\ sending[p] = "started"
      /\ sending' = [sending EXCEPT ![p] = "ended"]
      /\ loop' = [loop EXCEPT ![p] = "reading"]
      /\ alone' = [q \in Prompts |-> IF q = p THEN Active = {} ELSE alone[q] /\ q \notin Active]
      /\ UNCHANGED <<kind, cancelled, proc, todo, pendingMsgs, said, told, reported>>
  BY Zenon DEF Registered
<1>2. CliTypes /\ Order /\ (~cancelled => CliOwes(p) /\ CliReports(p))
  BY CliInvParts, Zenon
<1>3. /\ sending' \in [Prompts -> {"idle", "checked", "started", "ended"}]
      /\ sending'[p] = "ended" /\ \A q \in Prompts \ {p} : sending'[q] = sending[q]
  BY <1>1, <1>2 DEF CliTypes
<1>4. /\ loop' \in [Prompts -> {"none", "reading", "waiting", "done"}]
      /\ loop'[p] = "reading" /\ \A q \in Prompts \ {p} : loop'[q] = loop[q]
  BY <1>1, <1>2 DEF CliTypes
<1>5. /\ alone' \in [Prompts -> BOOLEAN] /\ (alone'[p] <=> Active = {})
      /\ \A q \in Prompts \ {p} : alone'[q] <=> alone[q] /\ q \notin Active
  <2>1. alone \in [Prompts -> BOOLEAN]
    BY <1>2 DEF CliTypes
  <2>2. \A q \in Prompts : (IF q = p THEN Active = {} ELSE alone[q] /\ q \notin Active) \in BOOLEAN
    BY <2>1
  <2>3. alone' \in [Prompts -> BOOLEAN]
    BY <1>1, <2>2, Zenon
  <2> QED
    BY <1>1, <2>3, Zenon
<1>6. CliTypes'
  BY <1>1, <1>2, <1>3, <1>4, <1>5 DEF CliTypes
<1>7. Active' = Active \cup {p}
  BY <1>4 DEF Active
<1>8. proc[p].stage \in {"none", "new"} /\ loop[p] = "none" /\ p \notin Active
  BY <1>1, <1>2 DEF Order, Active
<1>9. Order'
  <2>1. \A q \in Prompts : todo'[q] # <<>> => q \in Active'
    BY <1>1, <1>2, <1>7 DEF Order
  <2>2. \A q \in Prompts : loop'[q] # "none" => sending'[q] = "ended"
    BY <1>2, <1>3, <1>4 DEF Order
  <2>3. \A q \in Prompts : sending'[q] # "ended" => proc'[q].stage \in {"none", "new"}
    BY <1>1, <1>2, <1>3 DEF Order
  <2>4. \A q, r \in Active' : alone'[q] => r = q
    <3> TAKE q, r \in Active'
    <3>1. CASE q = p
      BY <1>5, <1>7, <3>1
    <3>2. CASE q # p
      <4>1. q \in Active /\ q \in Prompts
        BY <1>7, <3>2 DEF Active
      <4> QED
        BY <1>5, <3>2, <4>1
    <3> QED
      BY <3>1, <3>2
  <2> QED
    BY <2>1, <2>2, <2>3, <2>4, Zenon DEF Order
<1>10. ASSUME ~cancelled', NEW q \in Prompts PROVE CliOwes(q)' /\ CliReports(q)'
  <2>1. CASE q = p
    <3>1. kind = "codex" => said[p] = <<>> /\ told[p] = <<>> /\ AllPlain(todo[p])
      BY <1>1, <1>2, <1>8, <1>10 DEF CliOwes, CodexOwes
    <3>2. kind = "codex" =>
            CodexOwes(todo[p], said[p], told[p], pendingMsgs, proc[p].stage, "reading", alone'[p])
      BY <1>8, <3>1 DEF CodexOwes
    <3>3. CliOwes(p)'
      BY <1>1, <1>2, <1>4, <1>10, <3>2 DEF CliOwes
    <3>4. CliReports(p)'
      BY <1>1, <1>2, <1>4, <1>8 DEF CliReports, CliTypes
    <3> QED
      BY <2>1, <3>3, <3>4
  <2>2. CASE q # p
    BY <1>1, <1>4, <1>5, <1>10, <2>2, CliOthers
  <2> QED
    BY <2>1, <2>2
<1> QED
  BY <1>6, <1>9, <1>10, CliInvJoinNext
-----------------------------------------------------------------------------
(* A line: the goroutine of p reads, and has nothing left to do for the    *)
(* line before.                                                            *)
LEMMA CliLine ==
    ASSUME CliInv, NEW p \in Prompts,
           UNCHANGED <<kind, cancelled, sending, loop, told, alone, reported>>,
           loop[p] = "reading", todo[p] = <<>>,
           NEW td \in Seq(Instrs), NEW sd \in Seq(Entries), NEW st \in Stages,
           todo' = [todo EXCEPT ![p] = td], said' = [said EXCEPT ![p] = sd],
           pendingMsgs' \in Seq(Texts),
           (proc' = proc /\ st = proc[p].stage) \/ proc' = [proc EXCEPT ![p].stage = st],
           ~cancelled /\ kind = "codex" =>
              CodexOwes(td, sd, told[p], pendingMsgs', st, "reading", alone[p]),
           ~cancelled /\ kind = "opencode" => OpenCodeOwes(td, sd, told[p]),
           kind = "codex" /\ st \in {"completed", "failed"} => HasTerminal(td) \/ st = proc[p].stage
    PROVE  CliInv'
<1>1. CliTypes /\ Order /\ (~cancelled => CliOwes(p) /\ CliReports(p))
  BY CliInvParts, Zenon
<1>2. /\ todo' \in [Prompts -> Seq(Instrs)] /\ todo'[p] = td
      /\ \A q \in Prompts \ {p} : todo'[q] = todo[q]
  BY <1>1 DEF CliTypes
<1>3. /\ said' \in [Prompts -> Seq(Entries)] /\ said'[p] = sd
      /\ \A q \in Prompts \ {p} : said'[q] = said[q]
  BY <1>1 DEF CliTypes
<1>4. /\ proc' \in [Prompts -> Procs] /\ proc'[p].stage = st
      /\ \A q \in Prompts \ {p} : proc'[q] = proc[q]
  <2>1. CASE proc' = proc /\ st = proc[p].stage
    BY <1>1, <2>1 DEF CliTypes
  <2>2. CASE proc' = [proc EXCEPT ![p].stage = st]
    <3>1. proc[p] \in Procs
      BY <1>1 DEF CliTypes
    <3> DEFINE n == [proc[p] EXCEPT !.stage = st]
    <3>2. n \in Procs /\ n.stage = st
      BY <3>1 DEF Procs
    <3>3. proc' = [proc EXCEPT ![p] = n]
      BY <2>2
    <3> HIDE DEF n
    <3> QED
      BY <1>1, <3>2, <3>3 DEF CliTypes
  <2> QED
    BY <2>1, <2>2
<1>5. CliTypes'
  BY <1>1, <1>2, <1>3, <1>4 DEF CliTypes
<1>6. p \in Active /\ p \in Active' /\ sending[p] = "ended"
  BY <1>1 DEF Active, Order
<1>7. ASSUME ~cancelled PROVE CliOwes(p)' /\ CliReports(p)'
  <2>1. CliOwes(p)'
    BY <1>2, <1>3, <1>4, <1>7 DEF CliOwes
  <2>2. ~HasTerminal(todo[p])
    BY CliNothingLeft
  <2>3. CliReports(p)'
    BY <1>1, <1>2, <1>4, <1>7, <2>2 DEF CliReports, CliTypes
  <2> QED
    BY <2>1, <2>3
<1>8. \A q \in Prompts \ {p} :
         /\ todo'[q] = todo[q] /\ said'[q] = said[q] /\ told'[q] = told[q]
         /\ proc'[q].stage = proc[q].stage /\ loop'[q] = loop[q]
         /\ sending'[q] = sending[q] /\ reported'[q] = reported[q]
  BY <1>2, <1>3, <1>4
<1> QED
  BY <1>5, <1>6, <1>7, <1>8, CliFrame

(* Lines that only move the run on, or pass an event without text on.      *)
LEMMA CliPlainLists ==
    /\ \A e \in Events : /\ <<Put(e)>> \in Seq(Instrs) /\ AllPlain(<<Put(e)>>)
                         /\ (e \in Terminal => HasTerminal(<<Put(e)>>))
    /\ \A e, f \in Events : /\ <<Put(e), Put(f)>> \in Seq(Instrs)
                            /\ AllPlain(<<Put(e), Put(f)>>)
    /\ <<>> \in Seq(Instrs) /\ AllPlain(<<>>)
<1>1. ASSUME NEW e \in Events
      PROVE  /\ <<Put(e)>> \in Seq(Instrs) /\ AllPlain(<<Put(e)>>)
             /\ (e \in Terminal => HasTerminal(<<Put(e)>>))
  <2>1. Put(e) \in Instrs /\ Plain(Put(e)) /\ Put(e).op = "send" /\ Put(e).event = e
    BY CliInstrs, Zenon
  <2>2. <<Put(e)>> \in Seq(Instrs)
    BY <2>1
  <2>3. DOMAIN <<Put(e)>> = {1} /\ <<Put(e)>>[1] = Put(e)
    OBVIOUS
  <2> QED
    BY <2>1, <2>2, <2>3 DEF AllPlain, HasTerminal
<1>2. ASSUME NEW e \in Events, NEW f \in Events
      PROVE  <<Put(e), Put(f)>> \in Seq(Instrs) /\ AllPlain(<<Put(e), Put(f)>>)
  <2>1. Put(e) \in Instrs /\ Plain(Put(e)) /\ Put(f) \in Instrs /\ Plain(Put(f))
    BY CliInstrs, Zenon
  <2>2. <<Put(e), Put(f)>> \in Seq(Instrs)
    BY <2>1
  <2>3. DOMAIN <<Put(e), Put(f)>> = 1..2 /\ <<Put(e), Put(f)>>[1] = Put(e)
        /\ <<Put(e), Put(f)>>[2] = Put(f)
    OBVIOUS
  <2> QED
    BY <2>1, <2>2, <2>3 DEF AllPlain
<1>3. <<>> \in Seq(Instrs) /\ AllPlain(<<>>)
  BY CliNothingLeft
<1> QED
  BY <1>1, <1>2, <1>3, Zenon

(* What an idle goroutine owes.                                            *)
LEMMA CliIdle ==
    ASSUME CliInv, NEW p \in Prompts, loop[p] = "reading", todo[p] = <<>>, ~cancelled
    PROVE  /\ said[p] \in Seq(Entries) /\ told[p] \in Seq(Entries) /\ pendingMsgs \in Seq(Texts)
           /\ kind = "codex" /\ proc[p].stage \in {"new", "thread"} => said[p] = <<>> /\ told[p] = <<>>
           /\ kind = "codex" /\ proc[p].stage = "turn" /\ alone[p] =>
                 /\ \A i \in DOMAIN told[p] : told[p][i].as = "thinking"
                 /\ said[p] = told[p] \o Held(pendingMsgs, "text")
           /\ kind = "opencode" => said[p] = told[p]
<1>1. CliTypes /\ CliOwes(p)
  BY CliInvParts, Zenon
<1>2. /\ AllPlain(todo[p])
      /\ \A sd, tl, held, as : ~Unflushed(todo[p], sd, tl, held, as)
      /\ \A sd, tl, as : ~Flushing(todo[p], sd, tl, as)
      /\ \A as, x : todo[p] # <<PutText(as, x)>>
  BY CliNothingLeft
<1>3. kind = "opencode" => said[p] = told[p]
  BY <1>1, <1>2, Zenon DEF CliOwes, OpenCodeOwes
<1>4. kind = "codex" =>
        CodexOwes(todo[p], said[p], told[p], pendingMsgs, proc[p].stage, "reading", alone[p])
  BY <1>1, Zenon DEF CliOwes
<1>5. kind = "codex" /\ proc[p].stage = "turn" /\ alone[p] =>
                 /\ \A i \in DOMAIN told[p] : told[p][i].as = "thinking"
                 /\ said[p] = told[p] \o Held(pendingMsgs, "text")
  BY <1>2, <1>4, Zenon DEF CodexOwes, Untold
<1>6. kind = "codex" /\ proc[p].stage \in {"new", "thread"} => said[p] = <<>> /\ told[p] = <<>>
  BY <1>4 DEF CodexOwes
<1> QED
  BY <1>1, <1>3, <1>5, <1>6 DEF CliTypes

(* A line of codex before its turn, or the end of a turn that failed.      *)
LEMMA CliThreadStarted ==
    ASSUME CliInv, NEW p \in Prompts, ThreadStarted(p) \/ TurnStarted(p),
           UNCHANGED <<kind, cancelled, sending, loop, told, alone, reported>>
    PROVE  CliInv'
<1>1. /\ kind = "codex" /\ loop[p] = "reading" /\ todo[p] = <<>> /\ UNCHANGED <<todo, said>>
      /\ \/ /\ proc[p].stage = "new" /\ proc' = [proc EXCEPT ![p].stage = "thread"]
            /\ UNCHANGED pendingMsgs
         \/ /\ proc[p].stage = "thread" /\ proc' = [proc EXCEPT ![p].stage = "turn"]
            /\ pendingMsgs' = <<>>
  BY Zenon DEF ThreadStarted, TurnStarted, Reads
<1>2. CliTypes
  BY CliInvParts
<1>3. todo' = [todo EXCEPT ![p] = <<>>] /\ said' = [said EXCEPT ![p] = said[p]]
      /\ said[p] \in Seq(Entries)
  BY <1>1, <1>2 DEF CliTypes
<1>4. pendingMsgs' \in Seq(Texts)
  <2>1. <<>> \in Seq(Texts)
    OBVIOUS
  <2> QED
    BY <1>1, <1>2, <2>1 DEF CliTypes
<1>5. PICK st \in {"thread", "turn"} : /\ proc' = [proc EXCEPT ![p].stage = st]
                                       /\ st = "turn" => pendingMsgs' = <<>>
  BY <1>1
<1>6. st \in Stages /\ st \notin {"completed", "failed"}
  BY DEF Stages
<1>7. ~cancelled => CodexOwes(<<>>, said[p], told[p], pendingMsgs', st, "reading", alone[p])
  <2> HAVE ~cancelled
  <2>1. said[p] = <<>> /\ told[p] = <<>>
    BY <1>1, CliIdle
  <2>2. AllPlain(<<>>)
    BY CliPlainLists
  <2>3. st = "turn" => said[p] = told[p] \o Held(pendingMsgs', "text")
    BY <1>5, <2>1 DEF Held
  <2>4. DOMAIN told[p] = {}
    BY <2>1
  <2> QED
    BY <1>6, <2>1, <2>2, <2>3, <2>4 DEF CodexOwes, Untold
<1> DEFINE td == <<>>
<1>8. /\ td \in Seq(Instrs) /\ todo' = [todo EXCEPT ![p] = td]
      /\ ~cancelled => CodexOwes(td, said[p], told[p], pendingMsgs', st, "reading", alone[p])
  BY <1>3, <1>7, CliPlainLists
<1> DEFINE sd == said[p]
<1> HIDE DEF td
<1>9. /\ sd \in Seq(Entries) /\ said' = [said EXCEPT ![p] = sd]
      /\ ~cancelled /\ kind = "codex" =>
            CodexOwes(td, sd, told[p], pendingMsgs', st, "reading", alone[p])
      /\ ~cancelled /\ kind = "opencode" => OpenCodeOwes(td, sd, told[p])
      /\ kind = "codex" /\ st \in {"completed", "failed"} => HasTerminal(td) \/ st = proc[p].stage
  BY <1>1, <1>3, <1>6, <1>8
<1>10. /\ loop[p] = "reading" /\ todo[p] = <<>> /\ st \in Stages
       /\ (proc' = proc /\ st = proc[p].stage) \/ proc' = [proc EXCEPT ![p].stage = st]
  BY <1>1, <1>5, <1>6
<1> HIDE DEF sd
<1> QED
  BY <1>4, <1>8, <1>9, <1>10, CliLine

(* An agent message is held.                                               *)
LEMMA CliAgentMessage ==
    ASSUME CliInv, NEW p \in Prompts, AgentMessage(p),
           UNCHANGED <<kind, cancelled, sending, loop, told, alone, reported>>
    PROVE  CliInv'
<1> DEFINE x == <<p, Len(said[p]) + 1>>
           e == [text |-> x, as |-> "text"]
<1>1. /\ kind = "codex" /\ loop[p] = "reading" /\ todo[p] = <<>> /\ UNCHANGED <<todo, proc>>
      /\ proc[p].stage = "turn"
      /\ pendingMsgs' = Append(pendingMsgs, x)
      /\ said' = [said EXCEPT ![p] = Append(@, e)]
  BY Zenon DEF AgentMessage, Says
<1>2. CliTypes
  BY CliInvParts
<1>3. said[p] \in Seq(Entries) /\ pendingMsgs \in Seq(Texts) /\ told[p] \in Seq(Entries)
  BY <1>2 DEF CliTypes
<1>4. x \in Texts /\ e \in Entries
  <2>1. Len(said[p]) + 1 \in Nat
    BY <1>3
  <2>2. x \in Texts
    BY <2>1 DEF Texts
  <2> QED
    BY <2>2 DEF Entries, Classes
<1>5. e.text = x /\ e.as = "text"
  OBVIOUS
<1> HIDE DEF x, e
<1>6. todo' = [todo EXCEPT ![p] = <<>>] /\ said' = [said EXCEPT ![p] = Append(said[p], e)]
      /\ Append(said[p], e) \in Seq(Entries) /\ pendingMsgs' \in Seq(Texts)
  BY <1>1, <1>2, <1>3, <1>4 DEF CliTypes
<1>7. ~cancelled =>
        CodexOwes(<<>>, Append(said[p], e), told[p], pendingMsgs', "turn", "reading", alone[p])
  <2> HAVE ~cancelled
  <2>1. alone[p] => /\ \A i \in DOMAIN told[p] : told[p][i].as = "thinking"
                    /\ said[p] = told[p] \o Held(pendingMsgs, "text")
    BY <1>1, CliIdle
  <2>2. Held(pendingMsgs, "text") \in Seq(Entries) /\ Held(pendingMsgs', "text") = Append(Held(pendingMsgs, "text"), e)
    <3>1. "text" \in Classes
      BY DEF Classes
    <3>2. e = [text |-> x, as |-> "text"]
      BY DEF e
    <3> QED
      BY <1>1, <1>3, <1>4, <3>1, <3>2, CliHeldGrows
  <2>3. alone[p] => Append(said[p], e) = told[p] \o Held(pendingMsgs', "text")
    <3> DEFINE h == Held(pendingMsgs, "text")
    <3>1. h \in Seq(Entries)
      BY <2>2
    <3> HIDE DEF h
    <3>2. Append(told[p] \o h, e) = told[p] \o Append(h, e)
      <4>1. told[p] \in Seq(Entries) /\ e \in Entries
        BY <1>3, <1>4
      <4>2. \A f, g \in Seq(Entries) : \A y \in Entries :
               Append(f \o g, y) = f \o Append(g, y)
        OBVIOUS
      <4> QED
        BY <3>1, <4>1, <4>2, Zenon
    <3> QED
      BY <2>1, <2>2, <3>2 DEF h
  <2>4. AllPlain(<<>>)
    BY CliPlainLists
  <2> QED
    BY <2>1, <2>3, <2>4, Zenon DEF CodexOwes, Untold
<1>8. "turn" \in Stages
  BY DEF Stages
<1> DEFINE td == <<>>
           sd == Append(said[p], e)
           st == "turn"
<1>9. /\ td \in Seq(Instrs) /\ todo' = [todo EXCEPT ![p] = td]
      /\ ~cancelled => CodexOwes(td, sd, told[p], pendingMsgs', st, "reading", alone[p])
      /\ sd \in Seq(Entries) /\ said' = [said EXCEPT ![p] = sd]
      /\ st \in Stages
  BY <1>6, <1>7, <1>8, CliPlainLists
<1>10. /\ ~cancelled /\ kind = "codex" =>
             CodexOwes(td, sd, told[p], pendingMsgs', st, "reading", alone[p])
       /\ ~cancelled /\ kind = "opencode" => OpenCodeOwes(td, sd, told[p])
       /\ kind = "codex" /\ st \in {"completed", "failed"} => HasTerminal(td) \/ st = proc[p].stage
       /\ (proc' = proc /\ st = proc[p].stage) \/ proc' = [proc EXCEPT ![p].stage = st]
  BY <1>1, <1>9
<1> HIDE DEF td, sd, st
<1>11. loop[p] = "reading" /\ todo[p] = <<>> /\ pendingMsgs' \in Seq(Texts)
  BY <1>1, <1>6
<1> QED
  BY <1>9, <1>10, <1>11, CliLine

(* A line that only passes events without text on.                         *)
LEMMA CliPlainLine ==
    ASSUME CliInv, NEW p \in Prompts,
           UNCHANGED <<kind, cancelled, sending, loop, told, alone, reported>>,
           loop[p] = "reading", todo[p] = <<>>,
           NEW td \in Seq(Instrs), AllPlain(td), NEW st \in Stages,
           todo' = [todo EXCEPT ![p] = td], UNCHANGED <<said, pendingMsgs>>,
           (proc' = proc /\ st = proc[p].stage) \/ proc' = [proc EXCEPT ![p].stage = st],
           kind = "codex" => \/ st = "turn" /\ proc[p].stage = "turn"
                             \/ st = "failed" /\ HasTerminal(td)
    PROVE  CliInv'
<1>1. CliTypes
  BY CliInvParts
<1> DEFINE sd == said[p]
<1>2. sd \in Seq(Entries) /\ said' = [said EXCEPT ![p] = sd] /\ pendingMsgs' \in Seq(Texts)
  BY <1>1 DEF CliTypes
<1>3. ~cancelled /\ kind = "codex" =>
         CodexOwes(td, sd, told[p], pendingMsgs', st, "reading", alone[p])
  <2> HAVE ~cancelled /\ kind = "codex"
  <2>1. CASE st = "failed"
    BY <2>1 DEF CodexOwes
  <2>2. CASE st = "turn" /\ proc[p].stage = "turn"
    <3>1. alone[p] => /\ \A i \in DOMAIN told[p] : told[p][i].as = "thinking"
                      /\ sd = told[p] \o Held(pendingMsgs', "text")
      BY <2>2, CliIdle
    <3> HIDE DEF sd
    <3> QED
      BY <2>2, <3>1 DEF CodexOwes, Untold
  <2> QED
    BY <2>1, <2>2
<1>4. ~cancelled /\ kind = "opencode" => OpenCodeOwes(td, sd, told[p])
  <2> HAVE ~cancelled /\ kind = "opencode"
  <2>1. sd = told[p]
    BY CliIdle
  <2> QED
    BY <2>1 DEF OpenCodeOwes
<1>5. kind = "codex" /\ st \in {"completed", "failed"} => HasTerminal(td) \/ st = proc[p].stage
  OBVIOUS
<1> HIDE DEF sd
<1> QED
  BY <1>2, <1>3, <1>4, <1>5, CliLine

(* The lines that neither hold nor pass on a text.                         *)
LEMMA CliPlainEvents ==
    ASSUME CliInv, NEW p \in Prompts,
           \/ ItemCompleted(p) \/ TurnFailed(p) \/ StepStart(p) \/ HandleToolUse(p)
           \/ HandleError(p),
           UNCHANGED <<kind, cancelled, sending, loop, told, alone, reported>>
    PROVE  CliInv'
<1>1. loop[p] = "reading" /\ todo[p] = <<>> /\ UNCHANGED <<said, pendingMsgs>>
  BY Zenon DEF ItemCompleted, TurnFailed, StepStart, HandleToolUse, HandleError, Says, Reads
<1>2. CliTypes
  BY CliInvParts
<1>s. "turn" \in Stages /\ "failed" \in Stages
  BY DEF Stages
<1>e. /\ "tool_result" \in Events /\ "tool_use" \in Events /\ "error" \in Events
      /\ "error" \in Terminal
  BY DEF Events, Terminal
<1>3. CASE ItemCompleted(p)
  <2> DEFINE td == <<Put("tool_result")>>
             st == "turn"
  <2>1. /\ kind = "codex" /\ UNCHANGED proc /\ proc[p].stage = "turn"
        /\ todo' = [todo EXCEPT ![p] = td]
    BY <1>3, Zenon DEF ItemCompleted, Says
  <2>2. td \in Seq(Instrs) /\ AllPlain(td) /\ st \in Stages
    BY <1>s, <1>e, CliPlainLists
  <2>3. /\ (proc' = proc /\ st = proc[p].stage) \/ proc' = [proc EXCEPT ![p].stage = st]
        /\ kind = "codex" => \/ st = "turn" /\ proc[p].stage = "turn"
                             \/ st = "failed" /\ HasTerminal(td)
    BY <2>1
  <2> HIDE DEF td, st
  <2> QED
    BY <1>1, <2>1, <2>2, <2>3, CliPlainLine
<1>4. CASE TurnFailed(p) \/ HandleError(p)
  <2> DEFINE td == <<Put("error")>>
             st == "failed"
  <2>1. /\ proc' = [proc EXCEPT ![p].stage = st]
        /\ todo' = [todo EXCEPT ![p] = td]
    BY <1>4, Zenon DEF TurnFailed, HandleError, Reads
  <2>2. td \in Seq(Instrs) /\ AllPlain(td) /\ st \in Stages /\ HasTerminal(td)
    BY <1>s, <1>e, CliPlainLists
  <2>3. /\ (proc' = proc /\ st = proc[p].stage) \/ proc' = [proc EXCEPT ![p].stage = st]
        /\ kind = "codex" => \/ st = "turn" /\ proc[p].stage = "turn"
                             \/ st = "failed" /\ HasTerminal(td)
    BY <2>1, <2>2
  <2> HIDE DEF td, st
  <2> QED
    BY <1>1, <2>1, <2>2, <2>3, CliPlainLine
<1>5. CASE StepStart(p)
  <2> DEFINE td == <<>>
             st == "turn"
  <2>1. kind = "opencode" /\ UNCHANGED todo /\ proc' = [proc EXCEPT ![p].stage = st]
    BY <1>5, Zenon DEF StepStart, Reads
  <2>2. td \in Seq(Instrs) /\ AllPlain(td) /\ st \in Stages
    BY <1>s, CliPlainLists
  <2>3. todo' = [todo EXCEPT ![p] = td]
    BY <1>1, <1>2, <2>1 DEF CliTypes
  <2>4. /\ (proc' = proc /\ st = proc[p].stage) \/ proc' = [proc EXCEPT ![p].stage = st]
        /\ kind = "codex" => \/ st = "turn" /\ proc[p].stage = "turn"
                             \/ st = "failed" /\ HasTerminal(td)
    BY <2>1
  <2> HIDE DEF td, st
  <2> QED
    BY <1>1, <2>2, <2>3, <2>4, CliPlainLine
<1>6. CASE HandleToolUse(p)
  <2> DEFINE st == "turn"
  <2>1. /\ kind = "opencode" /\ UNCHANGED proc /\ proc[p].stage = "turn"
        /\ \E completed \in BOOLEAN :
              todo' = [todo EXCEPT ![p] = <<Put("tool_use")>>
                                   \o (IF completed THEN <<Put("tool_result")>> ELSE <<>>)]
    BY <1>6, Zenon DEF HandleToolUse, Says
  <2>2. PICK completed \in BOOLEAN :
              todo' = [todo EXCEPT ![p] = <<Put("tool_use")>>
                                   \o (IF completed THEN <<Put("tool_result")>> ELSE <<>>)]
    BY <2>1
  <2> DEFINE td == IF completed THEN <<Put("tool_use"), Put("tool_result")>>
                   ELSE <<Put("tool_use")>>
  <2>3. todo' = [todo EXCEPT ![p] = td]
    <3>1. /\ <<Put("tool_use")>> \o <<Put("tool_result")>> = <<Put("tool_use"), Put("tool_result")>>
          /\ <<Put("tool_use")>> \o <<>> = <<Put("tool_use")>>
      BY CliPair, Zenon
    <3> QED
      BY <2>2, <3>1
  <2>4. td \in Seq(Instrs) /\ AllPlain(td) /\ st \in Stages
    <3>1. /\ <<Put("tool_use")>> \in Seq(Instrs) /\ AllPlain(<<Put("tool_use")>>)
          /\ <<Put("tool_use"), Put("tool_result")>> \in Seq(Instrs)
          /\ AllPlain(<<Put("tool_use"), Put("tool_result")>>)
      BY <1>e, CliPlainLists, Zenon
    <3> QED
      BY <1>s, <3>1
  <2>5. /\ (proc' = proc /\ st = proc[p].stage) \/ proc' = [proc EXCEPT ![p].stage = st]
        /\ kind = "codex" => \/ st = "turn" /\ proc[p].stage = "turn"
                             \/ st = "failed" /\ HasTerminal(td)
    BY <2>1
  <2> HIDE DEF td, st
  <2> QED
    BY <1>1, <2>3, <2>4, <2>5, CliPlainLine
<1> QED
  BY <1>3, <1>4, <1>5, <1>6

(* A tool starts: the held texts were thinking.                            *)
LEMMA CliItemStarted ==
    ASSUME CliInv, NEW p \in Prompts, ItemStarted(p),
           UNCHANGED <<kind, cancelled, sending, loop, told, alone, reported>>
    PROVE  CliInv'
<1> DEFINE sd == [i \in DOMAIN said[p] |-> [said[p][i] EXCEPT !.as = "thinking"]]
           st == "turn"
<1>1. /\ kind = "codex" /\ loop[p] = "reading" /\ todo[p] = <<>> /\ UNCHANGED <<proc, pendingMsgs>>
      /\ proc[p].stage = "turn"
      /\ said' = [said EXCEPT ![p] = sd]
      /\ \E announced \in BOOLEAN :
            todo' = [todo EXCEPT ![p] = <<Flush("thinking")>>
                                         \o (IF announced THEN <<Put("tool_use")>> ELSE <<>>)]
  BY Zenon DEF ItemStarted, Says
<1>2. PICK announced \in BOOLEAN :
            todo' = [todo EXCEPT ![p] = <<Flush("thinking")>>
                                         \o (IF announced THEN <<Put("tool_use")>> ELSE <<>>)]
  BY <1>1
<1>3. CliTypes
  BY CliInvParts
<1> DEFINE td == IF announced THEN <<Flush("thinking"), Put("tool_use")>> ELSE <<Flush("thinking")>>
<1>4. todo' = [todo EXCEPT ![p] = td]
  <2>1. /\ <<Flush("thinking")>> \o <<Put("tool_use")>> = <<Flush("thinking"), Put("tool_use")>>
        /\ <<Flush("thinking")>> \o <<>> = <<Flush("thinking")>>
    BY CliPair, Zenon
  <2> QED
    BY <1>2, <2>1
<1>5. /\ td \in Seq(Instrs) /\ 1 \in DOMAIN td /\ td[1] = Flush("thinking")
      /\ \A i \in DOMAIN td : i # 1 => Plain(td[i])
  <2>1. Flush("thinking") \in Instrs /\ Put("tool_use") \in Instrs /\ Plain(Put("tool_use"))
    <3>1. "thinking" \in Classes /\ "tool_use" \in Events
      BY DEF Classes, Events
    <3> QED
      BY <3>1, CliInstrs, Zenon
  <2>2. CASE announced
    <3> DEFINE f == <<Flush("thinking"), Put("tool_use")>>
    <3>1. f \in Seq(Instrs) /\ DOMAIN f = 1..2 /\ f[1] = Flush("thinking") /\ f[2] = Put("tool_use")
      BY <2>1
    <3>2. td = f
      BY <2>2
    <3> HIDE DEF f, td
    <3> QED
      BY <2>1, <3>1, <3>2
  <2>3. CASE ~announced
    <3> DEFINE f == <<Flush("thinking")>>
    <3>1. f \in Seq(Instrs) /\ DOMAIN f = 1..1 /\ f[1] = Flush("thinking")
      BY <2>1
    <3>2. td = f
      BY <2>3
    <3> HIDE DEF f, td
    <3> QED
      BY <3>1, <3>2
  <2> QED
    BY <2>2, <2>3
<1>6. /\ said[p] \in Seq(Entries) /\ told[p] \in Seq(Entries) /\ pendingMsgs \in Seq(Texts)
      /\ pendingMsgs' \in Seq(Texts)
  BY <1>1, <1>3 DEF CliTypes
<1>7. /\ sd \in Seq(Entries) /\ Len(sd) = Len(said[p])
      /\ \A i \in 1..Len(said[p]) : sd[i] = [text |-> said[p][i].text, as |-> "thinking"]
  <2>1. \A e \in Entries : /\ [e EXCEPT !.as = "thinking"] = [text |-> e.text, as |-> "thinking"]
                           /\ [e EXCEPT !.as = "thinking"] \in Entries
    BY DEF Entries, Classes
  <2>2. Len(said[p]) \in Nat /\ DOMAIN said[p] = 1..Len(said[p])
        /\ \A i \in 1..Len(said[p]) : said[p][i] \in Entries
    BY <1>6
  <2>3. sd = [i \in 1..Len(said[p]) |-> [said[p][i] EXCEPT !.as = "thinking"]]
    BY <2>2
  <2>4. sd \in [1..Len(said[p]) -> Entries]
    BY <2>1, <2>2, <2>3
  <2>5. sd \in Seq(Entries) /\ Len(sd) = Len(said[p])
    BY <2>2, <2>4, CliSequence
  <2>6. \A i \in 1..Len(said[p]) : sd[i] = [said[p][i] EXCEPT !.as = "thinking"]
    BY <2>3
  <2> HIDE DEF sd
  <2>7. \A i \in 1..Len(said[p]) : sd[i] = [text |-> said[p][i].text, as |-> "thinking"]
    BY <2>1, <2>2, <2>6
  <2> QED
    BY <2>5, <2>7
<1> HIDE DEF sd, td
<1>8. ~cancelled /\ alone[p] =>
         /\ \A i \in DOMAIN told[p] : told[p][i].as = "thinking"
         /\ Unflushed(td, sd, told[p], pendingMsgs', "thinking")
  <2> HAVE ~cancelled /\ alone[p]
  <2>1. /\ \A i \in DOMAIN told[p] : told[p][i].as = "thinking"
        /\ said[p] = told[p] \o Held(pendingMsgs, "text")
    BY <1>1, CliIdle
  <2>2. sd = told[p] \o Held(pendingMsgs, "thinking")
    <3>1. Len(said[p]) \in Nat /\ DOMAIN said[p] = 1..Len(said[p])
      BY <1>6
    <3>2. \A i \in 1..Len(said[p]) : sd[i] = [text |-> said[p][i].text, as |-> "thinking"]
      BY <1>7
    <3> DEFINE old == said[p]
               tl == told[p]
    <3>3. old \in Seq(Entries) /\ tl \in Seq(Entries) /\ sd \in Seq(Entries)
      BY <1>6, <1>7
    <3>4. /\ old = tl \o Held(pendingMsgs, "text")
          /\ \A i \in DOMAIN tl : tl[i].as = "thinking"
          /\ Len(sd) = Len(old)
          /\ \A i \in 1..Len(old) : sd[i] = [text |-> old[i].text, as |-> "thinking"]
      BY <1>7, <2>1, <3>2
    <3>5. pendingMsgs \in Seq(Texts)
      BY <1>6
    <3> HIDE DEF old, tl
    <3>6. sd = tl \o Held(pendingMsgs, "thinking")
      <4>1. Reclasses(old, sd, tl, pendingMsgs)
        BY <3>3, <3>4, <3>5, Zenon DEF Reclasses
      <4> QED
        BY <4>1, CliReclassed
    <3> QED
      BY <3>6 DEF tl
  <2> QED
    BY <1>1, <1>5, <2>1, <2>2, Zenon DEF Unflushed
<1>9. /\ ~cancelled /\ kind = "codex" =>
             CodexOwes(td, sd, told[p], pendingMsgs', st, "reading", alone[p])
      /\ ~cancelled /\ kind = "opencode" => OpenCodeOwes(td, sd, told[p])
      /\ kind = "codex" /\ st \in {"completed", "failed"} => HasTerminal(td) \/ st = proc[p].stage
      /\ (proc' = proc /\ st = proc[p].stage) \/ proc' = [proc EXCEPT ![p].stage = st]
  BY <1>1, <1>8 DEF CodexOwes
<1>10. st \in Stages
  BY DEF Stages
<1> HIDE DEF st
<1>11. loop[p] = "reading" /\ todo[p] = <<>> /\ said' = [said EXCEPT ![p] = sd]
  BY <1>1
<1> QED
  BY <1>4, <1>5, <1>6, <1>7, <1>9, <1>10, <1>11, CliLine

(* The turn completes: the held texts were the answer.                     *)
LEMMA CliTurnCompleted ==
    ASSUME CliInv, NEW p \in Prompts, TurnCompleted(p),
           UNCHANGED <<kind, cancelled, sending, loop, told, alone, reported>>
    PROVE  CliInv'
<1> DEFINE sd == said[p]
           st == "completed"
<1>1. /\ kind = "codex" /\ loop[p] = "reading" /\ todo[p] = <<>> /\ UNCHANGED <<said, pendingMsgs>>
      /\ proc[p].stage = "turn" /\ proc' = [proc EXCEPT ![p].stage = st]
      /\ \E found \in BOOLEAN :
            todo' = [todo EXCEPT ![p] = RefreshContextUsage(found)
                                         \o <<Flush("text"), Put("result")>>]
  BY Zenon DEF TurnCompleted, Reads
<1>2. PICK found \in BOOLEAN :
            todo' = [todo EXCEPT ![p] = RefreshContextUsage(found)
                                         \o <<Flush("text"), Put("result")>>]
  BY <1>1
<1>3. CliTypes
  BY CliInvParts
<1> DEFINE td == RefreshContextUsage(found) \o <<Flush("text"), Put("result")>>
<1>4. /\ td \in Seq(Instrs) /\ HasTerminal(td)
      /\ \E f \in DOMAIN td : /\ td[f] = Flush("text")
                              /\ \A i \in DOMAIN td : i # f => Plain(td[i])
  <2> DEFINE a == Put("usage")
             b == Flush("text")
             c == Put("result")
             end == <<b, c>>
  <2>1. /\ a \in Instrs /\ b \in Instrs /\ c \in Instrs /\ Plain(a) /\ Plain(c)
        /\ c.op = "send" /\ c.event \in Terminal
    <3>1. "text" \in Classes /\ "usage" \in Events /\ "result" \in Events /\ "result" \in Terminal
      BY DEF Classes, Events, Terminal
    <3> QED
      BY <3>1, CliInstrs, ZenonT(60)
  <2> HIDE DEF a, b, c
  <2>2. end \in Seq(Instrs) /\ Len(end) = 2 /\ end[1] = b /\ end[2] = c
    BY <2>1
  <2> HIDE DEF end
  <2>3. CASE found
    <3>1. td = <<a>> \o end
      BY <2>3 DEF RefreshContextUsage, a, b, c, end
    <3>2. <<a>> \in Seq(Instrs) /\ Len(<<a>>) = 1 /\ <<a>>[1] = a
      BY <2>1
    <3> DEFINE start == <<a>>
    <3> HIDE DEF start, td
    <3>3. /\ td \in Seq(Instrs) /\ Len(td) = 3 /\ td[1] = a /\ td[2] = b /\ td[3] = c
      <4>1. start \in Seq(Instrs) /\ Len(start) = 1 /\ start[1] = a /\ td = start \o end
        BY <3>1, <3>2 DEF start
      <4>2. /\ start \o end \in Seq(Instrs) /\ Len(start \o end) = Len(start) + Len(end)
            /\ \A i \in 1..Len(start) : (start \o end)[i] = start[i]
            /\ \A i \in 1..Len(end) : (start \o end)[Len(start) + i] = end[i]
        <5>1. start \in Seq(Instrs) /\ end \in Seq(Instrs)
          BY <2>2, <4>1
        <5> QED
          BY <5>1, CliJoin
      <4>3. td \in Seq(Instrs) /\ Len(td) = 1 + 2
        BY <2>2, <4>1, <4>2
      <4>4. 1 \in 1..1 /\ 1 \in 1..2 /\ 2 \in 1..2
        OBVIOUS
      <4>5. td[1] = start[1] /\ td[1 + 1] = end[1] /\ td[1 + 2] = end[2]
        BY <2>2, <4>1, <4>2, <4>4
      <4> QED
        BY <2>2, <4>1, <4>3, <4>5
    <3>4. DOMAIN td = 1..3
      BY <3>3
    <3>5. 2 \in DOMAIN td /\ 3 \in DOMAIN td /\ \A i \in DOMAIN td : i # 2 => i = 1 \/ i = 3
      BY <3>4
    <3>6. \A i \in DOMAIN td : i # 2 => Plain(td[i])
      BY <2>1, <3>3, <3>5
    <3>7. HasTerminal(td)
      BY <2>1, <3>3, <3>5 DEF HasTerminal
    <3> QED
      BY <3>3, <3>5, <3>6, <3>7 DEF b
  <2>4. CASE ~found
    <3>1. td = <<>> \o end
      BY <2>4 DEF RefreshContextUsage, a, b, c, end
    <3> HIDE DEF td
    <3>2. td = end
      BY <2>2, <3>1
    <3>3. td \in Seq(Instrs) /\ Len(td) = 2 /\ td[1] = b /\ td[2] = c
      BY <2>2, <3>2
    <3>4. DOMAIN td = 1..2
      BY <3>3
    <3>5. 1 \in DOMAIN td /\ 2 \in DOMAIN td /\ \A i \in DOMAIN td : i # 1 => i = 2
      BY <3>4
    <3>6. \A i \in DOMAIN td : i # 1 => Plain(td[i])
      BY <2>1, <3>3, <3>5
    <3>7. HasTerminal(td)
      BY <2>1, <3>3, <3>5 DEF HasTerminal
    <3> QED
      BY <3>3, <3>5, <3>6, <3>7 DEF b
  <2> QED
    BY <2>3, <2>4
<1>5. todo' = [todo EXCEPT ![p] = td]
  BY <1>2
<1> HIDE DEF td
<1>6. sd \in Seq(Entries) /\ said' = [said EXCEPT ![p] = sd] /\ pendingMsgs' \in Seq(Texts)
  BY <1>1, <1>3 DEF CliTypes
<1>7. ~cancelled /\ alone[p] => sd = told[p] \o Held(pendingMsgs', "text")
  BY <1>1, CliIdle
<1> HIDE DEF sd
<1>8. ~cancelled /\ alone[p] => Unflushed(td, sd, told[p], pendingMsgs', "text")
  BY <1>4, <1>7, Zenon DEF Unflushed
<1>9. /\ ~cancelled /\ kind = "codex" =>
             CodexOwes(td, sd, told[p], pendingMsgs', st, "reading", alone[p])
      /\ ~cancelled /\ kind = "opencode" => OpenCodeOwes(td, sd, told[p])
      /\ kind = "codex" /\ st \in {"completed", "failed"} => HasTerminal(td) \/ st = proc[p].stage
      /\ (proc' = proc /\ st = proc[p].stage) \/ proc' = [proc EXCEPT ![p].stage = st]
  BY <1>1, <1>4, <1>8 DEF CodexOwes
<1>10. st \in Stages
  BY DEF Stages
<1> HIDE DEF st
<1>11. loop[p] = "reading" /\ todo[p] = <<>>
  BY <1>1
<1> QED
  BY <1>4, <1>5, <1>6, <1>9, <1>10, <1>11, CliLine

(* opencode passes a text on.                                              *)
LEMMA CliPassesOn ==
    ASSUME CliInv, NEW p \in Prompts, NEW as \in Classes, PassesOn(p, as),
           UNCHANGED <<kind, cancelled, sending, loop, told, alone, reported>>
    PROVE  CliInv'
<1> DEFINE x == <<p, Len(said[p]) + 1>>
           e == [text |-> x, as |-> as]
           st == "turn"
           td == <<PutText(as, x)>>
           sd == Append(said[p], e)
<1>1. /\ kind = "opencode" /\ loop[p] = "reading" /\ todo[p] = <<>> /\ UNCHANGED <<pendingMsgs, proc>>
      /\ proc[p].stage = st
      /\ todo' = [todo EXCEPT ![p] = td]
      /\ said' = [said EXCEPT ![p] = sd]
  BY Zenon DEF PassesOn, Says
<1>2. CliTypes
  BY CliInvParts
<1>3. said[p] \in Seq(Entries) /\ told[p] \in Seq(Entries) /\ pendingMsgs' \in Seq(Texts)
  BY <1>1, <1>2 DEF CliTypes
<1>4. x \in Texts /\ e \in Entries
  <2>1. Len(said[p]) + 1 \in Nat
    BY <1>3
  <2>2. x \in Texts
    BY <2>1 DEF Texts
  <2> QED
    BY <2>2 DEF Entries
<1> HIDE DEF x
<1>5. PutText(as, x) \in Instrs
  BY <1>4, CliInstrs, Zenon
<1>6. td \in Seq(Instrs)
  <2>1. \A y \in Instrs : <<y>> \in Seq(Instrs)
    OBVIOUS
  <2> QED
    BY <1>5, <2>1, Zenon
<1>7. ~cancelled => OpenCodeOwes(td, sd, told[p])
  <2> HAVE ~cancelled
  <2>1. said[p] = told[p]
    BY <1>1, CliIdle
  <2>2. td = <<PutText(as, x)>> /\ sd = Append(told[p], [text |-> x, as |-> as])
    BY <2>1
  <2> QED
    BY <1>4, <2>2, Zenon DEF OpenCodeOwes
<1> HIDE DEF e
<1>8. sd \in Seq(Entries) /\ st \in Stages
  BY <1>3, <1>4 DEF Stages
<1>9. /\ ~cancelled /\ kind = "codex" =>
             CodexOwes(td, sd, told[p], pendingMsgs', st, "reading", alone[p])
      /\ ~cancelled /\ kind = "opencode" => OpenCodeOwes(td, sd, told[p])
      /\ kind = "codex" /\ st \in {"completed", "failed"} => HasTerminal(td) \/ st = proc[p].stage
      /\ (proc' = proc /\ st = proc[p].stage) \/ proc' = [proc EXCEPT ![p].stage = st]
      /\ loop[p] = "reading" /\ todo[p] = <<>>
  BY <1>1, <1>7
<1>10. todo' = [todo EXCEPT ![p] = td] /\ said' = [said EXCEPT ![p] = sd]
  BY <1>1, Zenon
<1> HIDE DEF td, sd, st
<1> QED
  BY <1>3, <1>6, <1>8, <1>9, <1>10, CliLine

(* A line of the output of either CLI.                                     *)
LEMMA CliHandleEventKeeps ==
    ASSUME CliInv, NEW p \in Prompts, HandleEvent(p)
    PROVE  CliInv'
<1>1. UNCHANGED <<kind, cancelled, sending, loop, told, alone, reported>>
  BY Zenon DEF HandleEvent
<1>2. \/ ThreadStarted(p) \/ TurnStarted(p) \/ AgentMessage(p) \/ ItemStarted(p)
      \/ ItemCompleted(p) \/ TurnCompleted(p) \/ TurnFailed(p)
      \/ StepStart(p) \/ HandleText(p) \/ HandleReasoning(p)
      \/ HandleToolUse(p) \/ HandleError(p)
  BY Zenon DEF HandleEvent
<1>3. CASE HandleText(p) \/ HandleReasoning(p)
  <2>1. PICK as \in Classes : PassesOn(p, as)
    BY <1>3 DEF HandleText, HandleReasoning, Classes
  <2> QED
    BY <1>1, <2>1, CliPassesOn
<1> QED
  BY <1>1, <1>2, <1>3, CliThreadStarted, CliAgentMessage, CliItemStarted, CliTurnCompleted,
     CliPlainEvents, Zenon
-----------------------------------------------------------------------------
(* An instruction of a line.                                               *)
LEMMA CliWork ==
    ASSUME CliInv, NEW p \in Prompts, todo[p] # <<>>,
           UNCHANGED <<kind, cancelled, sending, proc, loop, said, alone>>,
           NEW td \in Seq(Instrs), NEW tl \in Seq(Entries),
           todo' = [todo EXCEPT ![p] = td], told' = [told EXCEPT ![p] = tl],
           reported' \in [Prompts -> BOOLEAN],
           \A q \in Prompts \ {p} : reported'[q] = reported[q],
           pendingMsgs' \in Seq(Texts),
           ~cancelled /\ kind = "codex" =>
              CodexOwes(td, said[p], tl, pendingMsgs', proc[p].stage, loop[p], alone[p]),
           ~cancelled /\ kind = "opencode" => OpenCodeOwes(td, said[p], tl),
           ~cancelled /\ (reported[p] \/ HasTerminal(todo[p])) => reported'[p] \/ HasTerminal(td)
    PROVE  CliInv'
<1>1. CliTypes /\ Order /\ (~cancelled => CliOwes(p) /\ CliReports(p))
  BY CliInvParts, Zenon
<1>2. /\ todo' \in [Prompts -> Seq(Instrs)] /\ todo'[p] = td
      /\ \A q \in Prompts \ {p} : todo'[q] = todo[q]
  BY <1>1 DEF CliTypes
<1>3. /\ told' \in [Prompts -> Seq(Entries)] /\ told'[p] = tl
      /\ \A q \in Prompts \ {p} : told'[q] = told[q]
  BY <1>1 DEF CliTypes
<1>5. CliTypes'
  BY <1>1, <1>2, <1>3 DEF CliTypes
<1>6. p \in Active /\ p \in Active' /\ sending[p] = "ended"
  BY <1>1 DEF Active, Order
<1>7. ASSUME ~cancelled PROVE CliOwes(p)' /\ CliReports(p)'
  <2>1. CliOwes(p)'
    BY <1>2, <1>3, <1>7 DEF CliOwes
  <2>2. CliReports(p)'
    BY <1>1, <1>2, <1>7 DEF CliReports
  <2> QED
    BY <2>1, <2>2
<1>8. \A q \in Prompts \ {p} :
         /\ todo'[q] = todo[q] /\ said'[q] = said[q] /\ told'[q] = told[q]
         /\ proc'[q].stage = proc[q].stage /\ loop'[q] = loop[q]
         /\ sending'[q] = sending[q] /\ reported'[q] = reported[q]
  BY <1>2, <1>3
<1> QED
  BY <1>5, <1>6, <1>7, <1>8, CliFrame

(* A send that went through.                                               *)
LEMMA CliSends ==
    ASSUME CliInv, NEW p \in Prompts, Sends(p),
           UNCHANGED <<kind, cancelled, sending, proc, loop, said, alone>>
    PROVE  CliInv'
<1> DEFINE next == Head(todo[p])
           entry == [text |-> next.text, as |-> next.event]
           td == Tail(todo[p])
           tl == IF next.text = <<>> THEN told[p] ELSE Append(told[p], entry)
<1>1. /\ todo[p] # <<>> /\ next.op = "send"
      /\ todo' = [todo EXCEPT ![p] = td]
      /\ told' = IF next.text = <<>> THEN told
                 ELSE [told EXCEPT ![p] = Append(@, entry)]
      /\ reported' = [reported EXCEPT ![p] = @ \/ next.event \in Terminal]
      /\ UNCHANGED pendingMsgs
  BY Zenon DEF Sends
<1>2. CliTypes /\ (~cancelled => CliOwes(p))
  BY CliInvParts, Zenon
<1>3. /\ todo[p] \in Seq(Instrs) /\ told[p] \in Seq(Entries) /\ said[p] \in Seq(Entries)
      /\ pendingMsgs \in Seq(Texts) /\ pendingMsgs' \in Seq(Texts)
      /\ told \in [Prompts -> Seq(Entries)]
  BY <1>1, <1>2 DEF CliTypes
<1>4. td \in Seq(Instrs) /\ next \in Instrs
  BY <1>1, <1>3, CliHead
<1>5. tl \in Seq(Entries)
  <2>1. next.text # <<>> => entry \in Entries
    BY <1>4 DEF Instrs, Entries
  <2> HIDE DEF entry, next
  <2> QED
    BY <1>3, <2>1
<1>6. told' = [told EXCEPT ![p] = tl]
  <2>1. CASE next.text = <<>>
    BY <1>1, <1>3, <2>1
  <2>2. CASE next.text # <<>>
    BY <1>1, <2>2
  <2> QED
    BY <2>1, <2>2
<1>7. /\ reported' \in [Prompts -> BOOLEAN]
      /\ \A q \in Prompts \ {p} : reported'[q] = reported[q]
      /\ reported'[p] <=> reported[p] \/ next.event \in Terminal
  <2>1. reported \in [Prompts -> BOOLEAN]
    BY <1>2 DEF CliTypes
  <2>2. PICK b \in BOOLEAN : b <=> (reported[p] \/ next.event \in Terminal)
    OBVIOUS
  <2>3. (reported[p] \/ next.event \in Terminal) \in BOOLEAN
    BY Zenon
  <2> HIDE DEF next
  <2> QED
    BY <1>1, <2>1, <2>3, Zenon
<1> DEFINE sent(as) ==
        /\ AllPlain(todo[p]) => AllPlain(td) /\ tl = told[p]
        /\ Unflushed(todo[p], said[p], told[p], pendingMsgs, as) =>
              Unflushed(td, said[p], tl, pendingMsgs, as) /\ tl = told[p]
        /\ Flushing(todo[p], said[p], told[p], as) =>
              /\ Flushing(td, said[p], tl, as)
              /\ next.text # <<>> /\ next.event = as
<1>8. sent("text") /\ sent("thinking")
  <2>1. "text" \in Classes /\ "thinking" \in Classes
    BY DEF Classes
  <2>2. ASSUME NEW as \in Classes PROVE sent(as)
    <3> DEFINE old == todo[p]
               sd == said[p]
               was == told[p]
    <3>1. /\ tl = Telling(old, was)
          /\ old # <<>> /\ Head(old).op = "send"
          /\ old \in Seq(Instrs) /\ sd \in Seq(Entries) /\ was \in Seq(Entries)
      BY <1>1, <1>3 DEF Telling
    <3>2. pendingMsgs \in Seq(Texts)
      BY <1>3
    <3>3. td = Tail(old) /\ next = Head(old)
      OBVIOUS
    <3> HIDE DEF old, sd, was, tl, next, td
    <3>4. /\ AllPlain(old) => AllPlain(Tail(old)) /\ tl = was
          /\ Unflushed(old, sd, was, pendingMsgs, as) =>
                Unflushed(Tail(old), sd, tl, pendingMsgs, as) /\ tl = was
          /\ Flushing(old, sd, was, as) =>
                /\ Flushing(Tail(old), sd, tl, as)
                /\ Head(old).text # <<>> /\ Head(old).event = as
      BY <3>1, <3>2, CliSendOwes
    <3> QED
      BY <3>3, <3>4 DEF old, sd, was
  <2> HIDE DEF sent
  <2> QED
    BY <2>1, <2>2
<1>9. ~cancelled /\ kind = "codex" =>
        CodexOwes(td, said[p], tl, pendingMsgs', proc[p].stage, loop[p], alone[p])
  <2> HAVE ~cancelled /\ kind = "codex"
  <2>1. CodexOwes(todo[p], said[p], told[p], pendingMsgs, proc[p].stage, loop[p], alone[p])
    BY <1>2, Zenon DEF CliOwes
  <2>2. /\ AllPlain(todo[p]) => AllPlain(td) /\ tl = told[p]
        /\ \A as \in {"text", "thinking"} :
              /\ Unflushed(todo[p], said[p], told[p], pendingMsgs, as) =>
                    Unflushed(td, said[p], tl, pendingMsgs, as) /\ tl = told[p]
              /\ Flushing(todo[p], said[p], told[p], as) => Flushing(td, said[p], tl, as)
    BY <1>8
  <2>3. Flushing(todo[p], said[p], told[p], "thinking") =>
           tl = Append(told[p], [text |-> next.text, as |-> "thinking"])
    BY <1>8
  <2>4. Flushing(todo[p], said[p], told[p], "thinking")
        /\ (\A i \in DOMAIN told[p] : told[p][i].as = "thinking")
        => \A i \in DOMAIN tl : tl[i].as = "thinking"
    <3> DEFINE x == [text |-> next.text, as |-> "thinking"]
    <3> HAVE /\ Flushing(todo[p], said[p], told[p], "thinking")
             /\ \A i \in DOMAIN told[p] : told[p][i].as = "thinking"
    <3>1. tl = Append(told[p], x) /\ x.as = "thinking"
      BY <2>3
    <3> HIDE DEF x, tl
    <3>2. /\ DOMAIN tl = 1..(Len(told[p]) + 1) /\ DOMAIN told[p] = 1..Len(told[p])
          /\ tl[Len(told[p]) + 1] = x /\ \A i \in 1..Len(told[p]) : tl[i] = told[p][i]
      BY <1>3, <3>1
    <3>3. Len(told[p]) \in Nat
      BY <1>3
    <3>4. \A i \in DOMAIN tl : i \in DOMAIN told[p] \/ i = Len(told[p]) + 1
      BY <3>2, <3>3
    <3> QED
      BY <3>1, <3>2, <3>4
  <2>5. pendingMsgs' = pendingMsgs
    BY <1>1
  <2> HIDE DEF tl, td, sent
  <2>6. /\ proc[p].stage \in {"none", "new", "thread"} =>
              said[p] = <<>> /\ tl = <<>> /\ AllPlain(td)
    BY <2>1, <2>2 DEF CodexOwes
  <2>7. proc[p].stage = "turn" /\ loop[p] = "reading" /\ alone[p] =>
          /\ \A i \in DOMAIN tl : tl[i].as = "thinking"
          /\ \/ Untold(td, said[p], tl, pendingMsgs)
             \/ Unflushed(td, said[p], tl, pendingMsgs, "thinking")
             \/ Flushing(td, said[p], tl, "thinking")
    BY <2>1, <2>2, <2>4 DEF CodexOwes, Untold
  <2>8. proc[p].stage = "completed" /\ alone[p] =>
          \/ AllPlain(td) /\ said[p] = tl
          \/ loop[p] = "reading" /\ Unflushed(td, said[p], tl, pendingMsgs, "text")
          \/ loop[p] = "reading" /\ Flushing(td, said[p], tl, "text")
    BY <2>1, <2>2 DEF CodexOwes
  <2> QED
    BY <2>5, <2>6, <2>7, <2>8, Zenon DEF CodexOwes
<1>10. ~cancelled /\ kind = "opencode" => OpenCodeOwes(td, said[p], tl)
  <2> HAVE ~cancelled /\ kind = "opencode"
  <2>1. OpenCodeOwes(todo[p], said[p], told[p])
    BY <1>2, Zenon DEF CliOwes
  <2>2. CASE AllPlain(todo[p]) /\ said[p] = told[p]
    BY <1>8, <2>2 DEF OpenCodeOwes
  <2>3. CASE \E x \in Texts, as \in Classes :
                todo[p] = <<PutText(as, x)>> /\ said[p] = Append(told[p], [text |-> x, as |-> as])
    <3>1. PICK x \in Texts, as \in Classes :
                todo[p] = <<PutText(as, x)>> /\ said[p] = Append(told[p], [text |-> x, as |-> as])
      BY <2>3
    <3>2. PutText(as, x).event = as /\ PutText(as, x).text = x /\ x # <<>>
      <4>1. x # <<>>
        <5>1. \A y \in Texts : y # <<>>
          BY DEF Texts
        <5> QED
          BY <5>1, Zenon
      <4> QED
        BY <4>1 DEF PutText
    <3>3. \A y : Head(<<y>>) = y /\ Tail(<<y>>) = <<>>
      OBVIOUS
    <3>4. next = PutText(as, x) /\ td = <<>>
      BY <3>1, <3>3
    <3>5. tl = said[p]
      BY <3>1, <3>2, <3>4
    <3> QED
      BY <3>4, <3>5, CliPlainLists DEF OpenCodeOwes
  <2> QED
    BY <2>1, <2>2, <2>3 DEF OpenCodeOwes
<1>11. ~cancelled /\ (reported[p] \/ HasTerminal(todo[p])) => reported'[p] \/ HasTerminal(td)
  BY <1>1, <1>3, <1>7, CliTerminalTail
<1>12. todo[p] # <<>> /\ todo' = [todo EXCEPT ![p] = td]
  BY <1>1
<1>13. \A q \in Prompts \ {p} : reported'[q] = reported[q]
  BY <1>7
<1>14. reported' \in [Prompts -> BOOLEAN] /\ pendingMsgs' \in Seq(Texts)
  BY <1>3, <1>7
<1> HIDE DEF td, tl, next, entry
<1> QED
  BY <1>4, <1>5, <1>6, <1>9, <1>10, <1>11, <1>12, <1>13, <1>14, CliWork

(* A flush begins.                                                         *)
LEMMA CliFlushes ==
    ASSUME CliInv, NEW p \in Prompts, Flushes(p),
           UNCHANGED <<kind, cancelled, sending, proc, loop, said, alone>>
    PROVE  CliInv'
<1> DEFINE old == todo[p]
           sd == said[p]
           tl == told[p]
           td == Spread(old, pendingMsgs)
<1>1. /\ old # <<>> /\ Head(old).op = "flush"
      /\ todo' = [todo EXCEPT ![p] = td]
      /\ UNCHANGED <<told, reported, pendingMsgs>>
  BY Zenon DEF Flushes, Spread
<1>2. CliTypes /\ (~cancelled => CliOwes(p))
  BY CliInvParts, Zenon
<1>3. /\ old \in Seq(Instrs) /\ tl \in Seq(Entries) /\ sd \in Seq(Entries)
      /\ pendingMsgs \in Seq(Texts) /\ pendingMsgs' \in Seq(Texts)
      /\ told' = [told EXCEPT ![p] = tl]
      /\ reported' \in [Prompts -> BOOLEAN]
  BY <1>1, <1>2 DEF CliTypes
<1>4. "text" \in Classes /\ "thinking" \in Classes
  BY DEF Classes
<1>5. ASSUME NEW as \in Classes
      PROVE  /\ td \in Seq(Instrs)
             /\ ~AllPlain(old) /\ ~Flushing(old, sd, tl, as)
             /\ \A x \in Texts : old # <<PutText(as, x)>>
             /\ Unflushed(old, sd, tl, pendingMsgs, as) => Flushing(td, sd, tl, as)
             /\ HasTerminal(old) => HasTerminal(td)
  <2> HIDE DEF old, sd, tl
  <2> QED
    BY <1>1, <1>3, CliFlushOwes
<1>6. td \in Seq(Instrs) /\ ~AllPlain(old) /\ (HasTerminal(old) => HasTerminal(td))
  BY <1>4, <1>5
<1>7. ~cancelled /\ kind = "codex" =>
        CodexOwes(td, sd, tl, pendingMsgs', proc[p].stage, loop[p], alone[p])
  <2> HAVE ~cancelled /\ kind = "codex"
  <2>1. CodexOwes(old, sd, tl, pendingMsgs, proc[p].stage, loop[p], alone[p])
    BY <1>2, Zenon DEF CliOwes
  <2>2. /\ ~Flushing(old, sd, tl, "thinking") /\ ~Flushing(old, sd, tl, "text")
        /\ Unflushed(old, sd, tl, pendingMsgs, "thinking") => Flushing(td, sd, tl, "thinking")
        /\ Unflushed(old, sd, tl, pendingMsgs, "text") => Flushing(td, sd, tl, "text")
    BY <1>4, <1>5, Zenon
  <2>3. pendingMsgs' = pendingMsgs
    BY <1>1
  <2> HIDE DEF old, sd, tl, td
  <2> QED
    BY <1>6, <2>1, <2>2, <2>3 DEF CodexOwes, Untold
<1>8. ~cancelled /\ kind = "opencode" => OpenCodeOwes(td, sd, tl)
  <2> HAVE ~cancelled /\ kind = "opencode"
  <2>1. OpenCodeOwes(old, sd, tl)
    BY <1>2, Zenon DEF CliOwes
  <2> QED
    BY <1>5, <1>6, <2>1, Zenon DEF OpenCodeOwes
<1>9. ~cancelled /\ (reported[p] \/ HasTerminal(old)) => reported'[p] \/ HasTerminal(td)
  BY <1>1, <1>6
<1>10. \A q \in Prompts \ {p} : reported'[q] = reported[q]
  BY <1>1
<1> HIDE DEF td
<1> QED
  BY <1>1, <1>3, <1>6, <1>7, <1>8, <1>9, <1>10, CliWork

(* A flush ends.                                                           *)
LEMMA CliClears ==
    ASSUME CliInv, NEW p \in Prompts, Clears(p),
           UNCHANGED <<kind, cancelled, sending, proc, loop, said, alone>>
    PROVE  CliInv'
<1> DEFINE old == todo[p]
           sd == said[p]
           tl == told[p]
           td == Tail(old)
<1>1. /\ old # <<>> /\ Head(old).op = "clear"
      /\ todo' = [todo EXCEPT ![p] = td]
      /\ pendingMsgs' = <<>>
      /\ UNCHANGED <<told, reported>>
  BY Zenon DEF Clears
<1>2. CliTypes /\ (~cancelled => CliOwes(p))
  BY CliInvParts, Zenon
<1>3. /\ old \in Seq(Instrs) /\ tl \in Seq(Entries) /\ sd \in Seq(Entries)
      /\ pendingMsgs \in Seq(Texts)
      /\ told' = [told EXCEPT ![p] = tl]
      /\ reported' \in [Prompts -> BOOLEAN]
  BY <1>1, <1>2 DEF CliTypes
<1>p. pendingMsgs' \in Seq(Texts)
  <2>1. <<>> \in Seq(Texts)
    OBVIOUS
  <2> QED
    BY <1>1, <2>1
<1>4. "text" \in Classes /\ "thinking" \in Classes
  BY DEF Classes
<1>5. ASSUME NEW as \in Classes
      PROVE  /\ ~AllPlain(old) /\ ~Unflushed(old, sd, tl, pendingMsgs, as)
             /\ \A x \in Texts : old # <<PutText(as, x)>>
             /\ Flushing(old, sd, tl, as) => AllPlain(td) /\ sd = tl
  <2> HIDE DEF old, sd, tl
  <2> QED
    BY <1>1, <1>3, CliClearOwes
<1>6. td \in Seq(Instrs) /\ ~AllPlain(old)
  <2>1. td \in Seq(Instrs)
    BY <1>1, <1>3, CliHead
  <2> QED
    BY <1>4, <1>5, <2>1
<1>7. ~cancelled /\ kind = "codex" =>
        CodexOwes(td, sd, tl, pendingMsgs', proc[p].stage, loop[p], alone[p])
  <2> HAVE ~cancelled /\ kind = "codex"
  <2>1. CodexOwes(old, sd, tl, pendingMsgs, proc[p].stage, loop[p], alone[p])
    BY <1>2, Zenon DEF CliOwes
  <2>2. /\ ~Unflushed(old, sd, tl, pendingMsgs, "thinking")
        /\ ~Unflushed(old, sd, tl, pendingMsgs, "text")
        /\ Flushing(old, sd, tl, "thinking") => AllPlain(td) /\ sd = tl
        /\ Flushing(old, sd, tl, "text") => AllPlain(td) /\ sd = tl
    BY <1>4, <1>5, Zenon
  <2>3. sd = sd \o Held(pendingMsgs', "text")
    <3>1. Held(pendingMsgs', "text") = <<>>
      BY <1>1 DEF Held
    <3> HIDE DEF sd
    <3> QED
      BY <1>3, <3>1, ConcatEmptySeq
  <2> HIDE DEF old, sd, tl, td
  <2>4. Flushing(old, sd, tl, "thinking") => Untold(td, sd, tl, pendingMsgs')
    BY <2>2, <2>3 DEF Untold
  <2> QED
    BY <1>6, <2>1, <2>2, <2>4, Zenon DEF CodexOwes, Untold
<1>8. ~cancelled /\ kind = "opencode" => OpenCodeOwes(td, sd, tl)
  <2> HAVE ~cancelled /\ kind = "opencode"
  <2>1. OpenCodeOwes(old, sd, tl)
    BY <1>2, Zenon DEF CliOwes
  <2> QED
    BY <1>5, <1>6, <2>1, Zenon DEF OpenCodeOwes
<1>9. ~cancelled /\ (reported[p] \/ HasTerminal(old)) => reported'[p] \/ HasTerminal(td)
  <2> HIDE DEF old, td
  <2>1. HasTerminal(old) => HasTerminal(Tail(old))
    BY <1>1, <1>3, CliTerminalTail
  <2> QED
    BY <1>1, <2>1 DEF td
<1>10. \A q \in Prompts \ {p} : reported'[q] = reported[q]
  BY <1>1
<1> HIDE DEF td
<1> QED
  BY <1>1, <1>3, <1>p, <1>6, <1>7, <1>8, <1>9, <1>10, CliWork

(* A set of numbers that is not empty has a least one.                     *)
LEMMA CliLeast ==
    ASSUME NEW I \in SUBSET Nat, I # {}
    PROVE  \E x \in I : \A y \in I : x <= y
<1>1. PICK x \in I : \A y \in I : ~(<<y, x>> \in OpToRel(<, Nat))
  BY WFMin, NatLessThanWellFounded
<1>2. \A y \in I : x <= y
  <2>1. ASSUME NEW y \in I, y < x PROVE FALSE
    <3>1. <<y, x>> \in Nat \X Nat
      OBVIOUS
    <3>2. <<y, x>> \in OpToRel(<, Nat)
      BY <2>1, <3>1 DEF OpToRel
    <3> QED
      BY <1>1, <3>2
  <2> QED
    BY <2>1
<1> QED
  BY <1>2

(* Once the context is cancelled nothing more is owed.                     *)
LEMMA CliGivesUp ==
    ASSUME CliInv, NEW p \in Prompts, GivesUp(p),
           UNCHANGED <<kind, cancelled, sending, proc, loop, said, alone>>
    PROVE  CliInv'
<1>1. CliTypes
  BY CliInvParts
<1>2. todo[p] \in Seq(Instrs) /\ told[p] \in Seq(Entries)
  BY <1>1 DEF CliTypes
<1>3. PICK td \in Seq(Instrs) : todo' = [todo EXCEPT ![p] = td]
  <2>1. PICK end : todo' = [todo EXCEPT ![p] =
                              IF end # 0 THEN SubSeq(todo[p], end + 1, Len(todo[p]))
                              ELSE IF Head(todo[p]).op = "flush" THEN Tail(todo[p]) ELSE <<>>]
                   /\ (end = 0 \/ end \in 1..Len(todo[p]))
    <3> DEFINE I == {i \in 1..Len(todo[p]) : todo[p][i].op = "clear"}
               end == IF I # {} THEN Min(I) ELSE 0
    <3>1. todo' = [todo EXCEPT ![p] =
                              IF end # 0 THEN SubSeq(todo[p], end + 1, Len(todo[p]))
                              ELSE IF Head(todo[p]).op = "flush" THEN Tail(todo[p]) ELSE <<>>]
      BY Zenon DEF GivesUp, SelectInSeq
    <3>2. end = 0 \/ end \in 1..Len(todo[p])
      <4>1. CASE I = {}
        BY <4>1
      <4>2. CASE I # {}
        <5>1. \E x \in I : \A y \in I : x <= y
          <6>1. I \subseteq Nat
            OBVIOUS
          <6> QED
            BY <4>2, <6>1, CliLeast
        <5>2. Min(I) \in I
          BY <5>1, Zenon DEF Min
        <5> QED
          BY <4>2, <5>2
      <4> QED
        BY <4>1, <4>2
    <3> HIDE DEF end
    <3> QED
      BY <3>1, <3>2
  <2>2. todo[p] # <<>> => Tail(todo[p]) \in Seq(Instrs)
    BY <1>2
  <2>3. \A e \in 1..Len(todo[p]) : SubSeq(todo[p], e + 1, Len(todo[p])) \in Seq(Instrs)
    BY <1>2
  <2>4. <<>> \in Seq(Instrs)
    OBVIOUS
  <2>5. todo[p] # <<>>
    BY Zenon DEF GivesUp
  <2> QED
    BY <2>1, <2>2, <2>3, <2>4, <2>5
<1>4. todo[p] # <<>> /\ cancelled /\ UNCHANGED <<told, reported, pendingMsgs>>
  BY Zenon DEF GivesUp
<1>5. CliTypes'
  <2>1. todo' \in [Prompts -> Seq(Instrs)]
    BY <1>1, <1>3 DEF CliTypes
  <2> QED
    BY <1>1, <1>4, <2>1 DEF CliTypes
<1>6. p \in Active /\ p \in Active' /\ sending[p] = "ended"
  BY <1>4, CliInvParts DEF Active, Order
<1>7. \A q \in Prompts \ {p} :
         /\ todo'[q] = todo[q] /\ said'[q] = said[q] /\ told'[q] = told[q]
         /\ proc'[q].stage = proc[q].stage /\ loop'[q] = loop[q]
         /\ sending'[q] = sending[q] /\ reported'[q] = reported[q]
  BY <1>1, <1>3, <1>4 DEF CliTypes
<1> QED
  BY <1>4, <1>5, <1>6, <1>7, CliFrame

(* The goroutine carries out an instruction of a line.                     *)
LEMMA CliWorksKeeps ==
    ASSUME CliInv, NEW p \in Prompts, Works(p)
    PROVE  CliInv'
<1>1. UNCHANGED <<kind, cancelled, sending, proc, loop, said, alone>>
  BY Zenon DEF Works
<1> QED
  BY <1>1, CliSends, CliFlushes, CliClears, CliGivesUp, Zenon DEF Works

(* The output ends; what is left to report is the end of the run.          *)
LEMMA CliOutputEndsKeeps ==
    ASSUME CliInv, NEW p \in Prompts, OutputEnds(p)
    PROVE  CliInv'
<1>1. /\ loop[p] = "reading" /\ todo[p] = <<>>
      /\ loop' = [loop EXCEPT ![p] = "waiting"] /\ Report(p)
      /\ UNCHANGED <<kind, cancelled, sending, proc, pendingMsgs, said, told, alone, reported>>
  BY Zenon DEF OutputEnds
<1>2. CliTypes /\ Order /\ (~cancelled => CliOwes(p) /\ CliReports(p))
  BY CliInvParts, Zenon
<1>3. PICK td \in Seq(Instrs) : /\ todo' = [todo EXCEPT ![p] = td] /\ AllPlain(td)
                                /\ kind = "opencode" => HasTerminal(td)
  <2>1. "error" \in Events /\ "result" \in Events /\ "error" \in Terminal /\ "result" \in Terminal
    BY DEF Events, Terminal
  <2>2. /\ <<>> \in Seq(Instrs) /\ AllPlain(<<>>)
        /\ <<Put("error")>> \in Seq(Instrs) /\ AllPlain(<<Put("error")>>)
        /\ <<Put("result")>> \in Seq(Instrs) /\ AllPlain(<<Put("result")>>)
        /\ HasTerminal(<<Put("error")>>) /\ HasTerminal(<<Put("result")>>)
    BY <2>1, CliPlainLists, Zenon
  <2>3. CASE /\ kind = "codex"
             /\ \E failed \in BOOLEAN :
                   todo' = [todo EXCEPT ![p] = IF failed /\ proc[p].stderr
                                               THEN <<Put("error")>> ELSE <<>>]
    <3>1. PICK failed \in BOOLEAN :
                   todo' = [todo EXCEPT ![p] = IF failed /\ proc[p].stderr
                                               THEN <<Put("error")>> ELSE <<>>]
      BY <2>3
    <3> DEFINE td == IF failed /\ proc[p].stderr THEN <<Put("error")>> ELSE <<>>
    <3>2. td \in Seq(Instrs) /\ AllPlain(td) /\ todo' = [todo EXCEPT ![p] = td]
      BY <2>2, <3>1
    <3> HIDE DEF td
    <3> QED
      BY <2>3, <3>2
  <2>4. CASE /\ kind = "opencode"
             /\ todo' = [todo EXCEPT ![p] = IF proc[p].stderr THEN <<Put("error")>>
                                            ELSE <<Put("result")>>]
    <3> DEFINE td == IF proc[p].stderr THEN <<Put("error")>> ELSE <<Put("result")>>
    <3>2. td \in Seq(Instrs) /\ AllPlain(td) /\ HasTerminal(td) /\ todo' = [todo EXCEPT ![p] = td]
      BY <2>2, <2>4
    <3> HIDE DEF td
    <3> QED
      BY <3>2
  <2> QED
    BY <1>1, <2>3, <2>4, Zenon DEF Report
<1>4. /\ todo' \in [Prompts -> Seq(Instrs)] /\ todo'[p] = td
      /\ \A q \in Prompts \ {p} : todo'[q] = todo[q]
  BY <1>2, <1>3 DEF CliTypes
<1>5. /\ loop' \in [Prompts -> {"none", "reading", "waiting", "done"}]
      /\ loop'[p] = "waiting" /\ \A q \in Prompts \ {p} : loop'[q] = loop[q]
  BY <1>1, <1>2 DEF CliTypes
<1>6. CliTypes'
  BY <1>1, <1>2, <1>4, <1>5 DEF CliTypes
<1>7. p \in Active /\ p \in Active' /\ sending[p] = "ended"
  BY <1>1, <1>2, <1>5 DEF Active, Order
<1>8. ASSUME ~cancelled PROVE CliOwes(p)' /\ CliReports(p)'
  <2>1. /\ \A sd, tl, held, as : ~Unflushed(todo[p], sd, tl, held, as)
        /\ \A sd, tl, as : ~Flushing(todo[p], sd, tl, as)
        /\ ~HasTerminal(todo[p])
    BY <1>1, CliNothingLeft
  <2>2. kind = "codex" =>
           CodexOwes(td, said[p], told[p], pendingMsgs, proc[p].stage, "waiting", alone[p])
    <3> HAVE kind = "codex"
    <3>1. CodexOwes(todo[p], said[p], told[p], pendingMsgs, proc[p].stage, "reading", alone[p])
      BY <1>1, <1>2, <1>8 DEF CliOwes
    <3> QED
      BY <1>3, <2>1, <3>1 DEF CodexOwes
  <2>3. kind = "opencode" => OpenCodeOwes(td, said[p], told[p])
    <3> HAVE kind = "opencode"
    <3>1. said[p] = told[p]
      BY <1>1, <1>8, CliIdle
    <3> QED
      BY <1>3, <3>1 DEF OpenCodeOwes
  <2>4. CliOwes(p)'
    BY <1>1, <1>4, <1>5, <2>2, <2>3 DEF CliOwes
  <2>5. CliReports(p)'
    BY <1>1, <1>2, <1>3, <1>4, <1>5, <1>8, <2>1 DEF CliReports, CliTypes
  <2> QED
    BY <2>4, <2>5
<1>9. \A q \in Prompts \ {p} :
         /\ todo'[q] = todo[q] /\ said'[q] = said[q] /\ told'[q] = told[q]
         /\ proc'[q].stage = proc[q].stage /\ loop'[q] = loop[q]
         /\ sending'[q] = sending[q] /\ reported'[q] = reported[q]
  BY <1>1, <1>4, <1>5
<1> QED
  BY <1>1, <1>6, <1>7, <1>8, <1>9, CliFrame

(* The goroutine ends after the process did.                               *)
LEMMA CliLoopEndsKeeps ==
    ASSUME CliInv, NEW p \in Prompts, LoopEnds(p)
    PROVE  CliInv'
<1>1. /\ loop[p] = "waiting" /\ todo[p] = <<>>
      /\ loop' = [loop EXCEPT ![p] = "done"]
      /\ UNCHANGED <<kind, cancelled, sending, proc, todo, pendingMsgs, said, told, alone, reported>>
  BY Zenon DEF LoopEnds
<1>2. CliTypes /\ Order /\ (~cancelled => CliOwes(p) /\ CliReports(p))
  BY CliInvParts, Zenon
<1>3. /\ loop' \in [Prompts -> {"none", "reading", "waiting", "done"}]
      /\ loop'[p] = "done" /\ \A q \in Prompts \ {p} : loop'[q] = loop[q]
  BY <1>1, <1>2 DEF CliTypes
<1>4. CliTypes'
  BY <1>1, <1>2, <1>3 DEF CliTypes
<1>5. p \in Active /\ p \notin Active' /\ sending[p] = "ended"
  BY <1>1, <1>2, <1>3 DEF Active, Order
<1>6. ASSUME ~cancelled PROVE CliOwes(p)' /\ CliReports(p)'
  <2>1. kind = "codex" =>
           CodexOwes(todo[p], said[p], told[p], pendingMsgs, proc[p].stage, "done", alone[p])
    BY <1>1, <1>2, <1>6 DEF CliOwes, CodexOwes
  <2>2. CliOwes(p)'
    BY <1>1, <1>2, <1>3, <1>6, <2>1 DEF CliOwes
  <2>3. CliReports(p)'
    BY <1>1, <1>2, <1>3, <1>6 DEF CliReports
  <2> QED
    BY <2>2, <2>3
<1>7. \A q \in Prompts \ {p} :
         /\ todo'[q] = todo[q] /\ said'[q] = said[q] /\ told'[q] = told[q]
         /\ proc'[q].stage = proc[q].stage /\ loop'[q] = loop[q]
         /\ sending'[q] = sending[q] /\ reported'[q] = reported[q]
  BY <1>1, <1>3
<1> QED
  BY <1>1, <1>4, <1>5, <1>6, <1>7, CliFrame

(* The processes, the consumer and Close.                                  *)
LEMMA CliOutsideKeeps ==
    ASSUME CliInv,
           \/ \E p \in Prompts : ProcEnds(p) \/ ChildEnds(p)
           \/ CliConsume
           \/ \E c \in CliClosers : CloseBegins(c) \/ CloseDone(c) \/ CloseForces(c) \/ CloseDefers(c)
           \/ UNCHANGED cliVars
    PROVE  CliInv'
<1>1. CliTypes
  BY CliInvParts
<1>2. cancelled' \in BOOLEAN /\ (cancelled => cancelled')
  <2>1. cancelled' = cancelled \/ cancelled' = TRUE
    BY Zenon
    DEF ProcEnds, ChildEnds, CliConsume, CloseBegins, CloseDone, CloseForces, CloseDefers,
       cliVars
  <2> QED
    BY <1>1, <2>1 DEF CliTypes
<1>3. UNCHANGED <<kind, loop, todo, pendingMsgs, said, told, alone, reported, sending>>
  BY Zenon
  DEF ProcEnds, ChildEnds, CliConsume, CloseBegins, CloseDone, CloseForces, CloseDefers,
     cliVars
<1>p. proc \in [Prompts -> Procs]
  BY <1>1 DEF CliTypes
<1>4. proc' \in [Prompts -> Procs] /\ \A q \in Prompts : proc'[q].stage = proc[q].stage
  <2>1. CASE \E p \in Prompts : ProcEnds(p)
    <3>1. PICK p \in Prompts, child \in BOOLEAN, err \in BOOLEAN :
              proc' = [proc EXCEPT ![p].up = FALSE, ![p].child = child, ![p].stderr = err]
      BY <2>1, Zenon DEF ProcEnds
    <3>2. proc[p] \in Procs
      BY <1>p
    <3> DEFINE n == [proc[p] EXCEPT !.up = FALSE, !.child = child, !.stderr = err]
    <3>3. n \in Procs /\ n.stage = proc[p].stage
      BY <3>2 DEF Procs
    <3>4. proc' = [proc EXCEPT ![p] = n]
      BY <1>p, <3>1
    <3> HIDE DEF n
    <3> QED
      BY <1>p, <3>3, <3>4
  <2>2. CASE \E p \in Prompts : ChildEnds(p)
    <3>1. PICK p \in Prompts : proc' = [proc EXCEPT ![p].child = FALSE]
      BY <2>2, Zenon DEF ChildEnds
    <3>2. proc[p] \in Procs
      BY <1>p
    <3> DEFINE n == [proc[p] EXCEPT !.child = FALSE]
    <3>3. n \in Procs /\ n.stage = proc[p].stage
      BY <3>2 DEF Procs
    <3>4. proc' = [proc EXCEPT ![p] = n]
      BY <1>p, <3>1
    <3> HIDE DEF n
    <3> QED
      BY <1>p, <3>3, <3>4
  <2>3. CASE \E c \in CliClosers : CloseForces(c)
    <3>1. proc' = [p \in Prompts |-> IF p \in Active
                                     THEN [proc[p] EXCEPT !.up = FALSE, !.child = FALSE]
                                     ELSE proc[p]]
      BY <2>3, Zenon DEF CloseForces, ForceKill
    <3>2. \A n \in Procs : /\ [n EXCEPT !.up = FALSE, !.child = FALSE] \in Procs
                           /\ [n EXCEPT !.up = FALSE, !.child = FALSE].stage = n.stage
      BY DEF Procs
    <3>3. \A p \in Prompts : proc[p] \in Procs
      BY <1>p
    <3> QED
      BY <3>1, <3>2, <3>3
  <2>4. CASE \/ CliConsume \/ UNCHANGED cliVars
             \/ \E c \in CliClosers : CloseBegins(c) \/ CloseDone(c) \/ CloseDefers(c)
    <3>1. proc' = proc
      BY <2>4, Zenon DEF CliConsume, CloseBegins, CloseDone, CloseDefers, cliVars
    <3> QED
      BY <1>p, <3>1
  <2> QED
    BY <2>1, <2>2, <2>3, <2>4, Zenon
<1>5. /\ sending' \in [Prompts -> {"idle", "checked", "started", "ended"}]
      /\ \A q \in Prompts : sending'[q] = sending[q] \/ sending[q] # "ended"
  BY <1>1, <1>3 DEF CliTypes
<1> QED
  BY <1>2, <1>3, <1>4, <1>5, CliAside

(* A session starts with nothing said and nothing told.                    *)
LEMMA CliStarts ==
    ASSUME CliInit
    PROVE  CliInv
<1>1. /\ kind \in Kinds /\ cancelled = FALSE
      /\ sending = [p \in Prompts |-> "idle"]
      /\ proc = [p \in Prompts |-> NoProc]
      /\ loop = [p \in Prompts |-> "none"]
      /\ todo = [p \in Prompts |-> <<>>]
      /\ pendingMsgs = <<>>
      /\ said = [p \in Prompts |-> <<>>] /\ told = [p \in Prompts |-> <<>>]
      /\ alone = [p \in Prompts |-> TRUE]
      /\ reported = [p \in Prompts |-> FALSE]
  BY Zenon DEF CliInit
<1>2. <<>> \in Seq(Instrs) /\ <<>> \in Seq(Texts) /\ <<>> \in Seq(Entries)
  OBVIOUS
<1>3. NoProc \in Procs /\ NoProc.stage = "none"
  BY DEF NoProc, Procs, Stages
<1>4. CliTypes
  BY <1>1, <1>2, <1>3, CliAssumption DEF CliTypes
<1>5. Order
  BY <1>1, <1>3 DEF Order, Active
<1>6. ASSUME NEW p \in Prompts PROVE CliOwes(p) /\ CliReports(p)
  <2>1. /\ todo[p] = <<>> /\ said[p] = <<>> /\ told[p] = <<>> /\ proc[p].stage = "none"
        /\ loop[p] = "none"
    BY <1>1, <1>3
  <2>2. AllPlain(todo[p])
    BY <2>1, CliPlainLists
  <2> QED
    BY <1>1, <1>4, <2>1, <2>2 DEF CliOwes, CliReports, CodexOwes, OpenCodeOwes, CliTypes
<1> QED
  BY <1>4, <1>5, <1>6, CliInvJoin

(* The invariant of the CLI sessions holds throughout.                     *)
LEMMA CliInvariant == CliSpec => []CliInv
<1>1. CliInv /\ [CliNext]_cliVars => CliInv'
  <2> SUFFICES ASSUME CliInv, [CliNext]_cliVars PROVE CliInv'
    OBVIOUS
  <2> QED
    BY CliCheckedKeeps, CliStartedKeeps, CliRegisteredKeeps, CliHandleEventKeeps, CliWorksKeeps,
       CliOutputEndsKeeps, CliLoopEndsKeeps, CliOutsideKeeps, Zenon DEF CliNext
<1> QED
  BY <1>1, CliStarts, PTL DEF CliSpec

(* Each text of a turn is told once, in order and in its class, for any    *)
(* number of messages, whatever was held before the turn.                  *)
THEOREM CliTurnTextExact == CliSpec => []TurnTextExact
<1>1. ASSUME CliInv PROVE TurnTextExact
  <2> SUFFICES ASSUME NEW p \in Prompts, loop[p] = "done", alone[p], ~cancelled,
                      kind = "codex" => proc[p].stage = "completed"
               PROVE  told[p] = said[p]
    BY DEF TurnTextExact
  <2>1. CliTypes /\ CliOwes(p) /\ Order
    BY <1>1, CliInvParts, Zenon
  <2>2. todo[p] = <<>>
    BY <2>1 DEF Order, Active
  <2>3. \A as, x : todo[p] # <<PutText(as, x)>>
    BY <2>2, CliNothingLeft
  <2>4. CASE kind = "codex"
    BY <2>1, <2>4 DEF CliOwes, CodexOwes
  <2>5. CASE kind = "opencode"
    BY <2>1, <2>3, <2>5 DEF CliOwes, OpenCodeOwes
  <2> QED
    BY <2>1, <2>4, <2>5 DEF CliTypes
<1> QED
  BY <1>1, CliInvariant, PTL

(* A goroutine that ended without a Close has told the end of its message. *)
THEOREM CliEveryRunReports == CliSpec => []EveryRunReports
<1>1. ASSUME CliInv PROVE EveryRunReports
  <2> SUFFICES ASSUME NEW p \in Prompts, loop[p] = "done", ~cancelled, ~reported[p]
               PROVE  kind = "codex" /\ proc[p].stage \notin {"completed", "failed"}
    BY DEF EveryRunReports
  <2>1. CliReports(p) /\ Order
    BY <1>1, CliInvParts, Zenon
  <2>2. todo[p] = <<>>
    BY <2>1 DEF Order, Active
  <2>3. ~HasTerminal(todo[p])
    BY <2>2, CliNothingLeft
  <2> QED
    BY <2>1, <2>3 DEF CliReports
<1> QED
  BY <1>1, CliInvariant, PTL
-----------------------------------------------------------------------------
(* The subscriptions to sessions others run (PassiveStream).               *)
Servers == {s \in [turn : 0..MaxTurns, busy : BOOLEAN, text : Seq(Nat), steps : Nat] : s.busy => s.turn > 0}

(* The messages of a server and the records of a subscription.             *)
MsgKinds == {"started", "delta", "snapshot", "other", "completed", "idle", "step"}
Msgs == [kind : MsgKinds, turn : 0..MaxTurns, text : Seq(Nat)]
Mems == [turn : 0..MaxTurns, content : Seq(Nat), saw : BOOLEAN, completed : BOOLEAN]
Subs == [ctx : BOOLEAN, conn : {"none", "up", "down"}, reader : {"none", "reading", "gone"},
         close : {"idle", "waiting", "deferred", "done"}]

(* From s the server sends the message m and is then at t.                 *)
Plays(s, m, t) ==
    CASE m.kind = "started" ->
            /\ ~s.busy /\ t.busy /\ t.turn = s.turn + 1 /\ t.text = <<>>
            /\ m.turn = t.turn
      [] m.kind = "delta" ->
            /\ s.busy /\ t.busy /\ t.turn = s.turn
            /\ t.text = Append(s.text, Len(s.text) + 1)
            /\ m.turn = t.turn /\ m.text = t.text
      [] m.kind = "snapshot" ->
            /\ agent = "opencode" /\ s.busy /\ t.busy /\ t.turn = s.turn
            /\ m.turn = t.turn /\ m.text = t.text
      [] m.kind = "completed" ->
            /\ s.busy /\ ~t.busy /\ t.turn = s.turn /\ t.text = s.text
            /\ m.turn = t.turn /\ m.text = t.text
      [] m.kind = "idle" ->
            /\ agent = "opencode" /\ ~s.busy /\ s.turn > 0 /\ t = s /\ m.turn = t.turn
      [] m.kind = "step" -> agent = "opencode" /\ t.busy = s.busy /\ t.turn = s.turn /\ t.text = s.text
      [] OTHER -> t = s

(* What an OpenCode subscriber holds when it has read up to s: the maps    *)
(* are about the turn that runs, or fresh, and what was told is what they  *)
(* hold.                                                                   *)
MapsTold(s) ==
    /\ s.busy => mem.turn \in {0, s.turn}
    /\ mem.turn = 0 => mem.content = <<>>
    /\ ~dropped => heard = mem.content
    /\ settled \subseteq {mem.content}

(* What a Codex subscriber has told when it has read up to s.              *)
DeltasTold(s) == ~missed /\ ~dropped /\ s.busy => heard = s.text

(* The ends a Codex subscriber was told are of turns the server has ended. *)
EndsTold(s) == \A t \in ended : t <= s.turn /\ (s.busy => t < s.turn)

(* What the subscriber holds, by agent.                                    *)
Hears(s) ==
    /\ agent = "opencode" => MapsTold(s)
    /\ agent = "codex" => DeltasTold(s) /\ EndsTold(s)

(* The messages on the way lead from what the subscriber has read to what  *)
(* the server does now, as long as the connection is up.                   *)
Delivers(h) ==
    /\ h \in [0..Len(net) -> Servers]
    /\ \A q \in 1..Len(net) : Plays(h[q - 1], net[q], h[q])
    /\ sub.conn = "up" => h[Len(net)] = server
    /\ Hears(h[0])

(* The types of what the proof speaks of.                                  *)
PassiveTypes ==
    /\ agent \in {"codex", "opencode"}
    /\ sub \in Subs /\ net \in Seq(Msgs) /\ server \in Servers /\ mem \in Mems
    /\ evq \in 0..PassiveCap /\ heard \in Seq(Nat) /\ dropped \in BOOLEAN /\ missed \in BOOLEAN
    /\ settled \subseteq Seq(Nat) /\ ended \subseteq 1..MaxTurns

(* The inductive invariant of a subscription.                              *)
PassiveInv ==
    /\ PassiveTypes /\ PassiveTextExact
    /\ \E h \in [0..Len(net) -> Servers] : Delivers(h)
-----------------------------------------------------------------------------
(* A step that touches neither the messages nor what was told.             *)
LEMMA PassiveAside ==
    ASSUME PassiveInv, sub' \in Subs, sub'.conn = "up" => sub.conn = "up",
           evq' \in 0..PassiveCap,
           UNCHANGED <<agent, net, server, mem, heard, dropped, missed, settled, ended>>
    PROVE  PassiveInv'
<1>1. PassiveTypes' /\ PassiveTextExact'
  BY DEF PassiveInv, PassiveTypes, PassiveTextExact
<1>2. PICK h \in [0..Len(net) -> Servers] : Delivers(h)
  BY DEF PassiveInv
<1>3. Hears(h[0])'
  BY <1>2 DEF Delivers, Hears, MapsTold, DeltasTold, EndsTold
<1>4. \A s, m, t : Plays(s, m, t)' <=> Plays(s, m, t)
  BY DEF Plays
<1>5. Delivers(h)'
  BY <1>2, <1>3, <1>4 DEF Delivers
<1> QED
  BY <1>1, <1>2, <1>5 DEF PassiveInv

(* The connection is lost or given up, with some of what was on the way.   *)
LEMMA PassiveCut ==
    ASSUME PassiveInv, NEW n \in 0..Len(net), net' = SubSeq(net, 1, n), sub' \in Subs,
           sub'.conn # "up",
           UNCHANGED <<agent, server, mem, evq, heard, dropped, missed, settled, ended>>
    PROVE  PassiveInv'
<1>0. net \in Seq(Msgs)
  BY DEF PassiveInv, PassiveTypes
<1>1. /\ net' \in Seq(Msgs) /\ Len(net') = n /\ n \in Nat
      /\ \A q \in 1..n : net'[q] = net[q]
  BY <1>0
<1>2. PassiveTypes' /\ PassiveTextExact'
  BY <1>1 DEF PassiveInv, PassiveTypes, PassiveTextExact
<1>3. PICK h \in [0..Len(net) -> Servers] : Delivers(h)
  BY DEF PassiveInv
<1> DEFINE g == [q \in 0..n |-> h[q]]
<1>4. g \in [0..Len(net') -> Servers] /\ \A q \in 0..n : g[q] = h[q]
  BY <1>0, <1>1
<1> HIDE DEF g
<1>5. \A q \in 1..n : Plays(g[q - 1], net'[q], g[q])
  <2> TAKE q \in 1..n
  <2>1. Plays(h[q - 1], net[q], h[q])
    BY <1>0, <1>3 DEF Delivers
  <2>2. q - 1 \in 0..n /\ q \in 0..n
    BY <1>1
  <2>3. net'[q] = net[q] /\ g[q - 1] = h[q - 1] /\ g[q] = h[q]
    BY <1>1, <1>4, <2>2
  <2> QED
    BY <2>1, <2>3
<1>6. Hears(g[0])'
  <2>0. 0 \in 0..n
    BY <1>1
  <2>1. g[0] = h[0]
    BY <1>4, <2>0
  <2> QED
    BY <1>3, <2>1 DEF Delivers, Hears, MapsTold, DeltasTold, EndsTold
<1>7. \A s, m, t : Plays(s, m, t)' <=> Plays(s, m, t)
  BY DEF Plays
<1>8. Delivers(g)'
  BY <1>1, <1>4, <1>5, <1>6, <1>7 DEF Delivers
<1> QED
  BY <1>2, <1>4, <1>8 DEF PassiveInv

(* The server goes on, and says so when the connection is up.              *)
LEMMA PassiveServer ==
    ASSUME PassiveInv, NEW m \in Msgs, ServerSends(m), server' \in Servers,
           Plays(server, m, server')
    PROVE  PassiveInv'
<1>0. net \in Seq(Msgs)
  BY DEF PassiveInv, PassiveTypes
<1>1. /\ IF sub.conn = "up" THEN net' = Append(net, m) ELSE net' = net
      /\ UNCHANGED <<agent, sub, mem, evq, heard, dropped, missed, settled, ended>>
  BY Zenon DEF ServerSends, toldVars, resultVars
<1>2. net' \in Seq(Msgs)
  BY <1>0, <1>1
<1>3. PassiveTypes' /\ PassiveTextExact'
  BY <1>1, <1>2 DEF PassiveInv, PassiveTypes, PassiveTextExact
<1>4. PICK h \in [0..Len(net) -> Servers] : Delivers(h)
  BY DEF PassiveInv
<1>5. \A s, k, t : Plays(s, k, t)' <=> Plays(s, k, t)
  BY <1>1 DEF Plays
<1>6. Hears(h[0])'
  BY <1>1, <1>4 DEF Delivers, Hears, MapsTold, DeltasTold, EndsTold
<1>7. CASE sub.conn # "up"
  <2>1. net' = net
    BY <1>1, <1>7
  <2>2. Delivers(h)'
    BY <1>1, <1>4, <1>5, <1>6, <1>7, <2>1 DEF Delivers
  <2> QED
    BY <1>3, <1>4, <2>1, <2>2 DEF PassiveInv
<1>8. CASE sub.conn = "up"
  <2>n. PICK n \in Nat : n = Len(net)
    BY <1>0
  <2>1. /\ net' = Append(net, m) /\ Len(net') = n + 1 /\ net'[n + 1] = m /\ n = Len(net)
        /\ \A q \in 1..n : net'[q] = net[q]
    BY <1>0, <1>1, <1>8, <2>n
  <2>2. PICK now \in Servers : now = server'
    OBVIOUS
  <2> DEFINE g == [q \in 0..(n + 1) |-> IF q = n + 1 THEN now ELSE h[q]]
  <2>3. /\ g \in [0..Len(net') -> Servers] /\ g[n + 1] = now
        /\ \A q \in 0..n : g[q] = h[q]
    BY <2>1, <2>2
  <2> HIDE DEF g
  <2>4. \A q \in 1..(n + 1) : Plays(g[q - 1], net'[q], g[q])
    <3> TAKE q \in 1..(n + 1)
    <3>1. CASE q = n + 1
      <4>1. g[q - 1] = server
        BY <1>4, <1>8, <2>1, <2>3, <3>1 DEF Delivers
      <4> QED
        BY <2>1, <2>2, <2>3, <3>1, <4>1
    <3>2. CASE q # n + 1
      <4>1. Plays(h[q - 1], net[q], h[q])
        BY <1>4, <2>1, <3>2 DEF Delivers
      <4>2. q - 1 \in 0..n /\ q \in 0..n /\ q \in 1..n
        BY <2>1, <3>2
      <4> QED
        BY <2>1, <2>3, <4>1, <4>2
    <3> QED
      BY <3>1, <3>2
  <2>5. Hears(g[0])'
    <3>1. g[0] = h[0]
      BY <2>1, <2>3
    <3> QED
      BY <1>6, <3>1
  <2>6. Delivers(g)'
    BY <1>5, <2>1, <2>2, <2>3, <2>4, <2>5 DEF Delivers
  <2> QED
    BY <1>3, <2>3, <2>6 DEF PassiveInv
<1> QED
  BY <1>7, <1>8

(* The subscriber takes a message.                                         *)
LEMMA PassiveTakes ==
    ASSUME PassiveInv, net # <<>>, net' = Tail(net), UNCHANGED <<agent, sub, server>>,
           PassiveTypes',
           \A s, t \in Servers :
               Plays(s, Head(net), t) /\ Hears(s) => Hears(t)' /\ PassiveTextExact'
    PROVE  PassiveInv'
<1>0. net \in Seq(Msgs)
  BY DEF PassiveInv, PassiveTypes
<1>n. PICK n \in Nat : n = Len(net)
  BY <1>0
<1>1. /\ n \in Nat \ {0} /\ Len(net') = n - 1 /\ n = Len(net) /\ Head(net) = net[1]
      /\ \A q \in 1..(n - 1) : net'[q] = net[q + 1]
  BY <1>0, <1>n
<1>2. PICK h \in [0..Len(net) -> Servers] : Delivers(h)
  BY DEF PassiveInv
<1> DEFINE g == [q \in 0..(n - 1) |-> h[q + 1]]
<1>3. /\ g \in [0..Len(net') -> Servers]
      /\ \A q \in 0..(n - 1) : g[q] = h[q + 1]
  BY <1>1
<1> HIDE DEF g
<1>4. \A q \in 1..(n - 1) : Plays(g[q - 1], net'[q], g[q])
  <2> TAKE q \in 1..(n - 1)
  <2>1. q + 1 \in 1..Len(net) /\ (q + 1) - 1 = (q - 1) + 1
    BY <1>1
  <2>2. Plays(h[(q - 1) + 1], net[q + 1], h[q + 1])
    BY <1>2, <2>1 DEF Delivers
  <2>3. q - 1 \in 0..(n - 1) /\ q \in 0..(n - 1)
    BY <1>1
  <2> QED
    BY <1>1, <1>3, <2>2, <2>3
<1>5. Hears(g[0])' /\ PassiveTextExact'
  <2>1. g[0] = h[1] /\ h[0] \in Servers /\ h[1] \in Servers /\ 1 \in 1..Len(net) /\ 1 - 1 = 0
    BY <1>1, <1>3
  <2>2. Plays(h[1 - 1], net[1], h[1]) /\ Hears(h[0])
    BY <1>2, <2>1 DEF Delivers
  <2> QED
    BY <1>1, <2>1, <2>2
<1>6. sub'.conn = "up" => g[Len(net')] = server'
  BY <1>1, <1>2, <1>3 DEF Delivers
<1>7. \A s, k, t : Plays(s, k, t)' <=> Plays(s, k, t)
  BY DEF Plays
<1>8. Delivers(g)'
  BY <1>1, <1>3, <1>4, <1>5, <1>6, <1>7 DEF Delivers
<1> QED
  BY <1>3, <1>5, <1>8 DEF PassiveInv

(* The message read leads from one state of the server to another.         *)
LEMMA PassiveHead ==
    ASSUME PassiveInv, net # <<>>
    PROVE  /\ Head(net) \in Msgs
           /\ Tail(net) \in Seq(Msgs)
           /\ \E s, t \in Servers : Plays(s, Head(net), t) /\ Hears(s)
<1>0. net \in Seq(Msgs)
  BY DEF PassiveInv, PassiveTypes
<1>1. Head(net) = net[1] /\ Len(net) \in Nat /\ 1 \in 1..Len(net) /\ 0 \in 0..Len(net)
  BY <1>0
<1>2. PICK h \in [0..Len(net) -> Servers] : Delivers(h)
  BY DEF PassiveInv
<1>3. Plays(h[1 - 1], net[1], h[1]) /\ Hears(h[0]) /\ h[0] \in Servers /\ h[1] \in Servers
  BY <1>1, <1>2 DEF Delivers
<1>4. 1 - 1 = 0
  OBVIOUS
<1> QED
  BY <1>0, <1>1, <1>3, <1>4

(* The maps after a message.                                               *)
LEMMA MemText ==
    ASSUME mem \in Mems, NEW n \in 0..MaxTurns, NEW x \in Seq(Nat),
           mem' = [mem EXCEPT !.turn = n, !.content = x]
    PROVE  mem' \in Mems /\ mem'.turn = n /\ mem'.content = x /\ mem'.completed = mem.completed
BY DEF Mems

(* The maps after a message that starts a turn.                            *)
LEMMA MemNew ==
    ASSUME mem \in Mems, NEW n \in 0..MaxTurns, NEW x \in Seq(Nat),
           mem' = [mem EXCEPT !.turn = n, !.content = x, !.saw = FALSE]
    PROVE  mem' \in Mems /\ mem'.turn = n /\ mem'.content = x /\ mem'.completed = mem.completed
BY DEF Mems

(* The maps after a delta.                                                 *)
LEMMA MemSaw ==
    ASSUME mem \in Mems, NEW n \in 0..MaxTurns, mem' = [mem EXCEPT !.turn = n, !.saw = TRUE]
    PROVE  mem' \in Mems /\ mem'.completed = mem.completed
BY DEF Mems

(* The maps after a connection or a turn is gone.                          *)
LEMMA MemUnsaw ==
    ASSUME mem \in Mems, mem' = [mem EXCEPT !.saw = FALSE]
    PROVE  mem' \in Mems /\ mem'.completed = mem.completed
BY DEF Mems

(* The maps after the end of a turn.                                       *)
LEMMA MemCompleted ==
    ASSUME mem \in Mems, mem' = [mem EXCEPT !.completed = TRUE]
    PROVE  /\ mem' \in Mems /\ mem'.completed /\ mem'.turn = mem.turn
           /\ mem'.content = mem.content
BY DEF Mems

(* An event is told, or dropped when the channel is full.                  *)
LEMMA PassiveEmit ==
    ASSUME PassiveInv, NEW x \in Seq(Nat), Emit(x)
    PROVE  /\ evq' \in 0..PassiveCap /\ dropped' \in BOOLEAN /\ heard' \in Seq(Nat)
           /\ ~dropped' => ~dropped /\ heard' = x
<1>1. evq \in 0..PassiveCap /\ dropped \in BOOLEAN /\ heard \in Seq(Nat)
  BY DEF PassiveInv, PassiveTypes
<1>2. \/ evq < PassiveCap /\ evq' = evq + 1 /\ heard' = x /\ dropped' = dropped
      \/ dropped' = TRUE /\ evq' = evq /\ heard' = heard
  BY Zenon DEF Emit
<1>3. CASE evq < PassiveCap /\ evq' = evq + 1 /\ heard' = x /\ dropped' = dropped
  <2>1. evq' \in 0..PassiveCap
    BY <1>1, <1>3, PassiveAssumption
  <2> QED
    BY <1>1, <1>3, <2>1
<1>4. CASE dropped' = TRUE /\ evq' = evq /\ heard' = heard
  BY <1>1, <1>4
<1> QED
  BY <1>2, <1>3, <1>4

(* What every treatment of a message leaves to the subscriber.             *)
LEMMA PassiveReads ==
    ASSUME PassiveInv, net # <<>>, net' = Tail(net), UNCHANGED <<agent, sub, server>>,
           mem' \in Mems, evq' \in 0..PassiveCap, heard' \in Seq(Nat), dropped' \in BOOLEAN,
           missed' \in BOOLEAN, settled' \subseteq Seq(Nat),
           ended' \subseteq 1..MaxTurns,
           \A s, t \in Servers : Plays(s, Head(net), t) /\ Hears(s)
               => Hears(t)' /\ PassiveTextExact'
    PROVE  PassiveInv'
<1>1. PassiveTypes'
  BY PassiveHead DEF PassiveInv, PassiveTypes
<1> QED
  BY <1>1, PassiveTakes

(* A message that tells no end of a turn.                                  *)
LEMMA PassiveText ==
    ASSUME PassiveInv, net # <<>>, net' = Tail(net), UNCHANGED <<agent, sub, server>>,
           mem' \in Mems, UNCHANGED ended,
           evq' \in 0..PassiveCap, heard' \in Seq(Nat), dropped' \in BOOLEAN,
           missed' \in BOOLEAN, settled' \subseteq Seq(Nat),
           \A s, t \in Servers : Plays(s, Head(net), t) /\ Hears(s)
               => /\ agent = "opencode" => MapsTold(t)'
                  /\ agent = "codex" => DeltasTold(t)' /\ PassiveTextExact'
    PROVE  PassiveInv'
<1>1. ended' \subseteq 1..MaxTurns /\ agent \in {"codex", "opencode"}
  BY DEF PassiveInv, PassiveTypes
<1>4. ASSUME NEW s \in Servers, NEW t \in Servers, Plays(s, Head(net), t), Hears(s)
      PROVE  Hears(t)' /\ PassiveTextExact'
  <2>1. CASE agent = "opencode"
    <3>1. MapsTold(t)'
      BY <1>4, <2>1
    <3>2. PassiveTextExact'
      BY <3>1 DEF MapsTold, PassiveTextExact
    <3> QED
      BY <2>1, <3>1, <3>2 DEF Hears
  <2>2. CASE agent = "codex" /\ agent # "opencode"
    <3>1. EndsTold(s)
      BY <1>4, <2>2 DEF Hears
    <3>2. s.turn <= t.turn /\ (t.busy => s.busy \/ s.turn < t.turn)
      BY <1>4 DEF Plays, Servers
    <3>3. EndsTold(t)'
      BY <1>1, <3>1, <3>2 DEF EndsTold, Servers
    <3> QED
      BY <1>4, <2>2, <3>3 DEF Hears
  <2> QED
    BY <1>1, <2>1, <2>2
<1> QED
  BY <1>1, <1>4, PassiveReads

(* The types of what the treatments change.                                *)
LEMMA PassiveTyped ==
    ASSUME PassiveInv
    PROVE  /\ agent \in {"codex", "opencode"} /\ mem \in Mems /\ mem.content \in Seq(Nat)
           /\ evq \in 0..PassiveCap /\ heard \in Seq(Nat) /\ dropped \in BOOLEAN
           /\ missed \in BOOLEAN /\ settled \subseteq Seq(Nat)
           /\ ended \subseteq 1..MaxTurns
BY DEF PassiveInv, PassiveTypes, Mems

(* A turn starts.                                                          *)
LEMMA PassiveStarted ==
    ASSUME PassiveInv, net # <<>>, net' = Tail(net), UNCHANGED <<agent, sub, server>>,
           Head(net).kind = "started", HandleStarted(Head(net))
    PROVE  PassiveInv'
<1>m. PICK m \in Msgs : m = Head(net)
  BY PassiveHead
<1>1. /\ mem' = [mem EXCEPT !.turn = m.turn, !.content = <<>>, !.saw = FALSE]
      /\ heard' = <<>> /\ dropped' = FALSE /\ missed' = FALSE /\ settled' = {}
      /\ evq' = IF agent = "codex" /\ evq < PassiveCap THEN evq + 1 ELSE evq
      /\ UNCHANGED ended
  BY <1>m, Zenon DEF HandleStarted, resultVars
<1>2. m.turn \in 0..MaxTurns /\ <<>> \in Seq(Nat)
  BY DEF Msgs
<1>3. /\ mem' \in Mems /\ mem'.turn = m.turn /\ mem'.content = <<>>
      /\ mem'.completed = mem.completed
  <2>1. PICK n \in 0..MaxTurns : n = m.turn
    BY <1>2
  <2>2. PICK x \in Seq(Nat) : x = <<>>
    BY <1>2
  <2>3. mem \in Mems /\ mem' = [mem EXCEPT !.turn = n, !.content = x, !.saw = FALSE]
    BY <1>1, <2>1, <2>2, PassiveTyped
  <2> QED
    BY <2>1, <2>2, <2>3, MemNew
<1>4. evq' \in 0..PassiveCap
  BY <1>1, PassiveTyped, PassiveAssumption
<1>5. ASSUME NEW s \in Servers, NEW t \in Servers, Plays(s, m, t), Hears(s)
      PROVE  MapsTold(t)' /\ DeltasTold(t)' /\ PassiveTextExact'
  <2>1. m.turn = t.turn /\ t.text = <<>>
    BY <1>m, <1>5 DEF Plays
  <2> QED
    BY <1>1, <1>3, <2>1 DEF MapsTold, DeltasTold, PassiveTextExact
<1>6. settled' \subseteq Seq(Nat) /\ heard' \in Seq(Nat) /\ dropped' \in BOOLEAN /\ missed' \in BOOLEAN
  BY <1>1, <1>2
<1> QED
  BY <1>m, <1>1, <1>3, <1>4, <1>5, <1>6, PassiveText

(* A delta is appended to the text of its turn.                            *)
LEMMA PassiveDelta ==
    ASSUME PassiveInv, net # <<>>, net' = Tail(net), UNCHANGED <<agent, sub, server>>,
           Head(net).kind = "delta", HandlePartDelta(Head(net))
    PROVE  PassiveInv'
<1>m. PICK m \in Msgs : m = Head(net)
  BY PassiveHead
<1>1. /\ IF agent = "opencode"
         THEN mem' = [mem EXCEPT !.turn = m.turn, !.content = Append(Content(m), Token(m))]
         ELSE mem' = [mem EXCEPT !.turn = m.turn, !.saw = TRUE]
      /\ Emit(Append(heard, Token(m)))
      /\ settled' = {} /\ UNCHANGED <<missed, ended>>
  BY <1>m, Zenon DEF HandlePartDelta, AppendPartContent, StoreSawDelta, resultVars
<1>2. m.turn \in 0..MaxTurns
  BY DEF Msgs
<1>3. ASSUME NEW s \in Servers, NEW t \in Servers, Plays(s, m, t)
      PROVE  /\ s.busy /\ t.busy /\ t.turn = s.turn /\ m.turn = s.turn /\ s.turn # 0
             /\ Token(m) = Len(s.text) + 1 /\ Token(m) \in Nat
             /\ t.text = Append(s.text, Token(m))
  <2>1. /\ s.busy /\ t.busy /\ t.turn = s.turn /\ t.text = Append(s.text, Len(s.text) + 1)
        /\ m.turn = t.turn /\ m.text = t.text
    BY <1>m, <1>3 DEF Plays
  <2>2. s.text \in Seq(Nat) /\ s.turn \in 0..MaxTurns /\ s.turn > 0
    BY <2>1 DEF Servers
  <2>3. Last(m.text) = Len(s.text) + 1 /\ Len(s.text) + 1 \in Nat
    BY <2>1, <2>2 DEF Last
  <2> QED
    BY <2>1, <2>2, <2>3 DEF Token
<1>4. Token(m) \in Nat
  BY <1>m, <1>3, PassiveHead
<1>5. Append(heard, Token(m)) \in Seq(Nat) /\ Content(m) \in Seq(Nat)
      /\ Append(Content(m), Token(m)) \in Seq(Nat)
  <2>1. Content(m) \in Seq(Nat)
    BY PassiveTyped DEF Content
  <2> QED
    BY <1>4, <2>1, PassiveTyped
<1>6. /\ evq' \in 0..PassiveCap /\ dropped' \in BOOLEAN /\ heard' \in Seq(Nat)
      /\ ~dropped' => ~dropped /\ heard' = Append(heard, Token(m))
  BY <1>1, <1>5, PassiveEmit
<1>7. /\ mem' \in Mems /\ mem'.completed = mem.completed
      /\ agent = "opencode" => /\ mem'.turn = m.turn
                               /\ mem'.content = Append(Content(m), Token(m))
  <2>1. CASE agent = "opencode"
    <3>1. PICK n \in 0..MaxTurns : n = m.turn
      BY <1>2
    <3>2. PICK x \in Seq(Nat) : x = Append(Content(m), Token(m))
      BY <1>5
    <3>3. mem \in Mems /\ mem' = [mem EXCEPT !.turn = n, !.content = x]
      BY <1>1, <2>1, <3>1, <3>2, PassiveTyped
    <3> QED
      BY <3>1, <3>2, <3>3, MemText
  <2>2. CASE agent # "opencode"
    <3>1. PICK n \in 0..MaxTurns : n = m.turn
      BY <1>2
    <3>2. mem \in Mems /\ mem' = [mem EXCEPT !.turn = n, !.saw = TRUE]
      BY <1>1, <2>2, <3>1, PassiveTyped
    <3> QED
      BY <2>2, <3>2, MemSaw
  <2> QED
    BY <2>1, <2>2
<1>8. ASSUME NEW s \in Servers, NEW t \in Servers, Plays(s, m, t), Hears(s)
      PROVE  /\ agent = "opencode" => MapsTold(t)'
             /\ agent = "codex" => DeltasTold(t)' /\ PassiveTextExact'
  <2>0. /\ s.busy /\ t.busy /\ t.turn = s.turn /\ m.turn = s.turn /\ s.turn # 0
        /\ t.text = Append(s.text, Token(m))
    BY <1>3, <1>8
  <2>1. ASSUME agent = "opencode" PROVE MapsTold(t)'
    <3>1. Content(m) = mem.content
      BY <1>8, <2>0, <2>1 DEF Hears, MapsTold, Content
    <3>2. ~dropped' => heard' = mem'.content
      BY <1>6, <1>7, <1>8, <2>1, <3>1 DEF Hears, MapsTold
    <3> QED
      BY <1>1, <1>7, <2>0, <2>1, <3>2 DEF MapsTold
  <2>2. ASSUME agent = "codex" PROVE DeltasTold(t)'
    BY <1>1, <1>6, <1>8, <2>0, <2>2 DEF Hears, DeltasTold
  <2>3. PassiveTextExact'
    BY <1>1 DEF PassiveTextExact
  <2> QED
    BY <2>1, <2>2, <2>3
<1>9. settled' \subseteq Seq(Nat) /\ missed' \in BOOLEAN
  BY <1>1, PassiveTyped
<1> QED
  BY <1>m, <1>1, <1>6, <1>7, <1>8, <1>9, PassiveText

(* A message without a text.                                               *)
LEMMA PassiveOther ==
    ASSUME PassiveInv, net # <<>>, net' = Tail(net), UNCHANGED <<agent, sub, server>>,
           Head(net).kind = "other", HandleOther(Head(net))
    PROVE  PassiveInv'
<1>m. PICK m \in Msgs : m = Head(net)
  BY PassiveHead
<1>1. Emit(heard) /\ UNCHANGED <<mem, missed, settled, ended>>
  BY Zenon DEF HandleOther, resultVars
<1>2. /\ evq' \in 0..PassiveCap /\ dropped' \in BOOLEAN /\ heard' \in Seq(Nat)
      /\ ~dropped' => ~dropped /\ heard' = heard
  BY <1>1, PassiveEmit, PassiveTyped
<1>3. ASSUME NEW s \in Servers, NEW t \in Servers, Plays(s, m, t), Hears(s)
      PROVE  /\ agent = "opencode" => MapsTold(t)'
             /\ agent = "codex" => DeltasTold(t)' /\ PassiveTextExact'
  <2>1. t = s
    BY <1>m, <1>3 DEF Plays
  <2>2. agent = "opencode" => MapsTold(t)'
    BY <1>1, <1>2, <1>3, <2>1 DEF Hears, MapsTold
  <2>3. agent = "codex" => DeltasTold(t)'
    BY <1>1, <1>2, <1>3, <2>1 DEF Hears, DeltasTold
  <2>4. PassiveTextExact'
    BY <1>1, <1>2 DEF PassiveInv, PassiveTextExact
  <2> QED
    BY <2>2, <2>3, <2>4
<1>4. mem' \in Mems /\ missed' \in BOOLEAN /\ settled' \subseteq Seq(Nat)
  BY <1>1, PassiveTyped
<1> QED
  BY <1>m, <1>1, <1>2, <1>3, <1>4, PassiveText

(* A snapshot of the text replaces what is held; what it adds is told.     *)
LEMMA PassiveSnapshot ==
    ASSUME PassiveInv, net # <<>>, net' = Tail(net), UNCHANGED <<agent, sub, server>>,
           Head(net).kind = "snapshot", HandlePartUpdated(Head(net))
    PROVE  PassiveInv'
<1>m. PICK m \in Msgs : m = Head(net)
  BY PassiveHead
<1> DEFINE rest == SubSeq(m.text, Len(Content(m)) + 1, Len(m.text))
<1>1. /\ mem' = [mem EXCEPT !.turn = m.turn, !.content = m.text]
      /\ \/ m.text = Content(m) /\ UNCHANGED <<evq, heard, dropped>>
         \/ IsPrefix(Content(m), m.text) /\ Emit(heard \o rest)
         \/ Emit(m.text)
      /\ settled' = {m.text} /\ UNCHANGED <<missed, ended>>
  BY <1>m, Zenon DEF HandlePartUpdated, DeltaForPartSnapshot, Silent, resultVars
<1>2. m.turn \in 0..MaxTurns /\ m.text \in Seq(Nat)
  BY DEF Msgs
<1>3. Content(m) \in Seq(Nat)
  BY PassiveTyped DEF Content
<1>4. /\ mem' \in Mems /\ mem'.turn = m.turn /\ mem'.content = m.text
      /\ mem'.completed = mem.completed
  <2>1. PICK n \in 0..MaxTurns : n = m.turn
    BY <1>2
  <2>2. PICK x \in Seq(Nat) : x = m.text
    BY <1>2
  <2>3. mem \in Mems /\ mem' = [mem EXCEPT !.turn = n, !.content = x]
    BY <1>1, <2>1, <2>2, PassiveTyped
  <2> QED
    BY <2>1, <2>2, <2>3, MemText
<1>5. IsPrefix(Content(m), m.text) => /\ Content(m) \o rest = m.text /\ rest \in Seq(Nat)
                                      /\ heard \o rest \in Seq(Nat)
  <2>1. IsPrefix(Content(m), m.text) => Content(m) \o rest = m.text /\ rest \in Seq(Nat)
    BY <1>2, <1>3, TextRestOfPrefix
  <2> HIDE DEF rest
  <2> QED
    BY <2>1, PassiveTyped
<1> HIDE DEF rest
<1>6. /\ evq' \in 0..PassiveCap /\ dropped' \in BOOLEAN /\ heard' \in Seq(Nat)
      /\ ~dropped' /\ heard = Content(m) => heard' = m.text
      /\ ~dropped' => ~dropped
  <2>1. CASE m.text = Content(m) /\ UNCHANGED <<evq, heard, dropped>>
    BY <2>1, PassiveTyped
  <2>2. CASE IsPrefix(Content(m), m.text) /\ Emit(heard \o rest)
    BY <1>5, <2>2, PassiveEmit
  <2>3. CASE Emit(m.text)
    BY <1>2, <2>3, PassiveEmit
  <2> QED
    BY <1>1, <2>1, <2>2, <2>3
<1>7. ASSUME NEW s \in Servers, NEW t \in Servers, Plays(s, m, t), Hears(s)
      PROVE  /\ agent = "opencode" => MapsTold(t)'
             /\ agent = "codex" => DeltasTold(t)' /\ PassiveTextExact'
  <2>1. /\ agent = "opencode" /\ s.busy /\ t.busy /\ t.turn = s.turn
        /\ m.turn = t.turn /\ m.text = t.text
    BY <1>m, <1>7 DEF Plays
  <2>2. s.turn # 0
    BY <2>1 DEF Servers
  <2>3. Content(m) = mem.content
    BY <1>7, <2>1, <2>2 DEF Hears, MapsTold, Content
  <2>4. ~dropped' => heard' = m.text
    BY <1>6, <1>7, <2>1, <2>3 DEF Hears, MapsTold
  <2>5. MapsTold(t)'
    BY <1>1, <1>4, <2>1, <2>2, <2>4 DEF MapsTold
  <2> QED
    BY <2>1, <2>5
<1>8. settled' \subseteq Seq(Nat) /\ missed' \in BOOLEAN
  BY <1>1, <1>2, PassiveTyped
<1> QED
  BY <1>m, <1>1, <1>4, <1>6, <1>7, <1>8, PassiveText

(* The end of a turn, as Codex tells it: the turn that ends is the one     *)
(* that runs.                    *)
LEMMA PassiveTurnCompleted ==
    ASSUME PassiveInv, net # <<>>, net' = Tail(net), UNCHANGED <<agent, sub, server>>,
           Head(net).kind = "completed", agent = "codex", ItemThenTurnCompleted(Head(net))
    PROVE  PassiveInv'
<1>m. PICK m \in Msgs : m = Head(net)
  BY PassiveHead
<1>k. PICK k \in {0, 1} : k = ItemTexts(m)
  BY DEF ItemTexts
<1>1. /\ mem' = [mem EXCEPT !.saw = FALSE]
      /\ heard' = IF k = 1 /\ evq < PassiveCap THEN m.text ELSE heard
      /\ dropped' = (dropped \/ (k = 1 /\ evq = PassiveCap))
      /\ evq' = IF evq + k < PassiveCap THEN evq + k + 1 ELSE PassiveCap
      /\ ended' = ended \cup {m.turn} /\ settled' = {m.text} /\ UNCHANGED missed
  BY <1>m, <1>k, Zenon DEF ItemThenTurnCompleted
<1>2. m.turn \in 0..MaxTurns /\ m.text \in Seq(Nat)
  BY DEF Msgs
<1>3. mem' \in Mems
  BY <1>1, PassiveTyped, MemUnsaw
<1>4. evq' \in 0..PassiveCap
  BY <1>1, PassiveTyped, PassiveAssumption, SMTT(30)
<1>5. heard' \in Seq(Nat) /\ dropped' \in BOOLEAN /\ missed' \in BOOLEAN /\ settled' \subseteq Seq(Nat)
  BY <1>1, <1>2, PassiveTyped
<1>6. ASSUME NEW s \in Servers, NEW t \in Servers, Plays(s, m, t)
      PROVE  /\ s.busy /\ ~t.busy /\ t.turn = s.turn /\ m.turn = s.turn
             /\ m.text = s.text /\ s.turn \in 1..MaxTurns
  <2>1. s.busy /\ ~t.busy /\ t.turn = s.turn /\ m.turn = s.turn /\ m.text = s.text
    BY <1>m, <1>6 DEF Plays
  <2> QED
    BY <2>1, PassiveAssumption DEF Servers
<1>7. ended' \subseteq 1..MaxTurns
  <2>1. m.turn \in 1..MaxTurns
    BY <1>m, <1>6, PassiveHead
  <2> QED
    BY <1>1, <2>1, PassiveTyped
<1>8. ASSUME NEW s \in Servers, NEW t \in Servers, Plays(s, m, t), Hears(s)
      PROVE  Hears(t)' /\ PassiveTextExact'
  <2>0. /\ s.busy /\ ~t.busy /\ t.turn = s.turn /\ m.turn = s.turn
        /\ m.text = s.text /\ s.turn \in 1..MaxTurns
    BY <1>6, <1>8
  <2>1. DeltasTold(s) /\ EndsTold(s)
    BY <1>8 DEF Hears
  <2>2. EndsTold(t)'
    BY <1>1, <2>0, <2>1, PassiveTyped DEF EndsTold
  <2>3. Hears(t)'
    BY <2>0, <2>2 DEF Hears, DeltasTold
  <2>6. PassiveTextExact'
    <3> SUFFICES ASSUME ~dropped', ~missed' PROVE heard' = m.text
      BY <1>1 DEF PassiveTextExact
    <3>1. heard = s.text
      BY <1>1, <2>0, <2>1 DEF DeltasTold
    <3>2. CASE k = 0
      BY <1>1, <2>0, <3>1, <3>2
    <3>3. CASE k = 1
      <4>1. evq < PassiveCap
        <5>1. evq # PassiveCap
          BY <1>1, <3>3
        <5>2. evq \in 0..PassiveCap /\ PassiveCap \in Nat
          BY PassiveTyped, PassiveAssumption
        <5> QED
          BY <5>1, <5>2
      <4> QED
        BY <1>1, <3>3, <4>1
    <3> QED
      BY <3>2, <3>3
  <2> QED
    BY <2>3, <2>6
<1> QED
  BY <1>m, <1>3, <1>4, <1>5, <1>7, <1>8, PassiveReads

(* The end of a turn, as OpenCode tells it, in one way or the other, or    *)
(* the end of a step.                                                      *)
LEMMA PassiveEndTold ==
    ASSUME PassiveInv, net # <<>>, net' = Tail(net), UNCHANGED <<agent, sub, server>>,
           Head(net).kind \in {"completed", "idle", "step"}, agent = "opencode",
           mem' \in Mems, mem'.turn = mem.turn, mem'.content = mem.content,
           evq' \in 0..PassiveCap,
           ended' \in {ended, ended \cup {Head(net).turn}},
           Head(net).kind = "step" => ended' = ended,
           UNCHANGED <<heard, dropped, missed, settled>>
    PROVE  PassiveInv'
<1>m. PICK m \in Msgs : m = Head(net)
  BY PassiveHead
<1>1. ASSUME NEW s \in Servers, NEW t \in Servers, Plays(s, m, t)
      PROVE  /\ m.kind # "step" => ~t.busy /\ m.turn \in 1..MaxTurns
             /\ m.kind = "step" => t.busy = s.busy /\ t.turn = s.turn
  <2>1. CASE m.kind = "step"
    BY <1>1, <2>1 DEF Plays
  <2>2. CASE m.kind # "step"
    <3>1. /\ ~t.busy /\ t.turn = s.turn /\ m.turn = t.turn /\ (s.busy \/ s.turn > 0)
      BY <1>m, <1>1, <2>2 DEF Plays
    <3> QED
      BY <2>2, <3>1, PassiveAssumption DEF Servers
  <2> QED
    BY <2>1, <2>2
<1>2. m.kind # "step" => m.turn \in 1..MaxTurns
  BY <1>m, <1>1, PassiveHead
<1>3. ended' \subseteq 1..MaxTurns
  BY <1>m, <1>2, PassiveTyped
<1>4. ASSUME NEW s \in Servers, NEW t \in Servers, Plays(s, m, t), Hears(s)
      PROVE  Hears(t)' /\ PassiveTextExact'
  <2>1. MapsTold(s) /\ (t.busy => s.busy /\ t.turn = s.turn)
    BY <1>1, <1>4 DEF Hears
  <2>2. MapsTold(t)'
    BY <2>1 DEF MapsTold
  <2> QED
    BY <2>2 DEF Hears, MapsTold, PassiveTextExact
<1>5. heard' \in Seq(Nat) /\ dropped' \in BOOLEAN /\ missed' \in BOOLEAN /\ settled' \subseteq Seq(Nat)
  BY PassiveTyped
<1> QED
  BY <1>m, <1>3, <1>4, <1>5, PassiveReads

(* A result reaches the channel, or does not.                              *)
LEMMA PassiveEmitsResult ==
    ASSUME PassiveInv, EmitResult
    PROVE  evq' \in 0..PassiveCap
<1>1. evq' = evq \/ (evq < PassiveCap /\ evq' = evq + 1)
  BY Zenon DEF EmitResult
<1> QED
  BY <1>1, PassiveTyped, PassiveAssumption

-----------------------------------------------------------------------------
(* The reader takes a message (readLoop).                                  *)
LEMMA PassiveReaderKeeps ==
    ASSUME PassiveInv, ReadMessage
    PROVE  PassiveInv'
<1>1. /\ net # <<>> /\ net' = Tail(net) /\ UNCHANGED <<agent, sub, server>>
  BY Zenon DEF ReadMessage
<1>2. \/ Head(net).kind = "started" /\ HandleStarted(Head(net))
      \/ Head(net).kind = "delta" /\ HandlePartDelta(Head(net))
      \/ Head(net).kind = "other" /\ HandleOther(Head(net))
      \/ Head(net).kind = "snapshot" /\ HandlePartUpdated(Head(net))
      \/ /\ Head(net).kind = "completed" /\ agent = "codex"
         /\ ItemThenTurnCompleted(Head(net))
      \/ Head(net).kind = "completed" /\ agent = "opencode" /\ MessageUpdated(Head(net))
      \/ Head(net).kind = "idle" /\ SessionIdle(Head(net))
      \/ Head(net).kind = "step" /\ HandleStepFinish
  BY Zenon DEF ReadMessage
<1>3. CASE \/ Head(net).kind = "completed" /\ agent = "opencode" /\ MessageUpdated(Head(net))
           \/ Head(net).kind = "idle" /\ SessionIdle(Head(net))
           \/ Head(net).kind = "step" /\ HandleStepFinish
  <2>1. /\ \/ UNCHANGED <<mem, evq>>
           \/ EmitResult /\ mem' = [mem EXCEPT !.completed = TRUE]
           \/ EmitResult /\ mem' = mem
        /\ ended' \in {ended, ended \cup {Head(net).turn}}
        /\ Head(net).kind = "step" => ended' = ended
        /\ UNCHANGED <<heard, dropped, missed, settled>>
        /\ Head(net).kind \in {"completed", "idle", "step"}
    BY <1>3, Zenon DEF MessageUpdated, SessionIdle, HandleStepFinish, EmitResultOnce
  <2>2. agent = "opencode"
    <3>1. PICK s \in Servers, t \in Servers : Plays(s, Head(net), t)
      BY <1>1, PassiveHead
    <3> QED
      BY <1>3, <3>1 DEF Plays
  <2>3. evq' \in 0..PassiveCap
    BY <2>1, PassiveTyped, PassiveEmitsResult
  <2>4. mem' \in Mems /\ mem'.turn = mem.turn /\ mem'.content = mem.content
    BY <2>1, PassiveTyped, MemCompleted
  <2> QED
    BY <1>1, <2>1, <2>2, <2>3, <2>4, PassiveEndTold
<1> QED
  BY <1>1, <1>2, <1>3, PassiveStarted, PassiveDelta, PassiveOther, PassiveSnapshot,
     PassiveTurnCompleted, Zenon

(* A new connection begins where the server is.                            *)
LEMMA PassiveConnects ==
    ASSUME PassiveInv, Connect
    PROVE  PassiveInv'
<1>1. /\ sub' = [NoSub EXCEPT !.conn = "up", !.reader = "reading"]
      /\ net' = <<>> /\ mem' = NoMem /\ evq' = 0
      /\ heard' = <<>> /\ dropped' = FALSE /\ settled' = {} /\ ended' = {}
      /\ missed' = (server.text # <<>>)
      /\ UNCHANGED <<agent, server>>
  BY Zenon DEF Connect
<1>2. sub' \in Subs
  BY <1>1 DEF NoSub, Subs
<1>3. mem' \in Mems /\ mem'.turn = 0 /\ mem'.content = <<>> /\ ~mem'.completed
  BY <1>1, PassiveAssumption DEF NoMem, Mems
<1>4. PassiveTypes'
  <2>1. missed' \in BOOLEAN
    BY <1>1
  <2>2. /\ net' \in Seq(Msgs) /\ heard' \in Seq(Nat) /\ evq' \in 0..PassiveCap
        /\ dropped' \in BOOLEAN /\ settled' \subseteq Seq(Nat)
        /\ ended' \subseteq 1..MaxTurns
    <3>1. /\ <<>> \in Seq(Msgs) /\ <<>> \in Seq(Nat) /\ 0 \in 0..PassiveCap
          /\ {} \subseteq Seq(Nat) /\ {} \subseteq 1..MaxTurns
      BY PassiveAssumption
    <3>2. /\ net' = <<>> /\ heard' = <<>> /\ evq' = 0 /\ dropped' = FALSE /\ settled' = {}
          /\ ended' = {}
      BY <1>1
    <3> QED
      BY <3>1, <3>2
  <2> QED
    BY <1>1, <1>2, <1>3, <2>1, <2>2 DEF PassiveInv, PassiveTypes
<1>5. PassiveTextExact'
  BY <1>1 DEF PassiveTextExact
<1>6. PICK s \in Servers : s = server
  BY DEF PassiveInv, PassiveTypes
<1> DEFINE h == [q \in 0..0 |-> s]
<1>7. h \in [0..0 -> Servers] /\ h[0] = s
  OBVIOUS
<1> HIDE DEF h
<1>8. Len(net') = 0
  BY <1>1
<1>9. Hears(h[0])'
  <2>1. ~missed' => s.text = <<>>
    BY <1>1, <1>6
  <2>2. MapsTold(s)'
    BY <1>1, <1>3 DEF MapsTold
  <2>3. DeltasTold(s)'
    BY <1>1, <2>1 DEF DeltasTold
  <2>4. EndsTold(s)'
    BY <1>1 DEF EndsTold
  <2> QED
    BY <1>7, <2>2, <2>3, <2>4 DEF Hears
<1>10. Delivers(h)'
  BY <1>1, <1>6, <1>7, <1>8, <1>9 DEF Delivers
<1> QED
  BY <1>4, <1>5, <1>7, <1>8, <1>10 DEF PassiveInv

(* Each step of the server is one its messages tell.                       *)
LEMMA PassiveServerKeeps ==
    ASSUME PassiveInv,
           \/ ServerStartsTurn \/ ServerSaysDelta \/ ServerSaysOther \/ ServerRewrites
           \/ ServerSnapshot \/ ServerEndsStep \/ ServerEndsTurn \/ ServerSaysIdle
    PROVE  PassiveInv'
<1>t. /\ server \in [turn : 0..MaxTurns, busy : BOOLEAN, text : Seq(Nat), steps : Nat]
      /\ server.busy => server.turn > 0
      /\ server.turn \in 0..MaxTurns /\ server.busy \in BOOLEAN /\ server.text \in Seq(Nat)
      /\ server \in Servers
  BY DEF PassiveInv, PassiveTypes, Servers
<1>m. \A k \in MsgKinds : /\ Msg(k) \in Msgs /\ Msg(k).kind = k
                          /\ Msg(k).turn = server.turn /\ Msg(k).text = server.text
  BY <1>t DEF Msg, Msgs
<1>x. ASSUME NEW k \in MsgKinds, NEW x \in Seq(Nat)
      PROVE  LET m == [Msg(k) EXCEPT !.text = x] IN
             m \in Msgs /\ m.kind = k /\ m.turn = server.turn /\ m.text = x
  BY <1>m DEF Msgs
<1>1. CASE ServerStartsTurn
  <2> DEFINE m == [Msg("started") EXCEPT !.turn = server.turn + 1, !.text = <<>>]
             s == [turn |-> server.turn + 1, busy |-> TRUE, text |-> <<>>, steps |-> 0]
  <2>1. ~server.busy /\ server.turn < MaxTurns /\ server' = s /\ ServerSends(m)
    BY <1>1, Zenon DEF ServerStartsTurn
  <2>2. server.turn + 1 \in 0..MaxTurns /\ server.turn + 1 > 0 /\ <<>> \in Seq(Nat)
    BY <1>t, <2>1, PassiveAssumption
  <2>3. s \in Servers
    BY <2>2 DEF Servers
  <2>4. Msg("started") \in Msgs /\ Msg("started").kind = "started"
    BY <1>m DEF MsgKinds
  <2>5. m \in Msgs /\ m.kind = "started" /\ m.turn = server.turn + 1
    <3>1. PICK n \in 0..MaxTurns, x \in Seq(Nat) : n = server.turn + 1 /\ x = <<>>
      BY <2>2
    <3>2. LET d == [Msg("started") EXCEPT !.turn = n, !.text = x] IN
          d \in Msgs /\ d.kind = "started" /\ d.turn = n
      BY <2>4 DEF Msgs
    <3> QED
      BY <3>1, <3>2
  <2>6. Plays(server, m, s)
    BY <2>1, <2>5 DEF Plays
  <2> HIDE DEF m, s
  <2> QED
    BY <2>1, <2>3, <2>5, <2>6, PassiveServer
<1>2. CASE ServerSaysDelta
  <2>x. PICK x \in Seq(Nat) : x = Append(server.text, Len(server.text) + 1)
    <3>1. server.text \in Seq(Nat) /\ Len(server.text) + 1 \in Nat
      BY <1>t
    <3>2. Append(server.text, Len(server.text) + 1) \in Seq(Nat)
      BY <3>1
    <3> QED
      BY <3>2
  <2> DEFINE m == [Msg("delta") EXCEPT !.text = x]
             s == [server EXCEPT !.text = x]
  <2>1. server.busy /\ server' = s /\ ServerSends(m)
    BY <1>2, <2>x DEF ServerSaysDelta
  <2>2. s \in Servers /\ s.busy = server.busy /\ s.turn = server.turn /\ s.text = x
    BY <1>t, <2>x DEF Servers
  <2>3. m \in Msgs /\ m.kind = "delta" /\ m.turn = server.turn /\ m.text = x
    BY <1>x DEF MsgKinds
  <2> HIDE DEF m, s
  <2>4. Plays(server, m, s)
    BY <2>1, <2>2, <2>3, <2>x DEF Plays
  <2> QED
    BY <2>1, <2>2, <2>3, <2>4, PassiveServer
<1>3. CASE ServerRewrites
  <2>x. PICK x \in Seq(Nat) : x = [server.text EXCEPT ![1] = 0]
    <3>1. server.text \in Seq(Nat) /\ server.text # <<>>
      BY <1>t, <1>3 DEF ServerRewrites
    <3>2. 1 \in 1..Len(server.text) /\ 0 \in Nat
      BY <3>1
    <3>3. [server.text EXCEPT ![1] = 0] \in Seq(Nat)
      BY <3>1, <3>2, ExceptSeq
    <3> QED
      BY <3>3
  <2> DEFINE m == [Msg("snapshot") EXCEPT !.text = x]
             s == [server EXCEPT !.text = x]
  <2>1. agent = "opencode" /\ server.busy /\ server' = s /\ ServerSends(m)
    BY <1>3, <2>x DEF ServerRewrites
  <2>2. s \in Servers /\ s.busy = server.busy /\ s.turn = server.turn /\ s.text = x
    BY <1>t, <2>x DEF Servers
  <2>3. m \in Msgs /\ m.kind = "snapshot" /\ m.turn = server.turn /\ m.text = x
    BY <1>x DEF MsgKinds
  <2> HIDE DEF m, s
  <2>4. Plays(server, m, s)
    BY <2>1, <2>2, <2>3 DEF Plays
  <2> QED
    BY <2>1, <2>2, <2>3, <2>4, PassiveServer
<1>4. CASE ServerEndsTurn
  <2> DEFINE m == Msg("completed")
             s == [server EXCEPT !.busy = FALSE]
  <2>1. server.busy /\ server' = s /\ ServerSends(m)
    BY <1>4, Zenon DEF ServerEndsTurn
  <2>2. s \in Servers /\ ~s.busy /\ s.turn = server.turn /\ s.text = server.text
    BY <1>t DEF Servers
  <2>3. m \in Msgs /\ m.kind = "completed" /\ m.turn = server.turn /\ m.text = server.text
    BY <1>m DEF MsgKinds
  <2> HIDE DEF m, s
  <2>4. Plays(server, m, s)
    BY <2>1, <2>2, <2>3 DEF Plays
  <2> QED
    BY <2>1, <2>2, <2>3, <2>4, PassiveServer
<1>5. CASE ServerSaysOther \/ ServerSnapshot \/ ServerSaysIdle
  <2>1. PICK k \in {"other", "snapshot", "idle"} :
           /\ ServerSends(Msg(k)) /\ server' = server
           /\ k = "snapshot" => agent = "opencode" /\ server.busy
           /\ k = "idle" => agent = "opencode" /\ ~server.busy /\ server.turn > 0
    BY <1>5, Zenon DEF ServerSaysOther, ServerSnapshot, ServerSaysIdle
  <2>2. Msg(k) \in Msgs /\ Msg(k).kind = k /\ Msg(k).turn = server.turn /\ Msg(k).text = server.text
    BY <1>m DEF MsgKinds
  <2>3. Plays(server, Msg(k), server)
    BY <2>1, <2>2 DEF Plays
  <2> QED
    BY <1>t, <2>1, <2>2, <2>3, PassiveServer
<1>6. CASE ServerEndsStep
  <2> DEFINE m == Msg("step")
             s == [server EXCEPT !.steps = @ + 1]
  <2>1. agent = "opencode" /\ server.busy /\ server' = s /\ ServerSends(m)
    BY <1>6, Zenon DEF ServerEndsStep
  <2>2. s \in Servers /\ s.busy = server.busy /\ s.turn = server.turn /\ s.text = server.text
    BY <1>t DEF Servers
  <2>3. m \in Msgs /\ m.kind = "step"
    BY <1>m DEF MsgKinds
  <2> HIDE DEF m, s
  <2>4. Plays(server, m, s)
    BY <2>1, <2>2, <2>3 DEF Plays
  <2> QED
    BY <2>1, <2>2, <2>3, <2>4, PassiveServer
<1> QED
  BY <1>1, <1>2, <1>3, <1>4, <1>5, <1>6

(* The connection goes down, is given up or comes to its end.              *)
LEMMA PassiveStepKeeps ==
    ASSUME PassiveInv, [PassiveNext]_passiveVars
    PROVE  PassiveInv'
<1>t. sub \in Subs /\ net \in Seq(Msgs) /\ evq \in 0..PassiveCap
  BY DEF PassiveInv, PassiveTypes
<1>1. CASE Lost
  <2>1. /\ sub' = [sub EXCEPT !.conn = "down"]
        /\ \E n \in 0..Len(net) : net' = SubSeq(net, 1, n)
        /\ UNCHANGED <<agent, server, mem, evq, heard, dropped, missed, settled, ended>>
    BY <1>1, Zenon DEF Lost, toldVars, resultVars
  <2>2. sub' \in Subs /\ sub'.conn = "down"
    BY <1>t, <2>1 DEF Subs
  <2> QED
    BY <2>1, <2>2, PassiveCut
<1>2. CASE SubscribeFails
  <2>1. /\ sub' = NoSub /\ net' = <<>>
        /\ UNCHANGED <<agent, server, mem, evq, heard, dropped, missed, settled, ended>>
    BY <1>2, Zenon DEF SubscribeFails, toldVars, resultVars
  <2>2. sub' \in Subs /\ sub'.conn # "up"
    BY <2>1 DEF Subs, NoSub
  <2>3. 0 \in 0..Len(net) /\ net' = SubSeq(net, 1, 0)
    BY <1>t, <2>1
  <2> QED
    BY <2>1, <2>2, <2>3, PassiveCut
<1>3. CASE \/ Initialized \/ Waited \/ RangeEvent \/ RangeEnds \/ Stop
           \/ ReadFails \/ CloseCalled \/ CloseFinds \/ CloseGivesTime
           \/ UNCHANGED passiveVars
  <2>1. UNCHANGED <<agent, net, server, mem, heard, dropped, missed, settled, ended>>
    BY <1>3, Zenon DEF Initialized, Waited, RangeEvent, RangeEnds, Stop, ReadFails, CloseCalled,
       CloseFinds, CloseGivesTime, passiveVars, toldVars, resultVars
  <2>2. evq' \in 0..PassiveCap
    <3>1. evq' = evq \/ (evq > 0 /\ evq' = evq - 1)
      BY <1>3, Zenon DEF Initialized, Waited, RangeEvent, RangeEnds, Stop, ReadFails,
         CloseCalled, CloseFinds, CloseGivesTime, passiveVars
    <3> QED
      BY <1>t, <3>1, PassiveAssumption
  <2>3. \/ sub' = sub
        \/ sub' = [sub EXCEPT !.ctx = TRUE]
        \/ sub' = [sub EXCEPT !.reader = "gone", !.ctx = @ \/ agent = "codex"]
        \/ sub' = [sub EXCEPT !.close = "waiting"]
        \/ sub' = [sub EXCEPT !.close = "done", !.conn = "down"]
        \/ sub' = [sub EXCEPT !.close = "deferred", !.conn = IF agent = "codex" THEN "down" ELSE @]
    BY <1>3, Zenon DEF Initialized, Waited, RangeEvent, RangeEnds, Stop, ReadFails, FailRead,
       CloseCalled, CloseFinds, CloseGivesTime, passiveVars
  <2>4. sub' \in Subs /\ (sub'.conn = "up" => sub.conn = "up")
    <3>1. CASE sub' = [sub EXCEPT !.reader = "gone", !.ctx = @ \/ agent = "codex"]
      <4>1. PICK b \in BOOLEAN : b = (sub.ctx \/ agent = "codex")
        OBVIOUS
      <4>2. sub' = [sub EXCEPT !.reader = "gone", !.ctx = b]
        BY <3>1, <4>1
      <4> QED
        BY <1>t, <4>2 DEF Subs
    <3>2. CASE sub' = [sub EXCEPT !.close = "deferred", !.conn = IF agent = "codex" THEN "down" ELSE @]
      BY <1>t, <3>2 DEF Subs
    <3>3. CASE \/ sub' = sub
               \/ sub' = [sub EXCEPT !.ctx = TRUE]
               \/ sub' = [sub EXCEPT !.close = "waiting"]
      BY <1>t, <3>3 DEF Subs
    <3>4. CASE sub' = [sub EXCEPT !.close = "done", !.conn = "down"]
      BY <1>t, <3>4 DEF Subs
    <3> QED
      BY <2>3, <3>1, <3>2, <3>3, <3>4
  <2> QED
    BY <2>1, <2>2, <2>4, PassiveAside
<1> QED
  BY <1>1, <1>2, <1>3, PassiveServerKeeps, PassiveReaderKeeps, PassiveConnects, Zenon
     DEF PassiveNext

(* A subscription starts with nothing on the way.                          *)
LEMMA PassiveStarts ==
    ASSUME PassiveInit
    PROVE  PassiveInv
<1>1. /\ agent \in Subscribers /\ sub = NoSub /\ net = <<>>
      /\ server = [turn |-> 0, busy |-> FALSE, text |-> <<>>, steps |-> 0]
      /\ mem = NoMem /\ evq = 0 /\ heard = <<>> /\ dropped = FALSE
      /\ missed = FALSE /\ settled = {} /\ ended = {}
  BY Zenon DEF PassiveInit
<1>2. server \in Servers /\ ~server.busy
  BY <1>1, PassiveAssumption DEF Servers
<1>3. mem \in Mems /\ mem.turn = 0 /\ mem.content = <<>> /\ ~mem.completed
  BY <1>1, PassiveAssumption DEF NoMem, Mems
<1>4. PassiveTypes
  <2>1. sub \in Subs
    BY <1>1 DEF NoSub, Subs
  <2>2. agent \in {"codex", "opencode"}
    BY <1>1, PassiveAssumption
  <2>3. net \in Seq(Msgs) /\ heard \in Seq(Nat) /\ evq \in 0..PassiveCap
    BY <1>1, PassiveAssumption
  <2> QED
    BY <1>1, <1>2, <1>3, <2>1, <2>2, <2>3 DEF PassiveTypes
<1>5. PassiveTextExact
  BY <1>1 DEF PassiveTextExact
<1> DEFINE h == [q \in 0..0 |-> server]
<1>6. h \in [0..Len(net) -> Servers] /\ h[0] = server /\ Len(net) = 0
  BY <1>1, <1>2
<1> HIDE DEF h
<1>7. Hears(h[0])
  BY <1>1, <1>2, <1>3, <1>6 DEF Hears, MapsTold, DeltasTold, EndsTold
<1>8. Delivers(h)
  BY <1>6, <1>7 DEF Delivers
<1> QED
  BY <1>4, <1>5, <1>6, <1>8 DEF PassiveInv

(* The invariant of a subscription holds throughout.                       *)
LEMMA PassiveInvariant == PassiveSpec => []PassiveInv
BY PassiveStarts, PassiveStepKeeps, PTL DEF PassiveSpec

(* Once a snapshot of an item was handled and no event of it was dropped,  *)
(* the events tell exactly that text, for any number of turns, deltas and  *)
(* lost connections, and any capacity of the channel and of the network.   *)
THEOREM PassiveTextIsExact == PassiveSpec => []PassiveTextExact
<1>1. PassiveInv => PassiveTextExact
  BY DEF PassiveInv
<1> QED
  BY <1>1, PassiveInvariant, PTL

-----------------------------------------------------------------------------
(* The results of a subscription: those that are due and no more, and the  *)
(* session is marked once one of its ends was told.                        *)
ResultsInv ==
    /\ results \in Nat /\ steps \in Nat /\ refused \in BOOLEAN
    /\ agent = "codex" => steps = 0
    /\ agent = "opencode" => (mem.completed <=> ended # {})
    /\ ResultsExact

(* A result more that is due.                                              *)
LEMMA ResultCounts ==
    ASSUME results \in Nat, refused \in BOOLEAN, ResultsExact, ResultsDue \in Nat, ResultsDue' = ResultsDue + 1,
           \/ results' = results + 1 /\ UNCHANGED refused
           \/ results' = results /\ refused' = TRUE
    PROVE  results' \in Nat /\ refused' \in BOOLEAN /\ ResultsExact'
<1> DEFINE d == ResultsDue
           e == ResultsDue'
<1>1. d \in Nat /\ e = d + 1 /\ results <= d /\ (~refused => results = d)
  BY DEF ResultsExact
<1>2. ResultsExact' <=> results' <= e /\ (~refused' => results' = e)
  BY DEF ResultsExact
<1> HIDE DEF d, e
<1>3. CASE results' = results + 1 /\ UNCHANGED refused
  <2>1. results' <= e /\ (results = d => results' = e)
    BY <1>1, <1>3
  <2> QED
    BY <1>1, <1>2, <1>3, <2>1
<1>4. CASE results' = results /\ refused' = TRUE
  <2>1. results' <= e
    BY <1>1, <1>4
  <2> QED
    BY <1>2, <1>4, <2>1
<1> QED
  BY <1>3, <1>4

(* The turns whose end was told can be counted.                            *)
LEMMA EndsCounted ==
    ASSUME PassiveInv, ResultsInv
    PROVE  IsFiniteSet(ended) /\ Cardinality(ended) \in Nat /\ ResultsDue \in Nat
<1>1. IsFiniteSet(1..MaxTurns)
  BY PassiveAssumption, FS_Interval
<1>2. IsFiniteSet(ended)
  BY <1>1, PassiveTyped, FS_Subset
<1>3. Cardinality(ended) \in Nat
  BY <1>2, FS_CardinalityType
<1> QED
  BY <1>2, <1>3 DEF ResultsInv, ResultsDue

(* The reader takes a message (readLoop).                                  *)
LEMMA ResultsReaderKeeps ==
    ASSUME PassiveInv, ResultsInv, ReadMessage
    PROVE  ResultsInv'
<1>1. net # <<>> /\ agent' = agent
  BY Zenon DEF ReadMessage
<1>m. PICK m \in Msgs : m = Head(net)
  BY <1>1, PassiveHead
<1>2. \/ m.kind = "started" /\ HandleStarted(m)
      \/ m.kind = "delta" /\ HandlePartDelta(m)
      \/ m.kind = "other" /\ HandleOther(m)
      \/ m.kind = "snapshot" /\ HandlePartUpdated(m)
      \/ m.kind = "completed" /\ agent = "codex" /\ ItemThenTurnCompleted(m)
      \/ m.kind = "completed" /\ agent = "opencode" /\ MessageUpdated(m)
      \/ m.kind = "idle" /\ SessionIdle(m)
      \/ m.kind = "step" /\ HandleStepFinish
  BY <1>m, Zenon DEF ReadMessage
<1>3. PICK s \in Servers, t \in Servers : Plays(s, m, t) /\ Hears(s)
  BY <1>1, <1>m, PassiveHead
<1>4. agent \in {"codex", "opencode"} /\ mem \in Mems
  BY PassiveTyped
<1>5. ResultsDue \in Nat /\ results \in Nat /\ steps \in Nat /\ refused \in BOOLEAN /\ ResultsExact
  BY EndsCounted DEF ResultsInv
<1>6. CASE m.kind \in {"started", "delta", "other", "snapshot"}
  <2>1. UNCHANGED <<results, refused, steps, ended>>
    BY <1>2, <1>6, Zenon DEF HandleStarted, HandlePartDelta, HandleOther, HandlePartUpdated, resultVars
  <2>2. \/ mem' = mem
        \/ \E n, x : mem' = [mem EXCEPT !.turn = n, !.content = x]
        \/ \E n, x : mem' = [mem EXCEPT !.turn = n, !.content = x, !.saw = FALSE]
        \/ \E n : mem' = [mem EXCEPT !.turn = n, !.saw = TRUE]
    BY <1>2, <1>6, Zenon DEF HandleStarted, HandlePartDelta, HandleOther, HandlePartUpdated, AppendPartContent,
                             StoreSawDelta, DeltaForPartSnapshot
  <2>3. mem'.completed = mem.completed
    BY <1>4, <2>2 DEF Mems
  <2> QED
    BY <1>1, <2>1, <2>3 DEF ResultsInv, ResultsExact, ResultsDue
<1>7. CASE m.kind = "completed" /\ agent = "codex"
  <2>1. /\ ended' = ended \cup {m.turn} /\ steps' = steps
        /\ \/ results' = results + 1 /\ refused' = refused
           \/ results' = results /\ refused' = TRUE
    <3>1. ItemThenTurnCompleted(m)
      BY <1>2, <1>7
    <3>2. PICK k \in {0, 1} : k = ItemTexts(m)
      BY DEF ItemTexts
    <3>3. /\ results' = IF evq + k < PassiveCap THEN results + 1 ELSE results
          /\ refused' = (refused \/ evq + k >= PassiveCap)
          /\ ended' = ended \cup {m.turn} /\ steps' = steps
      BY <3>1, <3>2, Zenon DEF ItemThenTurnCompleted
    <3>4. evq \in 0..PassiveCap
      BY PassiveTyped
    <3>5. CASE evq + k < PassiveCap
      <4>1. ~(evq + k >= PassiveCap)
        BY <3>2, <3>4, <3>5, PassiveAssumption
      <4> QED
        BY <1>5, <3>3, <3>5, <4>1
    <3>6. CASE ~(evq + k < PassiveCap)
      <4>1. evq + k >= PassiveCap
        BY <3>2, <3>4, <3>6, PassiveAssumption
      <4> QED
        BY <3>3, <3>6, <4>1
    <3> QED
      BY <3>5, <3>6
  <2>2. m.turn \notin ended
    <3>1. s.busy /\ m.turn = s.turn
      BY <1>3, <1>7 DEF Plays
    <3>2. \A x \in ended : x < s.turn
      BY <1>3, <1>7, <3>1 DEF Hears, EndsTold
    <3> QED
      BY <3>1, <3>2, PassiveTyped DEF Servers
  <2>3. Cardinality(ended') = Cardinality(ended) + 1
    BY <2>1, <2>2, EndsCounted, FS_AddElement
  <2>4. ResultsDue' = ResultsDue + 1
    BY <1>1, <1>7, <2>1, <2>3, EndsCounted, <1>5 DEF ResultsDue
  <2>5. results' \in Nat /\ refused' \in BOOLEAN /\ ResultsExact'
    BY <1>5, <2>1, <2>4, ResultCounts
  <2> QED
    BY <1>1, <1>7, <2>1, <2>5 DEF ResultsInv
<1>8. CASE (m.kind = "completed" /\ agent = "opencode") \/ m.kind = "idle"
  <2>0. agent = "opencode"
    BY <1>3, <1>8 DEF Plays
  <2>1. EmitResultOnce /\ ended' = ended \cup {m.turn} /\ steps' = steps
    BY <1>2, <1>8, <2>0, Zenon DEF MessageUpdated, SessionIdle
  <2>2. CASE mem.completed
    <3>1. UNCHANGED <<mem, results, refused>>
      BY <2>1, <2>2, Zenon DEF EmitResultOnce
    <3> QED
      BY <1>1, <2>0, <2>1, <2>2, <3>1 DEF ResultsInv, ResultsExact, ResultsDue
  <2>3. CASE ~mem.completed
    <3>1. EmitResult /\ mem' = [mem EXCEPT !.completed = TRUE]
      BY <2>1, <2>3, Zenon DEF EmitResultOnce
    <3>2. mem'.completed
      BY <1>4, <3>1, MemCompleted
    <3>3. ended = {}
      BY <2>0, <2>3 DEF ResultsInv
    <3>4. ResultsDue' = ResultsDue + 1
      BY <1>1, <1>5, <2>0, <2>1, <3>3 DEF ResultsDue
    <3>5. results' \in Nat /\ refused' \in BOOLEAN /\ ResultsExact'
      BY <1>5, <3>1, <3>4, ResultCounts, Zenon DEF EmitResult
    <3> QED
      BY <1>1, <1>5, <2>0, <2>1, <3>2, <3>5 DEF ResultsInv
  <2> QED
    BY <2>2, <2>3
<1>9. CASE m.kind = "step"
  <2>0. agent = "opencode"
    BY <1>3, <1>9 DEF Plays
  <2>1. EmitResult /\ steps' = steps + 1 /\ UNCHANGED <<mem, ended>>
    BY <1>2, <1>9, Zenon DEF HandleStepFinish
  <2>2. ResultsDue' = ResultsDue + 1
    BY <1>1, <1>5, <2>0, <2>1 DEF ResultsDue
  <2>3. results' \in Nat /\ refused' \in BOOLEAN /\ ResultsExact'
    BY <1>5, <2>1, <2>2, ResultCounts, Zenon DEF EmitResult
  <2> QED
    BY <1>1, <1>5, <2>0, <2>1, <2>3 DEF ResultsInv
<1> QED
  BY <1>2, <1>4, <1>6, <1>7, <1>8, <1>9, Zenon

(* Every step keeps the results.                                           *)
LEMMA ResultsStepKeeps ==
    ASSUME PassiveInv, ResultsInv, [PassiveNext]_passiveVars
    PROVE  ResultsInv'
<1>1. CASE UNCHANGED <<agent, mem, results, refused, steps, ended>>
  BY <1>1 DEF ResultsInv, ResultsExact, ResultsDue
<1>2. CASE Connect
  <2>1. agent' = agent /\ mem' = NoMem /\ results' = 0 /\ refused' = FALSE /\ steps' = 0 /\ ended' = {}
    BY <1>2, Zenon DEF Connect
  <2>2. Cardinality({}) = 0 /\ ~mem'.completed
    BY <2>1, FS_EmptySet DEF NoMem
  <2>3. ResultsDue' = 0
    BY <2>1, <2>2 DEF ResultsDue
  <2>4. ResultsExact'
    BY <2>1, <2>3 DEF ResultsExact
  <2>5. mem'.completed <=> ended' # {}
    BY <2>1, <2>2
  <2> QED
    BY <2>1, <2>4, <2>5 DEF ResultsInv
<1>3. CASE \/ ServerStartsTurn \/ ServerSaysDelta \/ ServerSaysOther \/ ServerRewrites \/ ServerSnapshot
           \/ ServerEndsStep \/ ServerEndsTurn \/ ServerSaysIdle
  <2>1. \E k : ServerSends(k)
    BY <1>3, Zenon DEF ServerStartsTurn, ServerSaysDelta, ServerSaysOther, ServerRewrites, ServerSnapshot,
                       ServerEndsStep, ServerEndsTurn, ServerSaysIdle
  <2> QED
    BY <1>1, <2>1, Zenon DEF ServerSends, toldVars, resultVars
<1>4. CASE \/ Lost \/ SubscribeFails \/ Initialized \/ Waited \/ RangeEvent \/ RangeEnds \/ Stop
           \/ ReadFails \/ CloseCalled \/ CloseFinds \/ CloseGivesTime \/ UNCHANGED passiveVars
  <2>1. UNCHANGED <<agent, mem, results, refused, steps, ended>>
    BY <1>4, Zenon DEF Lost, SubscribeFails, Initialized, Waited, RangeEvent, RangeEnds, Stop, ReadFails,
       CloseCalled, CloseFinds, CloseGivesTime, passiveVars, toldVars, resultVars
  <2> QED
    BY <1>1, <2>1
<1> QED
  BY <1>2, <1>3, <1>4, ResultsReaderKeeps, Zenon DEF PassiveNext

(* The ways a server says that a turn ended, repeated and mixed, over      *)
(* reconnects in the middle of a turn, add up to exactly the results that  *)
(* are due, less those that found the channel full: of Codex one for each  *)
(* turn whose end was told, of OpenCode one for each step_finish and one   *)
(* for all the other ends of the subscription.                             *)
THEOREM PassiveResultsAreExact == PassiveSpec => []ResultsExact
<1>1. PassiveInit => ResultsInv
  <2> SUFFICES ASSUME PassiveInit PROVE ResultsInv
    OBVIOUS
  <2>1. mem = NoMem /\ results = 0 /\ refused = FALSE /\ steps = 0 /\ ended = {}
    BY Zenon DEF PassiveInit
  <2>2. Cardinality({}) = 0 /\ ~mem.completed
    BY <2>1, FS_EmptySet DEF NoMem
  <2>3. ResultsDue = 0
    BY <2>1, <2>2 DEF ResultsDue
  <2>4. ResultsExact
    BY <2>1, <2>3 DEF ResultsExact
  <2>5. mem.completed <=> ended # {}
    BY <2>1, <2>2
  <2> QED
    BY <2>1, <2>4, <2>5 DEF ResultsInv
<1>2. ResultsInv => ResultsExact
  BY DEF ResultsInv
<1> QED
  BY <1>1, <1>2, PassiveInvariant, ResultsStepKeeps, PTL DEF PassiveSpec
=============================================================================
