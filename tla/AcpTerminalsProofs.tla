------------------------- MODULE AcpTerminalsProofs -------------------------
(***************************************************************************)
(* Proofs about AcpTerminals, for any paths, contexts, number of requests  *)
(* and length of output: what an agent may have written, where its         *)
(* terminals are, and what becomes of their lines.                         *)
(***************************************************************************)
EXTENDS AcpTerminals, SequenceTheorems, TLAPS

\* A request is counted until it is served, so that numbers do not run out.
Numbered == nextId + Len(inbox) + (IF reader = "called" THEN 1 ELSE 0) <= asked + 1

Running(t) == process[t] = "running"
InCreation(t) == reader \in {"spawn", "store"} /\ t = current.arg

\* With a context no terminal comes about, and nothing below the context is written.
Refused ==
    /\ registered \cap (Methods \ {"write"}) # {} => context = {}
    /\ reader = "called" => current.method \in registered
    /\ reader \in {"spawn", "store"} => context = {}
    /\ \A t \in Tids : process[t] # "none" => context = {}
    /\ ContextUntouched

\* A terminal that is being created is new to everybody.
Fresh ==
    /\ \A t \in terminals \cup todo : t < nextId /\ process[t] # "none"
    /\ victim["closer"] < nextId
    /\ \A t \in Tids : t >= nextId => process[t] = "none"
    /\ reader \in {"spawn", "store"} =>
         /\ current.arg \in Tids /\ current.arg < nextId
         /\ current.arg \notin terminals \cup todo /\ current.arg # victim["closer"]
    /\ reader = "spawn" => process[current.arg] = "none"
    /\ reader = "store" => process[current.arg] # "none"

\* What works is in the table, or about to be put there.
Known == \A t \in Tids : Running(t) => t \in terminals \/ (reader = "store" /\ t = current.arg)

\* A release kills before it forgets.
Hands ==
    /\ \A w \in Threads : killed[w] => victim[w] # 0 /\ ~Running(victim[w])
    /\ victim["reader"] # 0 => At("called", "release")
    /\ closer # "releasing" => todo = {} /\ victim["closer"] = 0

\* What works while the client is closed is on the list, in hand, or came too late for it.
Closing ==
    closer # "idle" =>
        /\ \A t \in Tids : Running(t) => t \in todo \cup late \/ t = victim["closer"]
        /\ \A t \in Tids : InCreation(t) => t \in late

Numbers(n) == [k \in 1 .. n |-> k]

\* OutputOnce, of one terminal.
LinedUp(t) ==
    /\ t \in terminals => (shown[t] \o buffers[t]) \o pipe[t] = Numbers(printed[t])
    /\ IsPrefix(shown[t], Numbers(printed[t]))

\* Before a terminal has a buffer, all its lines are in the pipe.
Lines ==
    /\ \A t \in Tids : process[t] = "none" => printed[t] = 0 /\ pipe[t] = <<>> /\ shown[t] = <<>>
    /\ reader = "store" => /\ pipe[current.arg] = Numbers(printed[current.arg])
                           /\ shown[current.arg] = <<>>
    /\ \A t \in Tids : LinedUp(t)

IInv == TypeOK /\ Numbered /\ Refused /\ Fresh /\ Known /\ Hands /\ Closing /\ Lines

USE BoundsAssumption DEF Running, InCreation

-----------------------------------------------------------------------------
(* Sequences of lines *)

LEMMA NumbersSeq ==
  ASSUME NEW n \in Nat
  PROVE  Numbers(n) \in Seq(Nat) /\ Len(Numbers(n)) = n
  BY DEF Numbers

LEMMA NumbersGrow ==
  ASSUME NEW n \in Nat
  PROVE  Numbers(n + 1) = Append(Numbers(n), n + 1)
  <1> DEFINE s == Numbers(n + 1)
             t == Append(Numbers(n), n + 1)
  <1>1. s \in Seq(Nat) /\ Len(s) = n + 1
    BY NumbersSeq
  <1>2. /\ t \in Seq(Nat) /\ Len(t) = n + 1
        /\ \A i \in 1 .. n : t[i] = Numbers(n)[i]
        /\ t[n + 1] = n + 1
    <2> DEFINE m == Numbers(n)
    <2>1. m \in Seq(Nat) /\ Len(m) = n /\ n + 1 \in Nat
      BY NumbersSeq
    <2> HIDE DEF m
    <2>2. /\ Append(m, n + 1) \in Seq(Nat) /\ Len(Append(m, n + 1)) = Len(m) + 1
          /\ \A i \in 1 .. Len(m) : Append(m, n + 1)[i] = m[i]
          /\ Append(m, n + 1)[Len(m) + 1] = n + 1
      BY <2>1, AppendProperties
    <2> QED BY <2>1, <2>2 DEF m
  <1>3. \A i \in 1 .. n + 1 : s[i] = t[i]
    BY <1>2 DEF Numbers
  <1> HIDE DEF s, t
  <1>4. s = t
    BY <1>1, <1>2, <1>3, SeqEqual
  <1> QED BY <1>4 DEF s, t

LEMMA Regroup ==
  ASSUME NEW s \in Seq(Nat), NEW t \in Seq(Nat), NEW u \in Seq(Nat)
  PROVE  (s \o t) \o u = s \o (t \o u)
  BY ConcatAssociative

\* A line that is printed comes after all others.
LEMMA PrintedLast ==
  ASSUME NEW s \in Seq(Nat), NEW p \in Seq(Nat), NEW n \in Nat
  PROVE  s \o Append(p, n) = Append(s \o p, n)
  <1>1. Append(p, n) = p \o <<n>> /\ <<n>> \in Seq(Nat) /\ s \o p \in Seq(Nat)
    BY AppendIsConcat, ConcatProperties
  <1>2. s \o (p \o <<n>>) = (s \o p) \o <<n>>
    BY <1>1, ConcatAssociative
  <1>3. Append(s \o p, n) = (s \o p) \o <<n>>
    BY <1>1, AppendIsConcat
  <1> QED BY <1>1, <1>2, <1>3

\* A line that is pumped stays in its place.
LEMMA PumpedInPlace ==
  ASSUME NEW s \in Seq(Nat), NEW b \in Seq(Nat), NEW p \in Seq(Nat), p # <<>>
  PROVE  (s \o Append(b, Head(p))) \o Tail(p) = (s \o b) \o p
  <1> DEFINE h == <<Head(p)>>
  <1>1. Head(p) \in Nat /\ Tail(p) \in Seq(Nat) /\ h \in Seq(Nat) /\ s \o b \in Seq(Nat)
    BY HeadTailProperties, ConcatProperties
  <1>2. Append(b, Head(p)) = b \o h
    BY <1>1, AppendIsConcat
  <1>3. h \o Tail(p) = p
    <2>1. /\ Len(p) \in Nat \ {0} /\ Len(Tail(p)) = Len(p) - 1 /\ Len(h) = 1 /\ h[1] = p[1]
          /\ \A i \in 1 .. Len(Tail(p)) : Tail(p)[i] = p[i + 1]
      BY EmptySeq, HeadTailProperties
    <2> DEFINE q == h \o Tail(p)
    <2>2. /\ q \in Seq(Nat) /\ Len(q) = Len(h) + Len(Tail(p))
          /\ \A i \in 1 .. Len(h) + Len(Tail(p)) :
                q[i] = IF i <= Len(h) THEN h[i] ELSE Tail(p)[i - Len(h)]
      BY <1>1, ConcatProperties
    <2> HIDE DEF q, h
    <2>3. Len(q) = Len(p) /\ \A i \in 1 .. Len(q) : q[i] = p[i]
      BY <2>1, <2>2
    <2>4. q = p
      BY <2>2, <2>3, SeqEqual
    <2> QED BY <2>4 DEF q
  <1> HIDE DEF h
  <1>4. (s \o (b \o h)) \o Tail(p) = ((s \o b) \o h) \o Tail(p)
    BY <1>1, ConcatAssociative
  <1>5. ASSUME NEW q \in Seq(Nat)
        PROVE  (q \o h) \o Tail(p) = q \o (h \o Tail(p))
    BY <1>1, Regroup
  <1> QED BY <1>1, <1>2, <1>3, <1>4, <1>5, AppendProperties

LEMMA PrefixOfConcat ==
  ASSUME NEW s \in Seq(Nat), NEW t \in Seq(Nat)
  PROVE  IsPrefix(s, s \o t)
  <1>1. Len(s) \in Nat /\ Len(t) \in Nat /\ Len(s \o t) = Len(s) + Len(t)
    BY LenProperties, ConcatProperties
  <1>2. SubSeq(s, 1, Len(s)) = SubSeq(s \o t, 1, Len(s))
    <2>1. CASE s = <<>>
      BY <2>1, <1>1, SubSeqEmpty, EmptySeq
    <2>2. CASE s # <<>>
      BY <2>2, <1>1, SubSeqOfConcat1, EmptySeq
    <2> QED BY <2>1, <2>2
  <1> QED BY <1>1, <1>2 DEF IsPrefix

LEMMA PrefixAppend ==
  ASSUME NEW s \in Seq(Nat), NEW t \in Seq(Nat), NEW n \in Nat, IsPrefix(s, t)
  PROVE  IsPrefix(s, Append(t, n))
  <1>1. Len(s) \in Nat /\ Len(t) \in Nat /\ Len(s) <= Len(t) /\ <<n>> \in Seq(Nat)
    BY LenProperties DEF IsPrefix
  <1>2. Append(t, n) = t \o <<n>> /\ Len(t \o <<n>>) = Len(t) + 1
    BY <1>1, AppendIsConcat, ConcatProperties
  <1>3. SubSeq(t \o <<n>>, 1, Len(s)) = SubSeq(t, 1, Len(s))
    <2>1. CASE Len(s) = 0
      BY <2>1, <1>1, SubSeqEmpty
    <2>2. CASE Len(s) # 0
      BY <2>2, <1>1, SubSeqOfConcat1
    <2> QED BY <2>1, <2>2
  <1> QED BY <1>1, <1>2, <1>3 DEF IsPrefix

-----------------------------------------------------------------------------
(* The beginning *)

LEMMA InvInit == Init => IInv
  <1> SUFFICES ASSUME Init PROVE IInv
    OBVIOUS
  <1> USE DEF Init, At
  <1>1. TypeOK
    BY EmptySeq DEF TypeOK, Threads
  <1>2. Numbered /\ Refused /\ Fresh /\ Known /\ Hands /\ Closing
    BY DEF Numbered, Refused, ContextUntouched, Fresh, Known, Hands, Closing, Threads
  <1>3. Lines
    <2>1. IsPrefix(<<>>, Numbers(0))
      BY NumbersSeq, SubSeqEmpty, EmptySeq DEF IsPrefix
    <2> QED BY <2>1 DEF Lines, LinedUp
  <1> QED BY <1>1, <1>2, <1>3 DEF IInv

-----------------------------------------------------------------------------
(* Types and numbers *)

LEMMA AskedTypes ==
  ASSUME TypeOK, Numbered, Asks
  PROVE  TypeOK' /\ Numbered'
  <1> USE DEF Asks, setVars, readerVars, tableVars, releaseVars, closeVars
  <1>1. PICK r \in Requests(1 .. nextId) : inbox' = Append(inbox, r)
    OBVIOUS
  <1>2. nextId \in Tids /\ (reader = "called" => nextId + 1 <= asked + 1) /\ nextId <= asked + 1
    BY EmptySeq DEF TypeOK, Numbered, Tids
  <1>3. r \in Requests(Tids)
    BY <1>2 DEF Requests, Tids
  <1>4. inbox' \in Seq(Requests(Tids)) /\ Len(inbox') = 1
    BY <1>1, <1>3, AppendProperties, EmptySeq DEF TypeOK
  <1>5. TypeOK'
    BY <1>4 DEF TypeOK
  <1>6. Numbered'
    BY <1>2, <1>4 DEF TypeOK, Numbered
  <1> QED BY <1>5, <1>6

LEMMA ReadTypes ==
  ASSUME TypeOK, Numbered, ReadRequest
  PROVE  TypeOK' /\ Numbered' /\ current' \in Requests(Tids)
  <1> USE DEF ReadRequest, setVars, tableVars, releaseVars, closeVars
  <1>1. /\ Head(inbox) \in Requests(Tids) /\ Tail(inbox) \in Seq(Requests(Tids))
        /\ Len(Tail(inbox)) = Len(inbox) - 1 /\ Len(inbox) \in Nat
    BY HeadTailProperties, LenProperties DEF TypeOK
  <1>2. TypeOK'
    BY <1>1 DEF TypeOK, Served
  <1>3. Numbered'
    BY <1>1 DEF TypeOK, Numbered
  <1> QED BY <1>1, <1>2, <1>3

\* A create that is served has a number left.
LEMMA TakeIdTypes ==
  ASSUME TypeOK, Numbered, TakeId
  PROVE  TypeOK' /\ Numbered' /\ nextId \in Tids
  <1> USE DEF TakeId, At, rest, setVars, agentVars, releaseVars, closeVars
  <1>1. Len(inbox) \in Nat
    BY LenProperties DEF TypeOK
  <1>2. nextId \in Tids /\ nextId + 1 <= asked + 1
    BY <1>1 DEF TypeOK, Numbered, Tids
  <1>3. current' \in [method : {"create"}, arg : Tids]
    BY <1>2 DEF TypeOK, Served, Requests, Nobody, Methods
  <1>4. TypeOK'
    <2>1. nextId' \in 1 .. MaxAsked + 1
      BY <1>2 DEF TypeOK, Tids
    <2>2. current' \in Served \cup {Nobody}
      BY <1>3 DEF Served
    <2>3. late' \subseteq Tids
      BY <1>2 DEF TypeOK
    <2> QED BY <2>1, <2>2, <2>3 DEF TypeOK
  <1>5. Numbered'
    BY <1>1 DEF TypeOK, Numbered
  <1> QED BY <1>2, <1>4, <1>5

LEMMA KilledTypes ==
  ASSUME TypeOK, NEW t \in Tids
  PROVE  /\ Killed(t) \in [Tids -> {"none", "running", "ended", "killed"}]
         /\ \A u \in Tids : Killed(t)[u] = "none" <=> process[u] = "none"
         /\ \A u \in Tids : Killed(t)[u] = "running" <=> Running(u) /\ u # t
  BY DEF TypeOK, Killed

\* The handlers of one step.
LEMMA HandlerTypes ==
  ASSUME TypeOK, Numbered, Fresh,
         FsWrite \/ Spawn \/ Store \/ Output \/ WaitForExit \/ Kill \/ Release \/ Reply \/ EndOfOutput
  PROVE  TypeOK' /\ Numbered'
  <1> USE DEF rest, At, setVars, agentVars, readerVars, tableVars, releaseVars, closeVars
  <1>1. Len(inbox) \in Nat
    BY LenProperties DEF TypeOK
  <1>2. CASE FsWrite
    <2>1. changed' \subseteq Paths
      BY <1>2 DEF FsWrite, TypeOK, Served, Requests, Nobody, Methods
    <2> QED BY <1>1, <1>2, <2>1 DEF FsWrite, TypeOK, Numbered
  <1>3. CASE Spawn
    BY <1>1, <1>3 DEF Spawn, TypeOK, Numbered, Fresh
  <1>4. CASE Store
    <2>1. terminals' \subseteq Tids
      BY <1>4 DEF Store, TypeOK, Fresh
    <2>2. buffers' \in [terminals' -> Seq(Nat)]
      BY <1>4, EmptySeq DEF Store, TypeOK
    <2> QED BY <1>1, <1>4, <2>1, <2>2 DEF Store, TypeOK, Numbered
  <1>5. CASE Output
    <2>1. ASSUME current.arg \in terminals
          PROVE  /\ shown[current.arg] \o buffers[current.arg] \in Seq(Nat)
                 /\ <<>> \in Seq(Nat) /\ current.arg \in Tids
      BY <2>1, ConcatProperties DEF TypeOK
    <2>2. DOMAIN buffers = terminals
      BY DEF TypeOK
    <2>3. shown' \in [Tids -> Seq(Nat)] /\ buffers' \in [terminals -> Seq(Nat)]
      BY <1>5, <2>1, <2>2 DEF Output, TypeOK
    <2> QED BY <1>1, <1>5, <2>3 DEF Output, TypeOK, Numbered
  <1>6. CASE WaitForExit \/ Kill
    <2>1. process' \in [Tids -> {"none", "running", "ended", "killed"}]
      BY <1>6, KilledTypes DEF WaitForExit, Kill, TypeOK
    <2>2. /\ reader' = "reply"
          /\ UNCHANGED <<rest, current, pipe, tableVars, shown, changed>>
      BY <1>6 DEF WaitForExit, Kill
    <2>3. Numbered'
      BY <1>1, <2>2 DEF Numbered, TypeOK
    <2>4. TypeOK'
      BY <2>1, <2>2 DEF TypeOK
    <2> QED BY <2>3, <2>4
  <1>7. CASE Release
    <2>1. current.arg \in Tids
      BY <1>7 DEF Release, TypeOK, Served, Requests, Nobody, Methods
    <2> QED BY <1>1, <1>7, <2>1 DEF Release, Releases, TypeOK, Numbered, Threads
  <1>8. CASE Reply \/ EndOfOutput
    BY <1>1, <1>8 DEF Reply, EndOfOutput, TypeOK, Numbered
  <1> QED BY <1>2, <1>3, <1>4, <1>5, <1>6, <1>7, <1>8

\* The agent, its commands and the output threads.
LEMMA EnvironmentTypes ==
  ASSUME TypeOK, Numbered,
         Register \/ AgentExits \/ \E t \in Tids : Works(t) \/ Ends(t) \/ Pump(t)
  PROVE  TypeOK' /\ Numbered'
  <1> USE DEF rest, setVars, agentVars, readerVars, tableVars, releaseVars, closeVars
  <1>1. CASE Register
    BY <1>1 DEF Register, TypeOK, Numbered, Methods
  <1>2. CASE AgentExits
    BY <1>2 DEF AgentExits, TypeOK, Numbered
  <1>3. ASSUME NEW t \in Tids, Works(t)
        PROVE  TypeOK' /\ Numbered'
    <2>1. printed' \in [Tids -> 0 .. MaxLines] /\ printed'[t] \in Nat
      BY <1>3 DEF Works, TypeOK
    <2>2. pipe' \in [Tids -> Seq(Nat)]
      BY <1>3, <2>1, AppendProperties DEF Works, TypeOK
    <2> QED BY <1>3, <2>1, <2>2 DEF Works, TypeOK, Numbered
  <1>4. ASSUME NEW t \in Tids, Ends(t)
        PROVE  TypeOK' /\ Numbered'
    BY <1>4 DEF Ends, TypeOK, Numbered
  <1>5. ASSUME NEW t \in Tids, Pump(t)
        PROVE  TypeOK' /\ Numbered'
    <2>1. Head(pipe[t]) \in Nat /\ Tail(pipe[t]) \in Seq(Nat)
      BY <1>5, HeadTailProperties DEF Pump, TypeOK
    <2>2. t \in terminals => Append(buffers[t], Head(pipe[t])) \in Seq(Nat)
      BY <2>1, AppendProperties DEF TypeOK
    <2>3. pipe' \in [Tids -> Seq(Nat)]
      BY <1>5, <2>1 DEF Pump, TypeOK
    <2>4. buffers' \in [terminals -> Seq(Nat)]
      BY <1>5, <2>2 DEF Pump, TypeOK
    <2> QED BY <1>5, <2>3, <2>4 DEF Pump, TypeOK, Numbered
  <1> QED BY <1>1, <1>2, <1>3, <1>4, <1>5

LEMMA CloseTypes ==
  ASSUME TypeOK, Numbered, Fresh,
         CloseAll \/ CloseOne \/ CloseTransport
           \/ \E w \in Threads : ReleaseKill(w) \/ ReleaseForget(w)
  PROVE  TypeOK' /\ Numbered'
  <1> USE DEF setVars, agentVars, readerVars, tableVars, releaseVars, closeVars
  <1>1. CASE CloseAll
    <2>1. late' \subseteq Tids
      BY <1>1 DEF CloseAll, Fresh
    <2> QED BY <1>1, <2>1 DEF CloseAll, TypeOK, Numbered
  <1>2. CASE CloseOne
    BY <1>2 DEF CloseOne, Releases, TypeOK, Numbered, Threads
  <1>3. CASE CloseTransport
    BY <1>3 DEF CloseTransport, TypeOK, Numbered
  <1>4. ASSUME NEW w \in Threads, ReleaseKill(w)
        PROVE  TypeOK' /\ Numbered'
    <2>1. victim[w] \in Tids
      BY <1>4 DEF ReleaseKill, TypeOK
    <2>2. process' \in [Tids -> {"none", "running", "ended", "killed"}]
      BY <1>4, <2>1, KilledTypes DEF ReleaseKill, TypeOK
    <2> QED BY <1>4, <2>2 DEF ReleaseKill, TypeOK, Numbered
  <1>5. ASSUME NEW w \in Threads, ReleaseForget(w)
        PROVE  TypeOK' /\ Numbered'
    <2>1. buffers' \in [terminals' -> Seq(Nat)] /\ terminals' \subseteq Tids
      BY <1>5 DEF ReleaseForget, TypeOK
    <2>2. reader' \in {"read", "called", "spawn", "store", "reply", "over"}
      BY <1>5 DEF ReleaseForget, TypeOK
    <2>3. Numbered'
      BY <1>5, LenProperties DEF ReleaseForget, Numbered, TypeOK
    <2> QED BY <1>5, <2>1, <2>2, <2>3 DEF ReleaseForget, TypeOK
  <1> QED BY <1>1, <1>2, <1>3, <1>4, <1>5

LEMMA TypeStep == IInv /\ [Next]_vars => TypeOK' /\ Numbered'
  <1> SUFFICES ASSUME IInv, [Next]_vars PROVE TypeOK' /\ Numbered'
    OBVIOUS
  <1> USE DEF IInv
  <1>1. CASE Next
    BY <1>1, AskedTypes, ReadTypes, TakeIdTypes, HandlerTypes, EnvironmentTypes, CloseTypes
       DEF Next, ReaderStep
  <1>2. CASE UNCHANGED vars
    BY <1>2 DEF vars, setVars, agentVars, readerVars, tableVars, releaseVars, closeVars,
                TypeOK, Numbered
  <1> QED BY <1>1, <1>2

-----------------------------------------------------------------------------
(* Steps that do not matter here *)

\* What a step leaves alone that neither the reader's place nor any terminal knows of.
Aside ==
    UNCHANGED <<setVars, registered, readerVars, process, tableVars, releaseVars, closeVars, changed>>

LEMMA AsideSteps ==
  ASSUME Asks \/ AgentExits \/ UNCHANGED vars
  PROVE  Aside /\ UNCHANGED <<pipe, printed, shown>>
  BY DEF Aside, Asks, AgentExits, vars, setVars, readerVars, tableVars, releaseVars, closeVars

\* What kind of step any other is.
LEMMA OtherSteps ==
  ASSUME [Next]_vars
  PROVE  \/ Asks \/ AgentExits \/ UNCHANGED vars
         \/ Register \/ ReadRequest \/ FsWrite \/ TakeId \/ Spawn \/ Store \/ Output
         \/ WaitForExit \/ Kill \/ Release \/ Reply \/ EndOfOutput
         \/ CloseAll \/ CloseOne \/ CloseTransport
         \/ \E t \in Tids : Works(t) \/ Ends(t) \/ Pump(t)
         \/ \E w \in Threads : ReleaseKill(w) \/ ReleaseForget(w)
  BY DEF Next, ReaderStep

-----------------------------------------------------------------------------
(* The context *)

LEMMA WrittenAside ==
  ASSUME TypeOK, Refused, FsWrite
  PROVE  ContextUntouched'
  <1>1. ASSUME NEW path \in changed'
        PROVE  ~Under(path, context)'
    <2>1. CASE path \in changed
      BY <2>1 DEF Refused, ContextUntouched, FsWrite, rest, setVars, Under
    <2>2. CASE path \notin changed
      BY <1>1, <2>2 DEF FsWrite, rest, setVars, Under, PathWritable
    <2> QED BY <2>1, <2>2
  <1> QED BY <1>1 DEF ContextUntouched

LEMMA RefusedStep == IInv /\ [Next]_vars => Refused'
  <1> SUFFICES ASSUME IInv, [Next]_vars PROVE Refused'
    OBVIOUS
  <1> USE DEF rest, At, setVars, agentVars, readerVars, tableVars, releaseVars, closeVars
  <1>i. TypeOK /\ Refused
    BY DEF IInv
  <1>1. CASE Asks \/ AgentExits \/ UNCHANGED vars
    BY <1>1, <1>i, AsideSteps DEF Aside, Refused, ContextUntouched, Under
  <1>2. CASE Register
    <2>1. registered' \cap (Methods \ {"write"}) # {} => context = {}
      BY <1>2 DEF Register, TerminalEnabled, Methods
    <2>2. reader # "called"
      BY <1>2, <1>i DEF Register, Refused
    <2> QED BY <1>2, <1>i, <2>1, <2>2 DEF Register, Refused, ContextUntouched, Under
  <1>3. CASE ReadRequest
    BY <1>3, <1>i DEF ReadRequest, Refused, ContextUntouched, Under
  <1>4. CASE FsWrite
    BY <1>4, <1>i, WrittenAside DEF FsWrite, Refused
  <1>5. CASE TakeId
    BY <1>5, <1>i DEF TakeId, Methods, Refused, ContextUntouched, Under
  <1>6. CASE Spawn
    BY <1>6, <1>i DEF Spawn, TypeOK, Refused, ContextUntouched, Under
  <1>7. CASE Store \/ Output \/ Reply \/ EndOfOutput
    BY <1>7, <1>i DEF Store, Output, Reply, EndOfOutput, Refused, ContextUntouched, Under
  <1>8. CASE WaitForExit \/ Kill
    BY <1>8, <1>i DEF WaitForExit, Kill, Killed, TypeOK, Refused, ContextUntouched, Under
  <1>9. CASE Release \/ CloseAll \/ CloseOne \/ CloseTransport
    BY <1>9, <1>i DEF Release, CloseAll, CloseOne, CloseTransport, Refused, ContextUntouched, Under
  <1>10. ASSUME NEW t \in Tids, Works(t)
         PROVE  Refused'
    <2>1. context = {}
      BY <1>10, <1>i DEF Works, Refused
    <2> QED BY <1>10, <1>i, <2>1 DEF Works, Refused, ContextUntouched, Under
  <1>11. ASSUME NEW t \in Tids, Ends(t) \/ Pump(t)
         PROVE  Refused'
    BY <1>11, <1>i DEF Ends, Pump, TypeOK, Refused, ContextUntouched, Under
  <1>12. ASSUME NEW w \in Threads, ReleaseKill(w) \/ ReleaseForget(w)
         PROVE  Refused'
    BY <1>12, <1>i DEF ReleaseKill, ReleaseForget, Killed, TypeOK, Refused, ContextUntouched, Under
  <1> QED BY <1>1, <1>2, <1>3, <1>4, <1>5, <1>6, <1>7, <1>8, <1>9, <1>10, <1>11, <1>12, OtherSteps

-----------------------------------------------------------------------------
(* Where the terminals are *)

LEMMA FreshStep == IInv /\ [Next]_vars => Fresh'
  <1> SUFFICES ASSUME IInv, [Next]_vars PROVE Fresh'
    OBVIOUS
  <1> USE DEF rest, At, setVars, agentVars, readerVars, tableVars, releaseVars, closeVars
  <1>i. TypeOK /\ Fresh /\ Numbered
    BY DEF IInv
  <1>1. CASE Asks \/ AgentExits \/ UNCHANGED vars
    BY <1>1, <1>i, AsideSteps DEF Aside, Fresh
  <1>2. CASE Register \/ ReadRequest \/ FsWrite \/ Output \/ Reply \/ EndOfOutput \/ CloseTransport
    BY <1>2, <1>i DEF Register, ReadRequest, FsWrite, Output, Reply, EndOfOutput, CloseTransport, Fresh
  <1>3. CASE TakeId
    <2>1. nextId \in Tids /\ nextId \in Nat
      BY <1>3, <1>i, TakeIdTypes DEF Tids
    <2>4. victim["closer"] \in Nat
      BY <1>i DEF TypeOK, Tids, Threads
    <2>2. \A t \in Tids : t \in Nat
      BY DEF Tids
    <2>3. current'.arg = nextId
      BY <1>3, <1>i DEF TakeId, TypeOK, Served, Requests, Nobody
    <2>5. process[nextId] = "none"
      BY <1>i, <2>1 DEF Fresh
    <2>6. \A t \in terminals \cup todo : t \in Nat /\ t < nextId /\ process[t] # "none"
      BY <1>i, <2>2 DEF TypeOK, Fresh
    <2>7. victim["closer"] < nextId /\ \A t \in Tids : t >= nextId => process[t] = "none"
      BY <1>i DEF Fresh
    <2>8. /\ nextId' = nextId + 1 /\ reader' = "spawn"
          /\ UNCHANGED <<terminals, todo, process, victim>>
      BY <1>3 DEF TakeId
    <2> QED BY ONLY <2>1, <2>2, <2>3, <2>4, <2>5, <2>6, <2>7, <2>8 DEF Fresh
  <1>4. CASE Spawn
    <2>1. /\ current.arg \in Tids /\ current.arg < nextId
          /\ current.arg \notin terminals \cup todo /\ current.arg # victim["closer"]
      BY <1>4, <1>i DEF Spawn, Fresh
    <2>2. /\ \A t \in Tids \ {current.arg} : process'[t] = process[t]
          /\ reader' = "store" => process'[current.arg] = "running"
      BY <1>4, <1>i, <2>1 DEF Spawn, TypeOK
    <2>3. \A t \in Tids : t >= nextId => t # current.arg
      BY <1>i, <2>1 DEF TypeOK, Tids
    <2>4. terminals \cup todo \subseteq Tids
      BY <1>i DEF TypeOK
    <2> QED BY <1>4, <1>i, <2>1, <2>2, <2>3, <2>4 DEF Spawn, Fresh
  <1>5. CASE Store
    BY <1>5, <1>i DEF Store, Fresh
  <1>6. CASE WaitForExit \/ Kill
    <2>1. \A u \in Tids : process'[u] = "none" <=> process[u] = "none"
      BY <1>6, <1>i, KilledTypes DEF WaitForExit, Kill, TypeOK
    <2> QED BY <1>6, <1>i, <2>1 DEF WaitForExit, Kill, TypeOK, Fresh
  <1>7. CASE Release
    BY <1>7, <1>i DEF Release, Releases, TypeOK, Threads, Fresh
  <1>8. CASE CloseAll
    BY <1>8, <1>i DEF CloseAll, Fresh
  <1>9. CASE CloseOne
    BY <1>9, <1>i DEF CloseOne, Releases, TypeOK, Threads, Fresh
  <1>10. ASSUME NEW t \in Tids, Works(t) \/ Ends(t) \/ Pump(t)
         PROVE  Fresh'
    <2>1. UNCHANGED <<terminals, todo, nextId, victim, reader, current>>
      BY <1>10 DEF Works, Ends, Pump
    <2>2. \A u \in Tids : process'[u] = "none" <=> process[u] = "none"
      BY <1>10, <1>i DEF Works, Ends, Pump, TypeOK
    <2>3. terminals \cup todo \subseteq Tids
      BY <1>i DEF TypeOK
    <2> QED BY <1>i, <2>1, <2>2, <2>3 DEF Fresh
  <1>11. ASSUME NEW w \in Threads, ReleaseKill(w)
         PROVE  Fresh'
    <2>1. \A u \in Tids : process'[u] = "none" <=> process[u] = "none"
      BY <1>11, <1>i, KilledTypes DEF ReleaseKill, TypeOK
    <2> QED BY <1>11, <1>i, <2>1 DEF ReleaseKill, TypeOK, Fresh
  <1>12. ASSUME NEW w \in Threads, ReleaseForget(w)
         PROVE  Fresh'
    <2>1. 0 < nextId /\ victim'["closer"] \in {0, victim["closer"]}
      BY <1>12, <1>i DEF ReleaseForget, TypeOK, Threads
    <2>2. reader' \in {"spawn", "store"} => reader' = reader /\ current.arg # 0
      BY <1>12, <1>i DEF ReleaseForget, Fresh, Tids
    <2>3. /\ terminals' \subseteq terminals
          /\ UNCHANGED <<todo, process, nextId, current>>
      BY <1>12 DEF ReleaseForget
    <2> QED BY <1>i, <2>1, <2>2, <2>3 DEF Fresh
  <1> QED BY <1>1, <1>2, <1>3, <1>4, <1>5, <1>6, <1>7, <1>8, <1>9, <1>10, <1>11, <1>12, OtherSteps

LEMMA KnownStep == IInv /\ [Next]_vars => Known'
  <1> SUFFICES ASSUME IInv, [Next]_vars PROVE Known'
    OBVIOUS
  <1> USE DEF rest, At, setVars, agentVars, readerVars, tableVars, releaseVars, closeVars
  <1>i. TypeOK /\ Known /\ Hands /\ Fresh
    BY DEF IInv
  <1>1. CASE Asks \/ AgentExits \/ UNCHANGED vars
    BY <1>1, <1>i, AsideSteps DEF Aside, Known
  <1>2. CASE \/ Register \/ ReadRequest \/ FsWrite \/ TakeId \/ Output \/ Release \/ Reply \/ EndOfOutput
             \/ CloseAll \/ CloseOne \/ CloseTransport
    BY <1>2, <1>i DEF Register, ReadRequest, FsWrite, TakeId, Output, Release, Reply, EndOfOutput,
                      CloseAll, CloseOne, CloseTransport, Known
  <1>3. CASE Spawn \/ Store
    BY <1>3, <1>i DEF Spawn, Store, TypeOK, Known
  <1>4. CASE WaitForExit \/ Kill
    <2>1. \A u \in Tids : process'[u] = "running" => Running(u)
      BY <1>4, <1>i, KilledTypes DEF WaitForExit, Kill, TypeOK
    <2> QED BY <1>4, <1>i, <2>1 DEF WaitForExit, Kill, Known
  <1>5. ASSUME NEW t \in Tids, Works(t) \/ Ends(t) \/ Pump(t)
        PROVE  Known'
    BY <1>5, <1>i DEF Works, Ends, Pump, TypeOK, Known
  <1>6. ASSUME NEW w \in Threads, ReleaseKill(w)
        PROVE  Known'
    <2>1. \A u \in Tids : process'[u] = "running" => Running(u)
      BY <1>6, <1>i, KilledTypes DEF ReleaseKill, TypeOK
    <2> QED BY <1>6, <1>i, <2>1 DEF ReleaseKill, Known
  <1>7. ASSUME NEW w \in Threads, ReleaseForget(w)
        PROVE  Known'
    <2>1. ~Running(victim[w])
      BY <1>7, <1>i DEF ReleaseForget, Hands
    <2>2. reader' = "store" <=> reader = "store"
      BY <1>7, <1>i DEF ReleaseForget, Hands
    <2> QED BY <1>7, <1>i, <2>1, <2>2 DEF ReleaseForget, Known
  <1> QED BY <1>1, <1>2, <1>3, <1>4, <1>5, <1>6, <1>7, OtherSteps

\* The other handlers run only when the release is over.
LEMMA HandlersEnd ==
  ASSUME IInv, FsWrite \/ TakeId \/ Output \/ WaitForExit \/ Kill
  PROVE  victim["reader"] = 0
  BY DEF IInv, Hands, At, FsWrite, TakeId, Output, WaitForExit, Kill

LEMMA HandsStep == IInv /\ [Next]_vars => Hands'
  <1> SUFFICES ASSUME IInv, [Next]_vars PROVE Hands'
    OBVIOUS
  <1> USE DEF rest, At, setVars, agentVars, readerVars, tableVars, releaseVars, closeVars, Threads
  <1>i. TypeOK /\ Hands /\ Fresh /\ Known
    BY DEF IInv
  <1>1. CASE Asks \/ AgentExits \/ UNCHANGED vars
    BY <1>1, <1>i, AsideSteps DEF Aside, Hands
  <1>2. CASE \/ Register \/ ReadRequest \/ FsWrite \/ TakeId \/ Store \/ Output \/ Reply \/ EndOfOutput
             \/ CloseAll \/ CloseTransport
    <2>1. UNCHANGED <<process, victim, killed>>
      BY <1>2 DEF Register, ReadRequest, FsWrite, TakeId, Store, Output, Reply, EndOfOutput,
                  CloseAll, CloseTransport
    <2>2. victim["reader"] # 0 => At("called", "release")'
      BY <1>2, <1>i, HandlersEnd DEF Register, ReadRequest, TakeId, Store, Reply, EndOfOutput, Hands,
                  CloseAll, CloseTransport
    <2>3. closer' # "releasing" => todo' = {} /\ victim["closer"] = 0
      BY <1>2, <1>i DEF Register, ReadRequest, FsWrite, TakeId, Store, Output, Reply, EndOfOutput,
                        CloseAll, CloseTransport, Hands
    <2> QED BY <1>i, <2>1, <2>2, <2>3 DEF Hands
  <1>3. CASE Spawn
    <2>1. victim["reader"] = 0 /\ victim["closer"] # current.arg /\ current.arg \in Tids
      BY <1>3, <1>i DEF Spawn, Hands, Fresh
    <2>2. \A w \in Threads : killed[w] => victim[w] \in Tids \ {current.arg}
      BY <1>i, <2>1 DEF TypeOK, Hands
    <2> QED BY <1>3, <1>i, <2>1, <2>2 DEF Spawn, TypeOK, Hands
  <1>4. CASE WaitForExit \/ Kill
    <2>1. \A u \in Tids : process'[u] = "running" => Running(u)
      BY <1>4, <1>i, KilledTypes DEF WaitForExit, Kill, TypeOK
    <2>2. \A w \in Threads : killed[w] => victim[w] \in Tids
      BY <1>i DEF TypeOK, Hands
    <2>3. victim["reader"] = 0
      BY <1>4, HandlersEnd
    <2> QED BY <1>4, <1>i, <2>1, <2>2, <2>3 DEF WaitForExit, Kill, Hands
  <1>5. CASE Release \/ CloseOne
    BY <1>5, <1>i DEF Release, CloseOne, Releases, TypeOK, Hands
  <1>6. ASSUME NEW t \in Tids, Works(t) \/ Ends(t) \/ Pump(t)
        PROVE  Hands'
    BY <1>6, <1>i DEF Works, Ends, Pump, TypeOK, Hands
  <1>7. ASSUME NEW w \in Threads, ReleaseKill(w)
        PROVE  Hands'
    <2>1. victim[w] \in Tids /\ process'[victim[w]] # "running"
      BY <1>7, <1>i, KilledTypes DEF ReleaseKill, TypeOK, Known, Fresh, Hands
    <2>2. \A u \in Tids : process'[u] = "running" => Running(u)
      BY <1>7, <1>i, KilledTypes DEF ReleaseKill, TypeOK
    <2>3. \A v \in Threads : killed[v] => victim[v] \in Tids
      BY <1>i DEF TypeOK, Hands
    <2> QED BY <1>7, <1>i, <2>1, <2>2, <2>3 DEF ReleaseKill, TypeOK, Hands
  <1>8. ASSUME NEW w \in Threads, ReleaseForget(w)
        PROVE  Hands'
    BY <1>8, <1>i DEF ReleaseForget, TypeOK, Hands
  <1> QED BY <1>1, <1>2, <1>3, <1>4, <1>5, <1>6, <1>7, <1>8, OtherSteps

LEMMA ClosingStep == IInv /\ [Next]_vars => Closing'
  <1> SUFFICES ASSUME IInv, [Next]_vars PROVE Closing'
    OBVIOUS
  <1> USE DEF rest, At, setVars, agentVars, readerVars, tableVars, releaseVars, closeVars, Threads
  <1>i. TypeOK /\ Closing /\ Hands /\ Fresh /\ Known
    BY DEF IInv
  <1>1. CASE Asks \/ AgentExits \/ UNCHANGED vars
    BY <1>1, <1>i, AsideSteps DEF Aside, Closing
  <1>2. CASE Register \/ ReadRequest \/ FsWrite \/ Store \/ Output \/ Release \/ Reply \/ EndOfOutput
    BY <1>2, <1>i DEF Register, ReadRequest, FsWrite, Store, Output, Release, Releases, Reply,
                      EndOfOutput, TypeOK, Closing
  <1>3. CASE TakeId
    <2>1. current'.arg = nextId
      BY <1>3, <1>i DEF TakeId, TypeOK, Served, Requests, Nobody
    <2>2. UNCHANGED <<closer, process, todo, victim>>
      BY <1>3 DEF TakeId, releaseVars
    <2>3. closer # "idle" => late' = late \cup {nextId}
      BY <1>3 DEF TakeId
    <2> QED BY <1>i, <2>1, <2>2, <2>3 DEF Closing
  <1>4. CASE Spawn
    <2>1. current.arg \in Tids /\ \A t \in Tids : process'[t] = process[t] \/ t = current.arg
      BY <1>4, <1>i DEF Spawn, TypeOK, Fresh
    <2> QED BY <1>4, <1>i, <2>1 DEF Spawn, Closing
  <1>5. CASE WaitForExit \/ Kill
    <2>1. \A u \in Tids : process'[u] = "running" => Running(u)
      BY <1>5, <1>i, KilledTypes DEF WaitForExit, Kill, TypeOK
    <2> QED BY <1>5, <1>i, <2>1 DEF WaitForExit, Kill, Closing
  <1>6. CASE CloseAll
    BY <1>6, <1>i DEF CloseAll, Known, Closing
  <1>7. CASE CloseOne
    <2>1. PICK t \in todo : Releases("closer", t) /\ todo' = todo \ {t}
      BY <1>7 DEF CloseOne
    <2>2. victim["closer"] = 0 /\ victim'["closer"] = t
      BY <1>i, <2>1 DEF Releases, TypeOK
    <2>3. 0 \notin Tids /\ UNCHANGED <<process, closer, late, nextId, reader, current>>
      BY <1>7 DEF CloseOne, Tids
    <2> QED BY <1>7, <1>i, <2>1, <2>2, <2>3 DEF CloseOne, Closing
  <1>8. CASE CloseTransport
    BY <1>8, <1>i DEF CloseTransport, Closing
  <1>9. ASSUME NEW t \in Tids, Works(t) \/ Ends(t) \/ Pump(t)
        PROVE  Closing'
    BY <1>9, <1>i DEF Works, Ends, Pump, TypeOK, Closing
  <1>10. ASSUME NEW w \in Threads, ReleaseKill(w)
         PROVE  Closing'
    <2>1. \A u \in Tids : process'[u] = "running" => Running(u)
      BY <1>10, <1>i, KilledTypes DEF ReleaseKill, TypeOK
    <2> QED BY <1>10, <1>i, <2>1 DEF ReleaseKill, Closing
  <1>11. ASSUME NEW w \in Threads, ReleaseForget(w)
         PROVE  Closing'
    <2>1. ~Running(victim[w])
      BY <1>11, <1>i DEF ReleaseForget, Hands
    <2>2. InCreation(current.arg)' => InCreation(current.arg)
      BY <1>11, <1>i DEF ReleaseForget
    <2>3. victim' = [victim EXCEPT ![w] = 0] /\ UNCHANGED <<process, todo, late, closer, nextId, current>>
      BY <1>11 DEF ReleaseForget
    <2> QED BY <1>i, <2>1, <2>2, <2>3 DEF TypeOK, Closing
  <1> QED BY <1>1, <1>2, <1>3, <1>4, <1>5, <1>6, <1>7, <1>8, <1>9, <1>10, <1>11, OtherSteps

-----------------------------------------------------------------------------
(* What becomes of the lines *)

\* Steps that touch neither lines nor tables.
LEMMA LinesKept ==
  ASSUME Lines, UNCHANGED <<printed, pipe, shown, buffers, terminals>>,
         \A t \in Tids : process'[t] = "none" => process[t] = "none",
         reader' = "store" => reader = "store" /\ current' = current
  PROVE  Lines'
  BY DEF Lines, LinedUp

LEMMA PumpedLine ==
  ASSUME NEW t, shown[t] \in Seq(Nat), buffers[t] \in Seq(Nat), pipe[t] \in Seq(Nat),
         pipe[t] # <<>>
  PROVE  (shown[t] \o Append(buffers[t], Head(pipe[t]))) \o Tail(pipe[t])
           = (shown[t] \o buffers[t]) \o pipe[t]
  BY PumpedInPlace

LEMMA PumpLines ==
  ASSUME TypeOK, Lines, NEW t \in Tids, Pump(t)
  PROVE  Lines'
  <1> USE DEF Pump, rest, readerVars
  <1>1. /\ shown[t] \in Seq(Nat) /\ pipe[t] \in Seq(Nat) /\ pipe[t] # <<>>
        /\ t \in terminals => buffers[t] \in Seq(Nat)
        /\ DOMAIN buffers = terminals
    BY DEF TypeOK
  <1>2. \A u \in Tids \ {t} : /\ pipe'[u] = pipe[u]
                              /\ u \in terminals => buffers'[u] = buffers[u]
    BY <1>1 DEF TypeOK
  <1>3. t \in terminals => (shown[t] \o buffers'[t]) \o pipe'[t] = (shown[t] \o buffers[t]) \o pipe[t]
    <2>1. ASSUME t \in terminals
          PROVE  (shown[t] \o buffers'[t]) \o pipe'[t] = (shown[t] \o buffers[t]) \o pipe[t]
      <3>1. buffers'[t] = Append(buffers[t], Head(pipe[t])) /\ pipe'[t] = Tail(pipe[t])
        BY <1>1, <2>1 DEF TypeOK
      <3>2. (shown[t] \o Append(buffers[t], Head(pipe[t]))) \o Tail(pipe[t])
              = (shown[t] \o buffers[t]) \o pipe[t]
        BY <1>1, <2>1, PumpedLine
      <3> QED BY <3>1, <3>2
    <2> QED BY <2>1
  <1>4. process[t] # "none" /\ (reader = "store" => t # current.arg)
    BY <1>1 DEF Lines
  <1>5. LinedUp(t)'
    BY <1>3 DEF Lines, LinedUp
  <1>6. \A u \in Tids \ {t} : LinedUp(u)'
    BY <1>2 DEF Lines, LinedUp
  <1>7. \A u \in Tids : process'[u] = "none" => printed'[u] = 0 /\ pipe'[u] = <<>> /\ shown'[u] = <<>>
    BY <1>2, <1>4 DEF Lines
  <1>8. reader' = "store" => /\ pipe'[current'.arg] = Numbers(printed'[current'.arg])
                             /\ shown'[current'.arg] = <<>>
    BY <1>4 DEF Lines, TypeOK
  <1> QED BY <1>5, <1>6, <1>7, <1>8 DEF Lines

LEMMA WorksLines ==
  ASSUME TypeOK, Lines, Fresh, NEW t \in Tids, Works(t)
  PROVE  Lines'
  <1> USE DEF Works, readerVars, tableVars
  <1> DEFINE n == printed[t]
  <1>1. /\ n \in Nat /\ shown[t] \in Seq(Nat) /\ pipe[t] \in Seq(Nat)
        /\ t \in terminals => buffers[t] \in Seq(Nat)
    BY DEF TypeOK
  <1>2. printed'[t] = n + 1 /\ pipe'[t] = Append(pipe[t], n + 1) /\ process[t] # "none"
    BY DEF TypeOK
  <1>3. \A u \in Tids \ {t} : printed'[u] = printed[u] /\ pipe'[u] = pipe[u]
    BY DEF TypeOK
  <1> HIDE DEF n
  <1>4. Numbers(n + 1) = Append(Numbers(n), n + 1) /\ Numbers(n) \in Seq(Nat) /\ n + 1 \in Nat
    <2>1. n \in Nat
      BY <1>1
    <2>2. Numbers(n + 1) = Append(Numbers(n), n + 1)
      BY <2>1, NumbersGrow
    <2>3. Numbers(n) \in Seq(Nat)
      BY <2>1, NumbersSeq
    <2> QED BY <2>1, <2>2, <2>3
  <1>5. t \in terminals => (shown[t] \o buffers[t]) \o pipe'[t] = Numbers(n + 1)
    <2>1. ASSUME t \in terminals
          PROVE  (shown[t] \o buffers[t]) \o pipe'[t] = Numbers(n + 1)
      <3>1. shown[t] \o buffers[t] \in Seq(Nat)
        BY <1>1, <2>1, ConcatProperties
      <3>2. (shown[t] \o buffers[t]) \o Append(pipe[t], n + 1)
              = Append((shown[t] \o buffers[t]) \o pipe[t], n + 1)
        BY <1>1, <1>4, <3>1, PrintedLast
      <3>3. (shown[t] \o buffers[t]) \o pipe[t] = Numbers(n)
        BY <2>1 DEF Lines, LinedUp, n
      <3> QED BY <1>2, <1>4, <3>2, <3>3
    <2> QED BY <2>1
  <1>6. IsPrefix(shown[t], Numbers(n + 1))
    <2>1. IsPrefix(shown[t], Numbers(n))
      BY DEF Lines, LinedUp, n
    <2> QED BY <1>1, <1>4, <2>1, PrefixAppend
  <1>7. LinedUp(t)'
    BY <1>2, <1>5, <1>6 DEF LinedUp
  <1>8. \A u \in Tids \ {t} : LinedUp(u)'
    BY <1>3 DEF Lines, LinedUp
  <1>9. \A u \in Tids : process'[u] = "none" => printed'[u] = 0 /\ pipe'[u] = <<>> /\ shown'[u] = <<>>
    BY <1>2, <1>3 DEF Lines
  <1>10. reader' = "store" => /\ pipe'[current'.arg] = Numbers(printed'[current'.arg])
                              /\ shown'[current'.arg] = <<>>
    <2>1. CASE reader = "store" /\ current.arg = t
      <3>1. pipe[t] = Numbers(n) /\ shown[t] = <<>>
        BY <2>1 DEF Lines, n
      <3> QED BY <1>2, <1>4, <2>1, <3>1
    <2>2. CASE reader = "store" /\ current.arg # t
      BY <1>3, <2>2 DEF Lines, Fresh
    <2>3. CASE reader # "store"
      BY <2>3
    <2> QED BY <2>1, <2>2, <2>3
  <1> QED BY <1>7, <1>8, <1>9, <1>10 DEF Lines

LEMMA OutputLines ==
  ASSUME TypeOK, Lines, Fresh, Output, NEW c, c = current.arg
  PROVE  Lines'
  <1> USE DEF Output, At, rest
  <1>1. DOMAIN buffers = terminals
    BY DEF TypeOK
  <1>2. CASE c \notin terminals
    BY <1>1, <1>2, LinesKept DEF tableVars
  <1>3. CASE c \in terminals
    <2>1. /\ c \in Tids /\ shown[c] \in Seq(Nat) /\ buffers[c] \in Seq(Nat) /\ pipe[c] \in Seq(Nat)
          /\ process[c] # "none"
      BY <1>3 DEF TypeOK, Fresh
    <2>2. shown'[c] = shown[c] \o buffers[c] /\ buffers'[c] = <<>>
      BY <1>1, <1>3, <2>1 DEF TypeOK
    <2>3. \A u \in Tids \ {c} : shown'[u] = shown[u] /\ (u \in terminals => buffers'[u] = buffers[u])
      BY <1>1, <1>3 DEF TypeOK
    <2>4. UNCHANGED <<printed, pipe, terminals, process>> /\ reader' = "reply"
      BY <1>3
    <2>5. shown[c] \o buffers[c] \in Seq(Nat)
      BY <2>1, ConcatProperties
    <2>6. (shown'[c] \o buffers'[c]) \o pipe[c] = Numbers(printed[c])
      <3>1. (shown[c] \o buffers[c]) \o pipe[c] = Numbers(printed[c])
        BY <1>3, <2>1 DEF Lines, LinedUp
      <3>2. (shown[c] \o buffers[c]) \o <<>> = shown[c] \o buffers[c]
        BY <2>5, ConcatEmptySeq
      <3> QED BY <2>2, <3>1, <3>2
    <2>7. IsPrefix(shown'[c], Numbers(printed[c]))
      <3>1. (shown[c] \o buffers[c]) \o pipe[c] = Numbers(printed[c])
        BY <1>3, <2>1 DEF Lines, LinedUp
      <3> QED BY <2>1, <2>2, <2>5, <3>1, PrefixOfConcat
    <2>8. LinedUp(c)'
      BY <2>4, <2>6, <2>7 DEF LinedUp
    <2>9. ASSUME NEW u \in Tids \ {c}
          PROVE  LinedUp(u)'
      <3>1. LinedUp(u)
        BY DEF Lines
      <3> QED BY <2>3, <2>4, <3>1 DEF LinedUp
    <2>10. \A u \in Tids : process'[u] = "none" => printed'[u] = 0 /\ pipe'[u] = <<>> /\ shown'[u] = <<>>
      BY <2>1, <2>3, <2>4 DEF Lines
    <2> QED BY ONLY <2>4, <2>8, <2>9, <2>10 DEF Lines
  <1> QED BY <1>2, <1>3

LEMMA StoreLines ==
  ASSUME TypeOK, Lines, Fresh, Store, NEW c, c = current.arg
  PROVE  Lines'
  <1> USE DEF Store, rest
  <1>1. c \in Tids /\ pipe[c] \in Seq(Nat) /\ DOMAIN buffers = terminals
    BY DEF TypeOK, Fresh
  <1>2. shown[c] = <<>> /\ pipe[c] = Numbers(printed[c])
    BY DEF Lines
  <1>3. /\ buffers'[c] = <<>> /\ \A u \in terminals \ {c} : buffers'[u] = buffers[u]
        /\ terminals' = terminals \cup {c}
    BY <1>1
  <1>4. (<<>> \o <<>>) \o pipe[c] = pipe[c]
    BY <1>1, ConcatEmptySeq, EmptySeq
  <1>5. UNCHANGED <<printed, pipe, shown, process>> /\ reader' = "reply"
    OBVIOUS
  <1>6. LinedUp(c)'
    <2>1. LinedUp(c)
      BY <1>1 DEF Lines
    <2> QED BY <1>2, <1>3, <1>4, <1>5, <2>1 DEF LinedUp
  <1>7. ASSUME NEW u \in Tids \ {c}
        PROVE  LinedUp(u)'
    <2>1. LinedUp(u)
      BY DEF Lines
    <2> QED BY <1>3, <1>5, <2>1 DEF LinedUp
  <1>8. \A u \in Tids : process'[u] = "none" => printed'[u] = 0 /\ pipe'[u] = <<>> /\ shown'[u] = <<>>
    BY <1>5 DEF Lines
  <1> QED BY ONLY <1>5, <1>6, <1>7, <1>8 DEF Lines

LEMMA LinesStep == IInv /\ [Next]_vars => Lines'
  <1> SUFFICES ASSUME IInv, [Next]_vars PROVE Lines'
    OBVIOUS
  <1> USE DEF rest, setVars, agentVars, readerVars, tableVars, releaseVars, closeVars
  <1>i. TypeOK /\ Lines /\ Fresh
    BY DEF IInv
  <1>1. CASE Asks \/ AgentExits \/ UNCHANGED vars
    BY <1>1, <1>i, AsideSteps, LinesKept DEF Aside
  <1>2. CASE \/ Register \/ ReadRequest \/ FsWrite \/ TakeId \/ Release \/ Reply \/ EndOfOutput
             \/ CloseAll \/ CloseOne \/ CloseTransport
    BY <1>2, <1>i, LinesKept DEF Register, ReadRequest, FsWrite, TakeId, Release, Reply, EndOfOutput,
                                 CloseAll, CloseOne, CloseTransport
  <1>3. CASE Spawn
    <2>1. current.arg \in Tids /\ process[current.arg] = "none"
      BY <1>3, <1>i DEF Spawn, Fresh
    <2>2. Numbers(0) = <<>>
      BY NumbersSeq, EmptySeq
    <2>3. /\ UNCHANGED <<printed, pipe, shown, buffers, terminals, current>>
          /\ \A t \in Tids : process'[t] = "none" => process[t] = "none"
      BY <1>3, <1>i, <2>1 DEF Spawn, TypeOK
    <2> QED BY <1>i, <2>1, <2>2, <2>3 DEF Lines, LinedUp
  <1>4. CASE Store
    BY <1>4, <1>i, StoreLines
  <1>5. CASE Output
    BY <1>5, <1>i, OutputLines
  <1>6. CASE WaitForExit \/ Kill
    <2>1. \A u \in Tids : process'[u] = "none" => process[u] = "none"
      BY <1>6, <1>i, KilledTypes DEF WaitForExit, Kill, TypeOK
    <2> QED BY <1>6, <1>i, <2>1, LinesKept DEF WaitForExit, Kill
  <1>7. ASSUME NEW t \in Tids, Works(t)
        PROVE  Lines'
    BY <1>7, <1>i, WorksLines
  <1>8. ASSUME NEW t \in Tids, Ends(t)
        PROVE  Lines'
    <2>1. \A u \in Tids : process'[u] = "none" => process[u] = "none"
      BY <1>8, <1>i DEF Ends, TypeOK
    <2> QED BY <1>8, <1>i, <2>1, LinesKept DEF Ends
  <1>9. ASSUME NEW t \in Tids, Pump(t)
        PROVE  Lines'
    BY <1>9, <1>i, PumpLines
  <1>10. ASSUME NEW w \in Threads, ReleaseKill(w)
         PROVE  Lines'
    <2>1. \A u \in Tids : process'[u] = "none" => process[u] = "none"
      BY <1>10, <1>i, KilledTypes DEF ReleaseKill, TypeOK
    <2> QED BY <1>10, <1>i, <2>1, LinesKept DEF ReleaseKill
  <1>11. ASSUME NEW w \in Threads, ReleaseForget(w)
         PROVE  Lines'
    <2>1. /\ UNCHANGED <<printed, pipe, shown, process, current>>
          /\ terminals' \subseteq terminals /\ \A t \in terminals' : buffers'[t] = buffers[t]
          /\ reader' = "store" => reader = "store"
      BY <1>11, <1>i DEF ReleaseForget, TypeOK
    <2> QED BY <1>i, <2>1 DEF Lines, LinedUp
  <1> QED BY <1>1, <1>2, <1>3, <1>4, <1>5, <1>6, <1>7, <1>8, <1>9, <1>10, <1>11, OtherSteps

-----------------------------------------------------------------------------
(* The theorems *)

THEOREM Invariance == Spec => []IInv
  <1>1. IInv /\ [Next]_vars => IInv'
    BY TypeStep, RefusedStep, FreshStep, KnownStep, HandsStep, ClosingStep, LinesStep DEF IInv
  <1> QED BY InvInit, <1>1, PTL DEF Spec

\* Every variable keeps its range, and a terminal is in the one table when it is in the other.
\* (handlers.py:118-120, 158-162)
THEOREM TypeCorrect == Spec => []TypeOK
  <1>1. IInv => TypeOK
    BY DEF IInv
  <1> QED BY <1>1, Invariance, PTL

\* A closed client leaves no terminal that was in the table when the closing took its list; what
\* was under way then, and what the agent asked for since, may stay.  (handlers.py:164-167)
THEOREM NoTerminalIsLeft == Spec => []NoTerminalLeft
  <1>1. IInv => NoTerminalLeft
    BY DEF IInv, TypeOK, Closing, Hands, NoTerminalLeft, Tids
  <1> QED BY <1>1, Invariance, PTL

\* The lines of a terminal come out once and in order.  (handlers.py:122-137)
THEOREM LinesComeOnce == Spec => []OutputOnce
  <1>1. ASSUME IInv
        PROVE  OutputOnce
    <2>1. \A t \in Tids : LinedUp(t)
      BY <1>1 DEF IInv, Lines
    <2> QED BY <2>1 DEF OutputOnce, LinedUp, Numbers
  <1> QED BY <1>1, Invariance, PTL

\* A context that was handed over to be read stays as it is.  (handlers.py:36-52)
THEOREM ContextStays == Spec => []ContextUntouched
  <1>1. IInv => ContextUntouched
    BY DEF IInv, Refused
  <1> QED BY <1>1, Invariance, PTL
=============================================================================
