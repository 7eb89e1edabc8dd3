---------------------------- MODULE AcpTerminals ----------------------------
(***************************************************************************)
(* What an ACP agent may have done for it: the file and terminal handlers  *)
(* of src/runtime/acp/handlers.py, registered by AcpClient.start (client.py)*)
(* and called, one request after the other, on the thread that reads the   *)
(* agent's output (transport.py).  The thread that closes the client       *)
(* releases the terminals meanwhile.                                       *)
(***************************************************************************)
EXTENDS Naturals, SequencesExt

CONSTANTS
    Paths,      \* files, as the names from the root down
    Dirs,       \* directories that may be allowed
    Contexts,   \* directories with answers that are handed over to be read
    MaxAsked,   \* bound: requests of the agent
    MaxLines    \* bound: lines a terminal prints

ASSUME BoundsAssumption == MaxAsked \in Nat /\ MaxLines \in Nat

Tids == 1 .. MaxAsked
Threads == {"reader", "closer"}
Methods == {"write", "create", "output", "wait", "kill", "release"}

VARIABLES
    allowed, context, granted,  \* allow_paths, context_read_only_paths, the key "terminal"
    registered,     \* methods with a handler
    agent,          \* "up" or "gone"
    inbox, asked,   \* its requests that are not read yet; how many it sent
    reader, current, \* where the reader is, and the request it has in hand
    nextId, process, \* of each terminal: "none", "running", "ended" or "killed"
    terminals, buffers, \* _terminals, and _output_buffers with those that have one
    pipe,           \* printed, and not read yet
    victim, killed, \* the terminal each thread releases, 0 for none; it has killed it
    closer, todo,   \* where the closing is, and what its list has left
    \* history variables
    printed, shown, \* lines of each terminal; what its agent was given
    late,           \* terminals under way when the closing took its list, or asked for since
    changed         \* files that were written

setVars == <<allowed, context, granted>>
agentVars == <<agent, inbox, asked>>
readerVars == <<reader, current>>
tableVars == <<nextId, terminals, buffers>>
releaseVars == <<victim, killed>>
closeVars == <<closer, todo, late>>
vars == <<setVars, registered, agentVars, readerVars, process, pipe, tableVars, releaseVars,
          closeVars, printed, shown, changed>>

\* A create gets its number when it is served.
Requests(ids) ==
    [method : {"write"}, arg : Paths] \cup [method : {"create"}, arg : {0}]
        \cup [method : Methods \ {"write", "create"}, arg : ids]
Served == Requests(Tids) \cup [method : {"create"}, arg : Tids]
Nobody == [method |-> "none", arg |-> 0]

-----------------------------------------------------------------------------
(* Paths *)

Under(path, dirs) == \E d \in dirs : IsPrefix(d, path)

\* _check_path_allowed; AcpAdapter.run allows the paths of the context, too.
PathAllowed(path) == Under(path, allowed \cup context)

\* Mutant of PathWritable: what is allowed may be written.
PathWritableOnceAllowed(path) == PathAllowed(path)

\* _check_path_writable
PathWritable(path) == PathAllowed(path) /\ ~Under(path, context)

-----------------------------------------------------------------------------
(* The start of the client *)

Init ==
    /\ allowed \in SUBSET Dirs /\ context \in SUBSET Contexts /\ granted \in BOOLEAN
    /\ registered = {} /\ agent = "up" /\ inbox = <<>> /\ asked = 0
    /\ reader = "read" /\ current = Nobody
    /\ nextId = 1 /\ process = [t \in Tids |-> "none"]
    /\ terminals = {} /\ buffers = [t \in {} |-> <<>>] /\ pipe = [t \in Tids |-> <<>>]
    /\ victim = [w \in Threads |-> 0] /\ killed = [w \in Threads |-> FALSE] /\ closer = "idle" /\ todo = {}
    /\ printed = [t \in Tids |-> 0] /\ shown = [t \in Tids |-> <<>>]
    /\ late = {} /\ changed = {}

TerminalEnabled == granted /\ context = {}

\* The reader runs already: what the agent asks before that is unknown to it.
Register ==
    /\ registered = {} /\ closer = "idle"
    /\ registered' = {"none"} \cup (IF allowed \cup context # {} THEN {"write"} ELSE {})
                              \cup (IF TerminalEnabled THEN Methods \ {"write"} ELSE {})
    /\ UNCHANGED <<setVars, agentVars, readerVars, process, pipe, tableVars, releaseVars,
                   closeVars, printed, shown, changed>>

-----------------------------------------------------------------------------
(* The agent and the commands of its terminals *)

Asks ==
    /\ agent = "up" /\ asked < MaxAsked /\ inbox = <<>>
    /\ \E r \in Requests(1 .. nextId) : inbox' = Append(inbox, r)
    /\ asked' = asked + 1
    /\ UNCHANGED <<setVars, registered, agent, readerVars, process, pipe, tableVars, releaseVars,
                   closeVars, printed, shown, changed>>

AgentExits ==
    /\ agent = "up" /\ agent' = "gone"
    /\ UNCHANGED <<setVars, registered, inbox, asked, readerVars, process, pipe, tableVars, releaseVars,
                   closeVars, printed, shown, changed>>

\* A command prints a line and may write any file; it may as well never end.
Works(t) ==
    /\ process[t] = "running" /\ printed[t] < MaxLines
    /\ printed' = [printed EXCEPT ![t] = @ + 1]
    /\ pipe' = [pipe EXCEPT ![t] = Append(@, printed'[t])]
    /\ changed' = Paths
    /\ UNCHANGED <<setVars, registered, agentVars, readerVars, process, tableVars, releaseVars,
                   closeVars, shown>>

Ends(t) ==
    /\ process[t] = "running" /\ process' = [process EXCEPT ![t] = "ended"]
    /\ UNCHANGED <<setVars, registered, agentVars, readerVars, pipe, tableVars, releaseVars,
                   closeVars, printed, shown, changed>>

-----------------------------------------------------------------------------
(* The handlers, on the thread of the reader *)

\* What every handler leaves alone.
rest == <<setVars, registered, agentVars, releaseVars, closeVars, printed>>

At(place, method) == reader = place /\ current.method = method

\* A request without a handler is answered at once, with an error.
ReadRequest ==
    /\ reader = "read" /\ inbox # <<>> /\ closer # "closed"
    /\ inbox' = Tail(inbox) /\ current' = Head(inbox)
    /\ reader' = IF Head(inbox).method \in registered THEN "called" ELSE "reply"
    /\ UNCHANGED <<setVars, registered, agent, asked, process, pipe, tableVars, releaseVars,
                   closeVars, printed, shown, changed>>

FsWrite ==
    /\ At("called", "write") /\ reader' = "reply"
    /\ changed' = IF PathWritable(current.arg) THEN changed \cup {current.arg} ELSE changed
    /\ UNCHANGED <<rest, current, process, pipe, tableVars, shown>>

TakeId ==
    /\ At("called", "create") /\ reader' = "spawn"
    /\ current' = [current EXCEPT !.arg = nextId] /\ nextId' = nextId + 1
    /\ late' = IF closer = "idle" THEN late ELSE late \cup {nextId}
    /\ UNCHANGED <<setVars, registered, agentVars, releaseVars, closer, todo, printed, process, pipe,
                   terminals, buffers, shown, changed>>

\* The command may be empty, or not be found.
Spawn ==
    /\ reader = "spawn"
    /\ \/ process' = [process EXCEPT ![current.arg] = "running"] /\ reader' = "store"
       \/ reader' = "reply" /\ UNCHANGED process
    /\ UNCHANGED <<rest, current, pipe, tableVars, shown, changed>>

Store ==
    /\ reader = "store" /\ reader' = "reply"
    /\ terminals' = terminals \cup {current.arg}
    /\ buffers' = [t \in DOMAIN buffers \cup {current.arg} |->
                    IF t = current.arg THEN <<>> ELSE buffers[t]]
    /\ UNCHANGED <<rest, current, process, pipe, nextId, shown, changed>>

\* _reader, a thread of the terminal; without a buffer the line is dropped.
Pump(t) ==
    /\ pipe[t] # <<>> /\ (reader = "store" => t # current.arg)
    /\ pipe' = [pipe EXCEPT ![t] = Tail(@)]
    /\ buffers' = IF t \in DOMAIN buffers THEN [buffers EXCEPT ![t] = Append(@, Head(pipe[t]))]
                  ELSE buffers
    /\ UNCHANGED <<rest, readerVars, process, nextId, terminals, shown, changed>>

\* Mutant of Output: the buffer is not cleared.
OutputKeeps ==
    /\ At("called", "output") /\ reader' = "reply"
    /\ IF current.arg \in DOMAIN buffers
       THEN shown' = [shown EXCEPT ![current.arg] = @ \o buffers[current.arg]]
       ELSE UNCHANGED shown
    /\ UNCHANGED <<rest, current, process, pipe, tableVars, changed>>

Output ==
    /\ At("called", "output") /\ reader' = "reply"
    /\ IF current.arg \in DOMAIN buffers
       THEN /\ shown' = [shown EXCEPT ![current.arg] = @ \o buffers[current.arg]]
            /\ buffers' = [buffers EXCEPT ![current.arg] = <<>>]
       ELSE UNCHANGED <<shown, buffers>>
    /\ UNCHANGED <<rest, current, process, pipe, nextId, terminals, changed>>

Killed(t) == [process EXCEPT ![t] = IF @ = "running" THEN "killed" ELSE @]

\* The reader is kept until the command ends, or has had its sixty seconds and is killed.
WaitForExit ==
    /\ At("called", "wait") /\ reader' = "reply"
    /\ process' = IF current.arg \in terminals THEN Killed(current.arg) ELSE process
    /\ UNCHANGED <<rest, current, pipe, tableVars, shown, changed>>

Kill ==
    /\ At("called", "kill") /\ reader' = "reply"
    /\ process' = IF current.arg \in terminals THEN Killed(current.arg) ELSE process
    /\ UNCHANGED <<rest, current, pipe, tableVars, shown, changed>>

-----------------------------------------------------------------------------
(* release, by the reader for the agent or by the thread that closes *)

Releases(w, t) ==
    /\ victim[w] = 0 /\ victim' = [victim EXCEPT ![w] = t] /\ UNCHANGED killed

Release ==
    /\ At("called", "release") /\ Releases("reader", current.arg)
    /\ UNCHANGED <<setVars, registered, agentVars, readerVars, process, pipe, tableVars, closeVars,
                   printed, shown, changed>>

ReleaseKill(w) ==
    /\ victim[w] # 0 /\ ~killed[w]
    /\ killed' = [killed EXCEPT ![w] = TRUE]
    /\ process' = IF victim[w] \in terminals THEN Killed(victim[w]) ELSE process
    /\ UNCHANGED <<setVars, registered, agentVars, readerVars, pipe, tableVars, victim, closeVars,
                   printed, shown, changed>>

\* Mutant of ReleaseForget: the terminal is forgotten before it is killed.
ReleaseForgetFirst(w) ==
    /\ victim[w] # 0 /\ ~killed[w] /\ victim[w] \in terminals
    /\ terminals' = terminals \ {victim[w]} /\ buffers' = buffers
    /\ UNCHANGED <<setVars, registered, agentVars, readerVars, process, pipe, nextId, releaseVars,
                   closeVars, printed, shown, changed>>

ReleaseForget(w) ==
    /\ victim[w] # 0 /\ killed[w]
    /\ terminals' = terminals \ {victim[w]}
    /\ buffers' = [t \in DOMAIN buffers \ {victim[w]} |-> buffers[t]]
    /\ victim' = [victim EXCEPT ![w] = 0] /\ killed' = [killed EXCEPT ![w] = FALSE]
    /\ reader' = IF w = "reader" THEN "reply" ELSE reader
    /\ UNCHANGED <<setVars, registered, agentVars, current, process, pipe, nextId, closeVars,
                   printed, shown, changed>>

\* An answer that cannot be written ends the reader.
Reply ==
    /\ reader = "reply" /\ current' = Nobody
    /\ reader' = IF agent = "up" THEN "read" ELSE "over"
    /\ UNCHANGED <<rest, process, pipe, tableVars, shown, changed>>

EndOfOutput ==
    /\ reader = "read" /\ agent = "gone" /\ (inbox = <<>> \/ closer = "closed")
    /\ reader' = "over"
    /\ UNCHANGED <<rest, current, process, pipe, tableVars, shown, changed>>

-----------------------------------------------------------------------------
(* AcpClient.close *)

\* close_all: the list is taken once, while the agent is served until its transport is closed.
CloseAll ==
    /\ closer = "idle" /\ registered # {} /\ closer' = "releasing"
    /\ todo' = terminals
    /\ late' = IF reader \in {"spawn", "store"} THEN {current.arg} ELSE {}
    /\ UNCHANGED <<setVars, registered, agentVars, readerVars, process, pipe, tableVars, releaseVars,
                   printed, shown, changed>>

CloseOne ==
    /\ closer = "releasing"
    /\ \E t \in todo : Releases("closer", t) /\ todo' = todo \ {t}
    /\ UNCHANGED <<setVars, registered, agentVars, readerVars, process, pipe, tableVars, closer, late,
                   printed, shown, changed>>

\* The transport terminates the agent, its group, and closes the pipes.
CloseTransport ==
    /\ closer = "releasing" /\ todo = {} /\ victim["closer"] = 0
    /\ closer' = "closed" /\ agent' = "gone"
    /\ UNCHANGED <<setVars, registered, inbox, asked, readerVars, process, pipe, tableVars,
                   releaseVars, todo, late, printed, shown, changed>>

ReaderStep ==
    \/ ReadRequest \/ FsWrite \/ TakeId \/ Spawn \/ Store \/ Output \/ WaitForExit \/ Kill \/ Release
    \/ Reply \/ EndOfOutput

Next ==
    \/ Register \/ Asks \/ AgentExits \/ ReaderStep
    \/ CloseAll \/ CloseOne \/ CloseTransport
    \/ \E t \in Tids : Works(t) \/ Ends(t) \/ Pump(t)
    \/ \E w \in Threads : ReleaseKill(w) \/ ReleaseForget(w)

Spec == Init /\ [][Next]_vars

-----------------------------------------------------------------------------
(* Properties *)

\* Every variable stays in its range; what is in the one table of terminals is in the other.
TypeOK ==
    /\ allowed \subseteq Dirs /\ context \subseteq Contexts /\ granted \in BOOLEAN
    /\ registered \subseteq Methods \cup {"none"} /\ agent \in {"up", "gone"}
    /\ inbox \in Seq(Requests(Tids)) /\ asked \in 0 .. MaxAsked
    /\ reader \in {"read", "called", "spawn", "store", "reply", "over"}
    /\ current \in Served \cup {Nobody}
    /\ nextId \in 1 .. MaxAsked + 1
    /\ process \in [Tids -> {"none", "running", "ended", "killed"}]
    /\ terminals \subseteq Tids /\ buffers \in [terminals -> Seq(Nat)]
    /\ pipe \in [Tids -> Seq(Nat)] /\ shown \in [Tids -> Seq(Nat)]
    /\ printed \in [Tids -> 0 .. MaxLines]
    /\ victim \in [Threads -> {0} \cup Tids] /\ killed \in [Threads -> BOOLEAN]
    /\ closer \in {"idle", "releasing", "closed"} /\ todo \subseteq Tids /\ late \subseteq Tids
    /\ changed \subseteq Paths

\* A client that is closed leaves no terminal at work that was in the table when close_all took
\* its list, whatever the reader was doing with it meanwhile.  Those that were under way then
\* and all that the agent has asked for since, until its transport is closed, may stay: nobody
\* looks at the table again.  (handlers.py:164-167 and 101-120, client.py:333-335)
NoTerminalLeft ==
    closer = "closed" => {t \in Tids : process[t] = "running"} \subseteq late

\* Each line a terminal printed comes out once and in its place: shown to the agent, in the
\* buffer or in the pipe; only what comes after a release is dropped.  (handlers.py:122-137)
OutputOnce ==
    \A t \in Tids :
        LET lines == [n \in 1 .. printed[t] |-> n] IN
        /\ t \in terminals => shown[t] \o buffers[t] \o pipe[t] = lines
        /\ IsPrefix(shown[t], lines)

\* What was handed over to be read stays as it is, whatever the agent asks for: writes into the
\* context are refused, and with a context nothing is run for the agent.
\* (handlers.py:36-52, adapter.py:168-175)
ContextUntouched == \A path \in changed : ~Under(path, context)
=============================================================================
