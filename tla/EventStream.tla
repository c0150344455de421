----------------------------- MODULE EventStream -----------------------------
(***************************************************************************)
(* What the MCP gateway promises of the events of one session, without     *)
(* saying how: events are numbered upwards as they are stored, and a       *)
(* client that reads them, on whatever connection to whatever gateway,     *)
(* reads each once and in the order of their numbers.  A session that has  *)
(* been deleted begins to count anew, but never below what a client that   *)
(* returns has read.                                                       *)
(*                                                                         *)
(* docs/architecture/mcp-gateway.md, "Transport", is the prose of this     *)
(* promise; McpSessions is shown to implement it.                          *)
(***************************************************************************)
EXTENDS Naturals, Sequences

CONSTANT Client

VARIABLES
  events,   \* the numbers of the events that are stored
  high,     \* the largest number given
  read      \* read[c]: the numbers c has read

vars == <<events, high, read>>

LastOf(numbers) == IF numbers = <<>> THEN 0 ELSE numbers[Len(numbers)]

\* A batch may be read after number n: it is stored and goes upwards from n.
After(n, batch, stored) ==
  \A i \in DOMAIN batch :
    batch[i] \in stored /\ batch[i] > (IF i = 1 THEN n ELSE batch[i - 1])

Init ==
  /\ events = {}
  /\ high = 0
  /\ read = [c \in Client |-> <<>>]

\* An event is stored; the client whose stream stores it may read it at once.
Append1(c) == read' = read \/ read' = [read EXCEPT ![c] = Append(@, high + 1)]
Store ==
  /\ high' = high + 1
  /\ events' = events \cup {high + 1}
  /\ \E c \in Client : Append1(c) /\ (read' # read => high + 1 > LastOf(read[c]))

\* The count is raised: a client returns that has read more than the session
\* has given since it was deleted.
Raise ==
  /\ high' > high
  /\ UNCHANGED <<events, read>>

Read(c) ==
  LET batch == SubSeq(read'[c], Len(read[c]) + 1, Len(read'[c]))
  IN  /\ batch # <<>>
      /\ After(LastOf(read[c]), batch, events)
      /\ read' = [read EXCEPT ![c] = @ \o batch]
      /\ UNCHANGED <<events, high>>

Forget ==
  /\ events' = {}
  /\ high' = 0
  /\ UNCHANGED read

Next == Store \/ Raise \/ Forget \/ \E c \in Client : Read(c)

Spec == Init /\ [][Next]_vars
=============================================================================
