------------------------------ MODULE BspSync ------------------------------
(***************************************************************************)
(* What the graph processor of bsp/ promises to a compute function, with   *)
(* no workers, channels, counters or buffer indices: vertices take their   *)
(* turns within a round, what they send is read in the next round, and a   *)
(* round in which a vertex failed is never left.                           *)
(***************************************************************************)
EXTENDS Integers, Sequences

CONSTANT VertexIds

VARIABLES
  members,   \* the vertices of the graph
  awake,     \* the vertices that are not frozen
  inbox,     \* what each vertex may still read in this round
  outbox,    \* what was sent to each vertex in this round
  round,     \* the superstep
  waiting,   \* vertices whose turn in this round has not started
  busy,      \* vertices whose turn is going on
  broken     \* a vertex failed in this round

vars == <<members, awake, inbox, outbox, round, waiting, busy, broken>>

Nothing == [v \in VertexIds |-> <<>>]
Resting == waiting = {} /\ busy = {}

Init ==
  /\ members = {} /\ awake = {} /\ inbox = Nothing /\ outbox = Nothing
  /\ round = 0 /\ waiting = {} /\ busy = {} /\ broken = FALSE

Join(v) ==
  /\ Resting /\ v \notin members
  /\ members' = members \cup {v} /\ awake' = awake \cup {v}
  /\ UNCHANGED <<inbox, outbox, round, waiting, busy, broken>>

Clear ==
  /\ Resting
  /\ members' = {} /\ awake' = {} /\ inbox' = Nothing /\ outbox' = Nothing
  /\ round' = 0 /\ broken' = FALSE
  /\ UNCHANGED <<waiting, busy>>

BeginRound ==
  /\ Resting
  /\ waiting' = members /\ broken' = FALSE
  /\ UNCHANGED <<members, awake, inbox, outbox, round, busy>>

(* Only a frozen vertex with nothing to read is passed over.               *)
Skip(v) ==
  /\ v \in waiting /\ v \notin awake /\ inbox[v] = <<>>
  /\ waiting' = waiting \ {v}
  /\ UNCHANGED <<members, awake, inbox, outbox, round, busy, broken>>

StartTurn(v) ==
  /\ v \in waiting /\ (v \in awake \/ inbox[v] # <<>>)
  /\ waiting' = waiting \ {v} /\ busy' = busy \cup {v}
  /\ awake' = awake \cup {v}
  /\ UNCHANGED <<members, inbox, outbox, round, broken>>

Send(v, dst) ==
  /\ v \in busy /\ dst \in members
  /\ outbox' = [outbox EXCEPT ![dst] = Append(@, [from |-> v, sent |-> round])]
  /\ UNCHANGED <<members, awake, inbox, round, waiting, busy, broken>>

Read(v) ==
  /\ v \in busy /\ inbox[v] # <<>>
  /\ inbox' = [inbox EXCEPT ![v] = SubSeq(@, 1, Len(@) - 1)]
  /\ UNCHANGED <<members, awake, outbox, round, waiting, busy, broken>>

Sleep(v) ==
  /\ v \in busy
  /\ awake' = awake \ {v}
  /\ UNCHANGED <<members, inbox, outbox, round, waiting, busy, broken>>

EndTurn(v) ==
  /\ v \in busy
  /\ busy' = busy \ {v} /\ inbox' = [inbox EXCEPT ![v] = <<>>]
  /\ UNCHANGED <<members, awake, outbox, round, waiting, broken>>

Fail(v) ==
  /\ v \in busy
  /\ busy' = busy \ {v} /\ broken' = TRUE
  /\ UNCHANGED <<members, awake, inbox, outbox, round, waiting>>

NextRound ==
  /\ Resting /\ ~broken
  /\ round' = round + 1
  /\ inbox' = outbox /\ outbox' = Nothing
  /\ UNCHANGED <<members, awake, waiting, busy, broken>>

Next == \/ Clear \/ BeginRound \/ NextRound
        \/ \E v \in VertexIds :
             \/ Join(v) \/ Skip(v) \/ StartTurn(v) \/ Read(v) \/ Sleep(v)
             \/ EndTurn(v) \/ Fail(v)
             \/ \E dst \in VertexIds : Send(v, dst)

Spec == Init /\ [][Next]_vars

=============================================================================
