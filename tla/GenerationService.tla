-------------------------- MODULE GenerationService --------------------------
(***************************************************************************)
(* What the coordinator promises a client: a request produces its output   *)
(* one token after the other, each exactly once, as if there were no       *)
(* swarm, no node failure and no retry behind it; it ends with the whole   *)
(* output, or is refused, and only a crash of the coordinator cuts it off. *)
(***************************************************************************)
EXTENDS Naturals, Sequences

CONSTANTS Request, MaxNew, StopAt, Sampled, Invalid, MaxFailovers

VARIABLES phase, output

serviceVars == <<phase, output>>

\* The tokens that may come at index i: the reference one for a greedy request,
\* one drawn by a generator seeded for some attempt for a sampled one.
TokenAt(r, i) ==
    [request : {r}, index : {i}, seeded : IF r \in Sampled THEN 0 .. MaxFailovers ELSE {0}]

Complete(r) ==
    \/ Len(output[r]) >= MaxNew[r]
    \/ r \in Sampled
    \/ Len(output[r]) = StopAt[r]

Init ==
    /\ phase = [r \in Request |-> "idle"]
    /\ output = [r \in Request |-> <<>>]

Accept(r) ==
    /\ phase[r] = "idle"
    /\ phase' = [phase EXCEPT ![r] = "working"]
    /\ UNCHANGED output

Produce(r) ==
    /\ phase[r] = "working"
    /\ Len(output[r]) < MaxNew[r]
    /\ r \in Sampled \/ Len(output[r]) # StopAt[r]
    /\ \E t \in TokenAt(r, Len(output[r])) :
        output' = [output EXCEPT ![r] = Append(@, t)]
    /\ UNCHANGED phase

Deliver(r) ==
    /\ phase[r] = "working"
    /\ r \notin Invalid
    /\ Complete(r)
    /\ phase' = [phase EXCEPT ![r] = "done"]
    /\ UNCHANGED output

\* No chain in time, too many failovers, or a sampling value that is no number.
Refuse(r) ==
    /\ phase[r] = "working"
    /\ \/ phase' = [phase EXCEPT ![r] = "refused"]
       \/ r \in Invalid /\ phase' = [phase EXCEPT ![r] = "broken"]
    /\ UNCHANGED output

CutAll ==
    /\ phase' = [r \in Request |-> IF phase[r] = "working" THEN "cut" ELSE phase[r]]
    /\ UNCHANGED output

Progress(r) == Produce(r) \/ Deliver(r) \/ Refuse(r)

Next ==
    \/ \E r \in Request : Accept(r) \/ Progress(r)
    \/ CutAll

Spec ==
    /\ Init
    /\ [][Next]_serviceVars
    /\ \A r \in Request : WF_serviceVars(Progress(r))

=============================================================================
