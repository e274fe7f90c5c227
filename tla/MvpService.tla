----------------------------- MODULE MvpService -----------------------------
(***************************************************************************)
(* What KernelRun promises its callers: jobs wait, the card serves one of  *)
(* them at a time, and a caller gets back the product of its own operands  *)
(* under its own keys, or a refusal if its shape is one the card refuses.  *)
(***************************************************************************)
EXTENDS Naturals

CONSTANTS Callers, MaxRuns, KeyOf

VARIABLES
  phase,    \* "idle", "waiting", "served" or "answered", for each caller
  calls,    \* calls made so far
  refused,  \* the pending job has a shape that the card refuses
  reply     \* what the last call gave back

vars == <<phase, calls, refused, reply>>

Nothing == <<"none">>
Refusal == <<"config">>
Answer(p, n) == <<"ok", [vec |-> <<p, n>>, mat |-> <<p, n>>, key |-> KeyOf[p]]>>

Init ==
  /\ phase   = [p \in Callers |-> "idle"]
  /\ calls   = [p \in Callers |-> 0]
  /\ refused = [p \in Callers |-> FALSE]
  /\ reply   = [p \in Callers |-> Nothing]

Move(p, from, to) ==
  /\ phase[p] = from
  /\ phase' = [phase EXCEPT ![p] = to]

Submit(p, b) ==
  /\ Move(p, "idle", "waiting")
  /\ calls[p] < MaxRuns
  /\ calls'   = [calls EXCEPT ![p] = @ + 1]
  /\ refused' = [refused EXCEPT ![p] = b]
  /\ reply'   = [reply EXCEPT ![p] = Nothing]

Serve(p) ==
  /\ \A q \in Callers : phase[q] # "served"
  /\ Move(p, "waiting", "served")
  /\ UNCHANGED <<calls, refused, reply>>

Finish(p) ==
  /\ Move(p, "served", "answered")
  /\ UNCHANGED <<calls, refused, reply>>

Return(p) ==
  /\ Move(p, "answered", "idle")
  /\ reply' = [reply EXCEPT ![p] = IF refused[p] THEN Refusal
                                   ELSE Answer(p, calls[p])]
  /\ refused' = [refused EXCEPT ![p] = FALSE]
  /\ UNCHANGED calls

Next ==
  \E p \in Callers : \/ \E b \in BOOLEAN : Submit(p, b)
                     \/ Serve(p) \/ Finish(p) \/ Return(p)

Spec == /\ Init /\ [][Next]_vars
        /\ \A p \in Callers : /\ WF_vars(Serve(p)) /\ WF_vars(Finish(p))
                              /\ WF_vars(Return(p))
=============================================================================
