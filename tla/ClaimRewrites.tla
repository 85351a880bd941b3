---------------------------- MODULE ClaimRewrites ----------------------------
(***************************************************************************)
(* WorkClaims together with the other command that writes claim records:   *)
(* `evidence --retarget-ref --apply` (evidence.py) replaces one path by    *)
(* another in an existing record, claimed_paths included.  It takes no     *)
(* lock: the proposal token only says that the text it has just read is    *)
(* the text of the dry run.                                                *)
(***************************************************************************)
EXTENDS WorkClaims

CONSTANTS
  Rewriters,  \* the processes that run the command
  Paths,      \* the paths it replaces, and by which it replaces them
  NoPlan      \* a rewriter that runs no command

VARIABLE plan  \* target and updated_text of each rewriter

rewriteVars == <<vars, plan>>

RewriteInit == Init /\ plan = [w \in Rewriters |-> NoPlan]

Retargeted(record, out, in) ==
  [record EXCEPT !.scope.paths = (@ \ {out}) \union {in}]

\* _evidence_ref_retarget_plan and the token: the text is read once.  A
\* record without the path, or not readable, ends the command.
PlanRewrite(w) ==
  /\ plan[w] = NoPlan
  /\ \E c \in Ids, out, in \in Paths :
       /\ out # in /\ Readable(c) /\ out \in claims[c].scope.paths
       /\ plan' = [plan EXCEPT ![w] =
            [id |-> c, old |-> claims[c], new |-> Retargeted(claims[c], out, in)]]
  /\ UNCHANGED vars

\* The transaction of the rewrite.  It is one step here, at a time when no
\* claim command writes the same record.
Quiet(c) == \A p \in Procs : req[p] # NoRequest => req[p].id # c \/ pc[p] # "write"

Finished(w) == plan' = [plan EXCEPT ![w] = NoPlan]

EndRewrite(w, outcome) ==
  /\ plan[w] # NoPlan
  /\ plan[w].id \notin sidecars /\ Quiet(plan[w].id)
  /\ \E end \in Contract!Endings(outcome, claims[plan[w].id], plan[w].new) :
       /\ claims' = [claims EXCEPT ![plan[w].id] = end.text]
       /\ sidecars' = IF end.sidecar THEN sidecars \union {plan[w].id} ELSE sidecars
  /\ Finished(w)
  /\ UNCHANGED <<lock, now, pc, locals, granted, ended>>

CommitRewrite(w) == EndRewrite(w, "updated") /\ UNCHANGED troubled

\* Also the rewrite that a left-over sidecar, or the death of the process
\* before the transaction, prevents.
AbandonRewrite(w) ==
  /\ plan[w] # NoPlan
  /\ Finished(w)
  /\ UNCHANGED vars

\* A rollback, or a transaction cut short: the target is undone at best.
BreakRewrite(w) ==
  /\ EndRewrite(w, "interrupted")
  /\ troubled' = troubled \union {plan[w].id}
  /\ Cardinality(troubled') <= MaxTrouble

Rewrite ==
  \E w \in Rewriters :
    PlanRewrite(w) \/ CommitRewrite(w) \/ AbandonRewrite(w) \/ BreakRewrite(w)

RewriteNext == Rewrite \/ (Next /\ UNCHANGED plan)

RewriteSpec ==
  /\ RewriteInit /\ [][RewriteNext]_rewriteVars
  /\ \A p \in Procs : WF_rewriteVars(Run(p) /\ UNCHANGED plan)
=============================================================================
