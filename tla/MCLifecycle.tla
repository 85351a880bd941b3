---------------------------- MODULE MCLifecycle ----------------------------
(* Two roadmap items and plans of one title, so that every archive of a    *)
(* day wants the same name; a compaction is due at the second note, and    *)
(* no done item stays in the live tail.                                    *)
EXTENDS Lifecycle

OpenPlan(item, update) ==
  [do |-> "open", title |-> "t", item |-> item, update |-> update]
CancelPlan(item, keep) == [do |-> "cancel", item |-> item, keep |-> keep]
SetPhase(phase, item, allow) ==
  [do |-> "writeback", phase |-> phase, item |-> item, status |-> "",
   facts |-> "", allow |-> allow]
ArchiveIt(phase, item, status, preserve) ==
  [do |-> "archive", phase |-> phase, item |-> item, status |-> status,
   facts |-> "settled", preserve |-> preserve]
AddIt(item) ==
  [do |-> "add", item |-> item, status |-> "accepted", evidence |-> FALSE,
   facts |-> ""]
UpdateIt(item, status, facts, moves) ==
  [do |-> "update", item |-> item, status |-> status, evidence |-> FALSE,
   facts |-> facts, moves |-> moves]

Transition ==
  <<SetPhase("complete", NoItem, TRUE), ArchiveIt("", "a", "", TRUE),
    OpenPlan("b", FALSE), UpdateIt("b", "active", "", TRUE)>>

MCCommands ==
  [p1 |-> {Transition},
   p2 |-> {<<OpenPlan("a", FALSE)>>, <<OpenPlan("b", TRUE)>>,
           <<CancelPlan("a", FALSE)>>, <<CancelPlan(NoItem, TRUE)>>,
           <<SetPhase("complete", "a", FALSE)>>,
           <<ArchiveIt("complete", "b", "superseded", FALSE)>>,
           <<AddIt("a")>>, <<AddIt("b")>>,
           <<UpdateIt("a", "accepted", "uncertain", FALSE)>>}]
=============================================================================
