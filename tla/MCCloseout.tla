----------------------------- MODULE MCCloseout -----------------------------
(* Two titles and two plans, of one title or of both, which are cancelled, *)
(* replaced, closed and archived in every order; requests with no facts,   *)
(* an undecided or a final docs decision, the rest alone, and all of them. *)
EXTENDS Closeout, TLC

Ask(docs, proof, harvest, sync, phase) ==
  [given |-> [docs |-> docs, proof |-> proof], harvest |-> harvest,
   sync |-> sync, phase |-> phase]

MCAsked ==
  {Ask("", "", FALSE, FALSE, ""), Ask("open", "", FALSE, FALSE, "complete"),
   Ask("final", "", FALSE, FALSE, ""), Ask("", "final", FALSE, FALSE, ""),
   Ask("final", "final", FALSE, FALSE, ""), Ask("", "", TRUE, FALSE, ""),
   Ask("", "final", FALSE, TRUE, ""), Ask("", "", FALSE, TRUE, "")}

TitleSymmetry == Permutations(Titles)
=============================================================================
