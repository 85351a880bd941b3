------------------------- MODULE MCFileTransaction -------------------------
(***************************************************************************)
(* Two files a and b, in two directories, with the sidecars the callers    *)
(* give them: ".a.tmp" and so on, made portable before use.                *)
(***************************************************************************)
EXTENDS FileTransaction

MCPaths == {"a", "b", "a.tmp", "a.bak", "b.tmp", "b.bak", ".a.tmp", ".a.bak",
            "out"}
MCDirs == {"project", "archive"}
MCDirOf == [x \in MCPaths |->
  IF x \in {"b", "b.tmp", "b.bak"} THEN "archive" ELSE "project"]
MCPortable == [x \in MCPaths |->
  CASE x = ".a.tmp" -> "a.tmp" [] x = ".a.bak" -> "a.bak" [] OTHER -> x]
MCRooted == MCPaths \ {"out"}

Write(target, tmp, backup, text) ==
  [kind |-> "write", target |-> target, tmp |-> tmp, backup |-> backup,
   text |-> text]
Delete(target, backup) ==
  [kind |-> "delete", target |-> target, tmp |-> target, backup |-> backup,
   text |-> "newA"]

WriteA == Write("a", ".a.tmp", ".a.bak", "newA")
WriteB == Write("b", "b.tmp", "b.bak", "newB")

\* Plans that are carried out: the last one moves a file, as archiving does.
GoodPlans ==
  {<<WriteA, WriteB>>, <<Delete("a", ".a.bak"), WriteB>>,
   <<WriteB, Delete("a", ".a.bak")>>}

\* Plans that must be refused, each for another line of the validation.
BadPlans ==
  {<<WriteA, Write("a", "b.tmp", "b.bak", "newB")>>,
   <<WriteA, Write("b", "a.tmp", "b.bak", "newB")>>,
   <<WriteA, Write("b", "b.tmp", "a.bak", "newB")>>,
   <<WriteB, Delete("a", "b")>>,
   <<WriteA, Write("b", "a", "b.bak", "newB")>>,
   <<WriteA, Write("b", "a.bak", "b.bak", "newB")>>,
   <<WriteA, Write("out", "b.tmp", "b.bak", "newB")>>}

MCPlans == GoodPlans \union BadPlans

\* Either target may exist, b may be torn, and an earlier call may have left
\* a sidecar of either kind.
Files(a, b, aBak, bTmp) ==
  [x \in MCPaths |->
     CASE x = "a" -> a [] x = "b" -> b [] x = "a.bak" -> aBak
       [] x = "b.tmp" -> bTmp [] OTHER -> Absent]
MCFound ==
  {Files(a, b, aBak, bTmp) : a \in {Absent, "oldA"}, b \in {Absent, "oldB", Torn},
                             aBak \in {Absent, "oldA"}, bTmp \in {Absent, Torn}}
=============================================================================
