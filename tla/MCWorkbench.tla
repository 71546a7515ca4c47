------------------------------ MODULE MCWorkbench ------------------------------
(* The tools of the workbench.  They share no state but the host, so each     *)
(* behaviour is about one of them: interleaving them would add nothing.       *)
EXTENDS Terminals, Previews, GitPanel, Customizations

CONSTANTS t1, s1, s2, v1, v2, w1, o1, o2, q1, p1, p2, c0, c1, b1, b2, n1, n2

MCShells == {t1}
MCSockets == {s1, s2}
MCViews == {v1, v2}
MCWindows == {w1}
MCPorts == {q1}
MCOrigins == {o1, o2}
MCPaths == {p1, p2}
MCContents == {c0, c1}
MCBranches == {b1, b2}
MCNames == {n1, n2}

VARIABLE tool

(* Git starts on b1 with the file p1 only; b2 differs in p1, and has p2 when  *)
(* p2 is ignored.                                                             *)
Init ==
  /\ TerminalInit /\ PreviewInit /\ GitInit /\ CustomizationInit
  /\ head = b1 /\ tip[b1] = [p \in Paths |-> IF p = p1 THEN c0 ELSE Absent]
  /\ tip[b2][p1] # c0 /\ ignored \in {{}, {p2}}
  /\ tip[b2][p2] = IF ignored = {} THEN Absent ELSE c1
  /\ tool \in {"terminal", "preview", "git", "customization"}
  /\ terminalGranted = (tool = "terminal") /\ previewGranted = (tool = "preview")
  /\ tool # "git" => tip[b2][p1] = c1 /\ ignored = {}
  /\ tool # "preview" => approved = [v \in Views |-> o1]
  /\ skill = [n \in Names |-> IF n = n1 THEN "file" ELSE "link"] /\ form.name = n1
  /\ tool # "customization" => projectGranted = FALSE /\ globalGranted = FALSE

Next ==
  /\ UNCHANGED tool
  /\ \/ tool = "terminal" /\ TerminalNext /\ UNCHANGED << pvars, gvars, cvars >>
     \/ tool = "preview" /\ PreviewNext /\ UNCHANGED << tvars, gvars, cvars >>
     \/ tool = "git" /\ GitNext /\ UNCHANGED << tvars, pvars, cvars >>
     \/ tool = "customization" /\ CustomizationNext /\ UNCHANGED << tvars, pvars, gvars >>

Spec == Init /\ [][Next]_<< tool, tvars, pvars, gvars, cvars >> /\ TerminalFairness

=============================================================================
