--------------------------- MODULE MCWorkspaceLaunch ---------------------------
(* Small instances of WorkspaceLaunch.                                        *)
EXTENDS WorkspaceLaunch

CONSTANTS l1, l2, t1, f1, f2

MCLaunches == {l1, l2}
MCConnects == {t1}
MCFolders == {f1, f2}
Ask(f, b, g) == [folder |-> f, background |-> b, global |-> g]
MCAsks == {Ask(f1, FALSE, FALSE), Ask(f1, FALSE, TRUE), Ask(f1, TRUE, FALSE), Ask(f2, TRUE, TRUE)}
=============================================================================
