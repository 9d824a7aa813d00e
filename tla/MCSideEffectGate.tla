-------------------------- MODULE MCSideEffectGate --------------------------
(* Instances of SideEffectGate for TLC.                                    *)
EXTENDS SideEffectGate, TLC

CONSTANTS t1, t2, s1

Plain == [tool |-> t1, skillSide |-> FALSE, active |-> None,
          secret |-> FALSE, tainted |-> FALSE, opaque |-> FALSE]

(* The user's code, with arguments json can sort or not; another tool with *)
(* a tainted argument; the tool's skill through its own proxy, and through *)
(* the user's with a secret.                                               *)
MCCalls == {Plain,
            [Plain EXCEPT !.opaque = TRUE],
            [Plain EXCEPT !.tainted = TRUE, !.tool = t2],
            [Plain EXCEPT !.skillSide = TRUE, !.active = s1],
            [Plain EXCEPT !.active = s1, !.secret = TRUE]}

Entry(k, n) == [key |-> k, n |-> n]

(* Nothing; a budget on one tool; a budget on the server and on the tool,  *)
(* in which the tool's last entry replaces its first.                      *)
MCPermissions == {[effects |-> <<>>, tainted |-> {}],
                  [effects |-> <<Entry(t1, 0)>>, tainted |-> {}],
                  [effects |-> <<Entry(t1, 2), Entry(AnyTool, 1), Entry(t1, 1)>>, tainted |-> {t2}]}
=============================================================================
