--------------------------- MODULE SideEffectGate ---------------------------
(***************************************************************************)
(* The side-effect gate of one session (executor.py: SideEffectGate,       *)
(* TaintGate and the gated prefix of _ToolNamespace's wrapper), over the   *)
(* session's consecutive execute_code runs.                                *)
(*                                                                         *)
(* One server: an entry of allow_side_effects names one of its tools or,   *)
(* as AnyTool, stands for "srv.*"; entries of other servers never meet it. *)
(* The gated prefix has no await, so a call passes the gate in one step;   *)
(* the downstream call it admits takes further steps, and several may be   *)
(* under way at once (asyncio.gather). The code of a run awaits the calls  *)
(* it starts; a call cancelled by a deadline ends like any other.          *)
(***************************************************************************)
EXTENDS Naturals, Sequences

CONSTANTS
  Tools,        \* side-effecting tools of the server
  AnyTool,      \* the key "srv.*"
  Skills,       \* skills that may own a tool (`replaces:`)
  None,         \* no skill
  Calls,        \* the calls the session's code makes, see CallType
  Permissions,  \* the permissions its runs are given, see PermissionType
  MaxRefusals,  \* MAX_REFUSALS
  MaxRuns,      \* bound: runs of the session
  MaxCalls      \* bound: gated calls of one run

Keys == Tools \cup {AnyTool}

(* opaque: json cannot canonicalize the arguments, fingerprint() is None.  *)
(* secret: secret_gate finds one.  tainted: an argument repeats a text an  *)
(* untrusted server may return.  active: the active_skill of the caller.   *)
CallType == [tool : Tools, skillSide : BOOLEAN, active : Skills \cup {None},
             secret : BOOLEAN, tainted : BOOLEAN, opaque : BOOLEAN]

(* An entry with n = 0 has no budget.                                      *)
EntryType == [key : Keys, n : Nat]
PermissionType == [effects : Seq(EntryType), tainted : SUBSET Keys]

ASSUME GateAssumption ==
  /\ AnyTool \notin Tools
  /\ None \notin Skills
  /\ Calls \subseteq CallType
  /\ Permissions \subseteq PermissionType
  /\ MaxRefusals \in Nat \ {0}
  /\ MaxRuns \in Nat
  /\ MaxCalls \in Nat

VARIABLES
  owner,     \* owner[t]: skill whose `replaces:` names t
  reloaded,  \* history: the skills were reloaded during the session
  refused,   \* _SessionState.refused, oldest first
  running,   \* a run is under way
  perms,     \* its permissions
  used,      \* SideEffectGate._used
  untrusted, \* TaintGate._texts holds a text
  flight,    \* flight[c]: attempt of pool.call_tool for call c
  sent,      \* sent[k]: downstream executions of calls under key k, this run
  runs,      \* runs begun
  made       \* gated calls of this run

gateVars == <<owner, reloaded, refused, running, perms, used, untrusted,
          flight, sent, runs, made>>

Refusal == [call : Calls, perms : Permissions]

(* The types; no call is under way between two runs.                       *)
GateTypeOK ==
  /\ owner \in [Tools -> Skills \cup {None}]
  /\ reloaded \in BOOLEAN
  /\ refused \in Seq(Refusal)
  /\ running \in BOOLEAN
  /\ perms \in Permissions
  /\ used \in [Keys -> Nat]
  /\ untrusted \in BOOLEAN
  /\ flight \in [Calls -> {"none", "first", "second"}]
  /\ sent \in [Keys -> Nat]
  /\ runs \in 0..MaxRuns
  /\ made \in 0..MaxCalls
  /\ ~running => \A c \in Calls : flight[c] = "none"
-----------------------------------------------------------------------------
(* SideEffectGate.parse: allowed names, and the budget of a name, the last *)
(* one given (0: none).                                                    *)
Allowed(p) == {p.effects[i].key : i \in 1..Len(p.effects)}

Budgeted(p, k) == {i \in 1..Len(p.effects) : p.effects[i].key = k /\ p.effects[i].n > 0}
Budget(p, k) ==
  IF Budgeted(p, k) = {} THEN 0
  ELSE p.effects[CHOOSE i \in Budgeted(p, k) : \A j \in Budgeted(p, k) : j <= i].n

(* SideEffectGate.entries                                                  *)
Entries(p, t) == {t, AnyTool} \cap Allowed(p)

(* _perms of two gates are equal: the sorted lists are.                    *)
SameList(a, b) ==
  /\ Len(a) = Len(b)
  /\ \E f \in [1..Len(a) -> 1..Len(b)] :
       /\ \A i \in 1..Len(a) : a[i] = b[f[i]]
       /\ \A j \in 1..Len(b) : \E i \in 1..Len(a) : f[i] = j
SamePerms(p, q) == SameList(p.effects, q.effects) /\ p.tainted = q.tainted

(* Deny by default: only a `replaces:` owner calling through its own       *)
(* skill-side proxy passes without an entry.                               *)
Owns(c) == owner[c.tool] # None /\ owner[c.tool] = c.active
Denied(c, p) == Entries(p, c.tool) = {} /\ ~(Owns(c) /\ c.skillSide)

(* secret_gate.check, skipped for a skill-side call under an entry.        *)
SecretHit(c, p) == c.secret /\ ~(c.skillSide /\ Entries(p, c.tool) # {})

(* The refusals that depend "only on the call and the permissions".        *)
GateRefuses(c, p) == Denied(c, p) \/ SecretHit(c, p)

(* TaintGate.check                                                         *)
TaintRefuses(c, p) == c.tainted /\ untrusted /\ {c.tool, AnyTool} \cap p.tainted = {}

(* SideEffectGate.spend: the check of every key comes before any spending. *)
BudgetRefuses(c, p) ==
  \E k \in Entries(p, c.tool) : Budget(p, k) > 0 /\ used[k] >= Budget(p, k)

(* check_repeat *)
IsRepeat(c, p) ==
  /\ ~c.opaque
  /\ \E i \in 1..Len(refused) : refused[i].call = c /\ SamePerms(refused[i].perms, p)

(* remember: the fingerprint moves to the end, the oldest ones make room.  *)
NotThisCall(c) ==
  IF \E i \in 1..Len(refused) : refused[i].call = c
  THEN LET i == CHOOSE i \in 1..Len(refused) : refused[i].call = c
       IN  [j \in 1..(Len(refused) - 1) |-> IF j < i THEN refused[j] ELSE refused[j + 1]]
  ELSE refused

(* Mutant of Remember: > for >= in the loop that makes room. *)
RememberOneTooMany(c, p) ==
  LET rest == NotThisCall(c)
      over == IF Len(rest) > MaxRefusals THEN Len(rest) - MaxRefusals ELSE 0
  IN  IF c.opaque THEN refused
      ELSE Append(SubSeq(rest, over + 1, Len(rest)), [call |-> c, perms |-> p])

Remember(c, p) ==
  LET rest == NotThisCall(c)
      over == IF Len(rest) >= MaxRefusals THEN Len(rest) - MaxRefusals + 1 ELSE 0
  IN  IF c.opaque THEN refused
      ELSE Append(SubSeq(rest, over + 1, Len(rest)), [call |-> c, perms |-> p])
-----------------------------------------------------------------------------
GateInit ==
  /\ owner \in [Tools -> Skills \cup {None}]
  /\ reloaded = FALSE
  /\ refused = <<>>
  /\ running = FALSE
  /\ perms \in Permissions
  /\ used = [k \in Keys |-> 0]
  /\ untrusted = FALSE
  /\ flight = [c \in Calls |-> "none"]
  /\ sent = [k \in Keys |-> 0]
  /\ runs = 0 /\ made = 0

(* _build_proxies: a gate and a taint record of the run's own, the         *)
(* session's refusals, the replacements of the skills loaded now.          *)
StartRun(p) ==
  /\ ~running /\ runs < MaxRuns
  /\ running' = TRUE
  /\ perms' = p
  /\ used' = [k \in Keys |-> 0]
  /\ untrusted' = FALSE
  /\ sent' = [k \in Keys |-> 0]
  /\ runs' = runs + 1
  /\ made' = 0
  /\ UNCHANGED <<owner, reloaded, refused, flight>>

EndRun ==
  /\ running /\ \A c \in Calls : flight[c] = "none"
  /\ running' = FALSE
  /\ UNCHANGED <<owner, reloaded, refused, perms, used, untrusted,
                 flight, sent, runs, made>>

(* save_skill or a skill file edited by hand, then a reload; a run under   *)
(* way keeps the replacements it began with, so between runs is enough.    *)
ReloadSkills(t, s) ==
  /\ ~running
  /\ reloaded' = TRUE
  /\ owner' = [owner EXCEPT ![t] = s]
  /\ UNCHANGED <<refused, running, perms, used, untrusted, flight, sent, runs, made>>

(* An untrusted server's text reaches the run (TaintGate.record).          *)
UntrustedText ==
  /\ running
  /\ untrusted' = TRUE
  /\ UNCHANGED <<owner, reloaded, refused, running, perms, used,
                 flight, sent, runs, made>>
-----------------------------------------------------------------------------
(* The wrapper up to the downstream call.                                  *)

RepeatRefusal(c) ==
  /\ IsRepeat(c, perms)
  /\ UNCHANGED <<refused, used, flight>>

GateRefusal(c) ==
  /\ ~IsRepeat(c, perms)
  /\ GateRefuses(c, perms)
  /\ refused' = Remember(c, perms)
  /\ UNCHANGED <<used, flight>>

(* Mutant of RunRefusal: budget and taint refusals are remembered too. *)
RemembersRunRefusal(c) ==
  /\ ~IsRepeat(c, perms) /\ ~GateRefuses(c, perms)
  /\ TaintRefuses(c, perms) \/ BudgetRefuses(c, perms)
  /\ refused' = Remember(c, perms)
  /\ UNCHANGED <<used, flight>>

(* "Budget and taint refusals are run-level and are not remembered."       *)
RunRefusal(c) ==
  /\ ~IsRepeat(c, perms) /\ ~GateRefuses(c, perms)
  /\ TaintRefuses(c, perms) \/ BudgetRefuses(c, perms)
  /\ UNCHANGED <<refused, used, flight>>

(* Mutant of Admit: only the tool's own budget is checked. *)
SpendsFirstKeyOnly(c) ==
  /\ ~IsRepeat(c, perms) /\ ~GateRefuses(c, perms)
  /\ ~TaintRefuses(c, perms)
  /\ c.tool \in Entries(perms, c.tool) =>
       ~(Budget(perms, c.tool) > 0 /\ used[c.tool] >= Budget(perms, c.tool))
  /\ used' = [k \in Keys |->
                IF k \in Entries(perms, c.tool) THEN used[k] + 1 ELSE used[k]]
  /\ flight' = [flight EXCEPT ![c] = "first"]
  /\ UNCHANGED refused

Admit(c) ==
  /\ ~IsRepeat(c, perms) /\ ~GateRefuses(c, perms)
  /\ ~TaintRefuses(c, perms) /\ ~BudgetRefuses(c, perms)
  /\ used' = [k \in Keys |->
                IF k \in Entries(perms, c.tool) THEN used[k] + 1 ELSE used[k]]
  /\ flight' = [flight EXCEPT ![c] = "first"]
  /\ UNCHANGED refused

(* Bound: one call of a kind is under way at a time.                       *)
Call(c) ==
  /\ running /\ flight[c] = "none" /\ made < MaxCalls
  /\ made' = made + 1
  /\ RepeatRefusal(c) \/ GateRefusal(c) \/ RunRefusal(c) \/ Admit(c)
  /\ UNCHANGED <<owner, reloaded, running, perms, untrusted, sent, runs>>
-----------------------------------------------------------------------------
(* MCPClientPool.call_tool under an admitted call: an attempt that is lost *)
(* with its session may have been executed all the same.                   *)
Executed(c) ==
  sent' = [k \in Keys |-> IF k \in Entries(perms, c.tool) THEN sent[k] + 1 ELSE sent[k]]

Retry(c) ==
  /\ flight[c] = "first"
  /\ flight' = [flight EXCEPT ![c] = "second"]
  /\ Executed(c) \/ UNCHANGED sent
  /\ UNCHANGED <<owner, reloaded, refused, running, perms, used,
                 untrusted, runs, made>>

CallEnds(c) ==
  /\ flight[c] # "none"
  /\ flight' = [flight EXCEPT ![c] = "none"]
  /\ Executed(c) \/ UNCHANGED sent
  /\ UNCHANGED <<owner, reloaded, refused, running, perms, used,
                 untrusted, runs, made>>
-----------------------------------------------------------------------------
GateNext ==
  \/ \E p \in Permissions : StartRun(p)
  \/ EndRun
  \/ \E t \in Tools, s \in Skills \cup {None} : ReloadSkills(t, s)
  \/ UntrustedText
  \/ \E c \in Calls : Call(c) \/ Retry(c) \/ CallEnds(c)

GateSpec == GateInit /\ [][GateNext]_gateVars
-----------------------------------------------------------------------------
(* No budget is overspent, the server's shared one included, however many  *)
(* calls are under way.                                                    *)
BudgetHolds ==
  \A k \in Keys : Budget(perms, k) > 0 => used[k] <= Budget(perms, k)

(* The SideEffectGate docstring (executor.py:363-367): a refusal "depends  *)
(* only on the call and the permissions", so a remembered one repeats what *)
(* the gate would decide now; what a run alone decided is never repeated.  *)
(* It depends on the loaded skills too: a reload ends this guarantee.      *)
RepeatIsJust ==
  running /\ ~reloaded => \A c \in Calls : IsRepeat(c, perms) => GateRefuses(c, perms)

(* The session's memory of refusals stays bounded, one entry for a call.   *)
RefusedBounded ==
  /\ Len(refused) <= MaxRefusals
  /\ \A i, j \in 1..Len(refused) : refused[i].call = refused[j].call => i = j

(* docs/specs/sha-524.md:4, budget N: "at most N calls of that tool within *)
(* ONE execute_code run".                                                  *)
SentWithinBudget ==
  \A k \in Keys : Budget(perms, k) > 0 => sent[k] <= Budget(perms, k)
=============================================================================
