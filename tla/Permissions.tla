---------------------------- MODULE Permissions ----------------------------
(* The permissions tool: its patterns, the store of the rules, and the gate  *)
(* that holds a tool call until the user has answered.                       *)
EXTENDS Naturals, Sequences, FiniteSets, TLAPS

-----------------------------------------------------------------------------
(* The pattern matching of the permissions tool (glob_matches): one pass over *)
(* the value with a single place to come back to, the last star of the        *)
(* pattern. One step is one turn of the loop.                                 *)

CONSTANTS
    Patterns,   \* sequences of letters and "*"
    Targets     \* the commands or paths they are matched against

VARIABLES
    pattern, target,
    at,       \* [p, t]: characters of the pattern and of the target passed
    back,     \* the last star passed, 0 for none, and where its run of the target ends
    matched   \* "open" | "yes" | "no"

globVars == <<pattern, target, at, back, matched>>

GlobInit ==
    /\ pattern \in Patterns /\ target \in Targets
    /\ at = [p |-> 0, t |-> 0]
    /\ back = [star |-> 0, mark |-> 0]
    /\ matched = "open"

Star(i) == i <= Len(pattern) /\ pattern[i] = "*"
Alike(p, t) == p <= Len(pattern) /\ pattern[p] = target[t]
InTarget == matched = "open" /\ at.t < Len(target)

Letter ==
    /\ InTarget /\ Alike(at.p + 1, at.t + 1)
    /\ at' = [p |-> at.p + 1, t |-> at.t + 1]
    /\ UNCHANGED <<pattern, target, back, matched>>

TakesStar ==
    /\ InTarget /\ ~Alike(at.p + 1, at.t + 1) /\ Star(at.p + 1)
    /\ at' = [at EXCEPT !.p = @ + 1]
    /\ back' = [star |-> at.p + 1, mark |-> at.t]
    /\ UNCHANGED <<pattern, target, matched>>

ComesBack ==
    /\ InTarget /\ ~Alike(at.p + 1, at.t + 1) /\ ~Star(at.p + 1) /\ back.star # 0
    /\ at' = [p |-> back.star, t |-> back.mark + 1]
    /\ back' = [back EXCEPT !.mark = @ + 1]
    /\ UNCHANGED <<pattern, target, matched>>

Differs ==
    /\ InTarget /\ ~Alike(at.p + 1, at.t + 1) /\ ~Star(at.p + 1) /\ back.star = 0
    /\ matched' = "no"
    /\ UNCHANGED <<pattern, target, at, back>>

\* The target is used up: what is left of the pattern may only be stars.
GlobEnds ==
        /\ matched = "open" /\ at.t = Len(target)
        /\ matched' = IF \A i \in (at.p + 1)..Len(pattern) : Star(i) THEN "yes" ELSE "no"
        /\ UNCHANGED <<pattern, target, at, back>>

GlobNext == Letter \/ TakesStar \/ ComesBack \/ Differs \/ GlobEnds
(* ---------------------------------------------------------- properties ---- *)
\* A star stands for any text, every other character for itself.
Wild ==
    LET fits[p \in 0..Len(pattern), t \in 0..Len(target)] ==
            IF p = 0 THEN t = 0
            ELSE IF pattern[p] = "*" THEN fits[p - 1, t] \/ (t > 0 /\ fits[p, t - 1])
            ELSE t > 0 /\ pattern[p] = target[t] /\ fits[p - 1, t - 1]
    IN fits[Len(pattern), Len(target)]
Plainly == \A i \in 1..Len(target) : target[i] # "*"

\* A rule matches a command without stars exactly when some reading of its stars
\* makes them equal: coming back to the last star only loses nothing.
GlobIsWildcardOnPlain == matched # "open" /\ Plainly => matched = (IF Wild THEN "yes" ELSE "no")

-----------------------------------------------------------------------------
(* The permission store of the permissions tool: grant and revoke read the    *)
(* project's rules (or, without a project file, the global ones), change one  *)
(* rule and replace the project file through a temporary one named after the  *)
(* process. Calls of several processes meet in one project.                   *)

CONSTANTS
    RuleProcess,   \* processes that share the project; each runs one call at a time
    Rule,          \* rule texts
    MaxRuleCalls,  \* grants and revokes
    MaxRuleFaults  \* failed writes and renames, and processes that end

ASSUME RulesAssumption == MaxRuleCalls \in Nat /\ MaxRuleFaults \in Nat

VARIABLES
    policy,      \* the global file
    project,     \* the project file: [there, whole, allow, deny]
    temps,       \* process -> its temporary file, the same shape
    ruleCall,    \* process -> its call
    rulesNamed,       \* rules any call named
    ruleCalls, ruleFaults

ruleVars == <<policy, project, temps, ruleCall, rulesNamed, ruleCalls, ruleFaults>>

Rules(allow, deny) == [there |-> TRUE, whole |-> TRUE, allow |-> allow, deny |-> deny]
NoFile == [there |-> FALSE, whole |-> TRUE, allow |-> {}, deny |-> {}]
NoRuleCall == [at |-> "idle", action |-> "grant", effect |-> "allow", rule |-> "none", rules |-> NoFile]

RulesInit ==
    /\ policy \in {Rules({}, d) : d \in SUBSET Rule}
    /\ project = NoFile
    /\ temps = [p \in RuleProcess |-> NoFile]
    /\ ruleCall = [p \in RuleProcess |-> NoRuleCall]
    /\ rulesNamed = {} /\ ruleCalls = 0 /\ ruleFaults = 0

OfCall(p, fields) == ruleCall' = [ruleCall EXCEPT ![p] = fields]

\* The project's file decides as soon as there is one.
Source == IF project.there THEN project ELSE policy

Loads(p) ==
    /\ ruleCall[p].at = "idle" /\ ruleCalls < MaxRuleCalls
    /\ \E action \in {"grant", "revoke"}, effect \in {"allow", "deny"}, r \in Rule :
        /\ OfCall(p, [at |-> IF Source.whole THEN "loaded" ELSE "idle", action |-> action,
                      effect |-> effect, rule |-> r, rules |-> Source])
        /\ rulesNamed' = rulesNamed \cup {r}
    /\ ruleCalls' = ruleCalls + 1
    /\ UNCHANGED <<policy, project, temps, ruleFaults>>

\* The rule leaves both lists, then enters the one it is granted for.
Keeping(rules, r) == [rules EXCEPT !.allow = @ \ {r}, !.deny = @ \ {r}]
RulesAfter(c) ==
    LET kept == Keeping(c.rules, c.rule)
    IN IF c.action = "revoke" THEN kept
       ELSE IF c.effect = "allow" THEN [kept EXCEPT !.allow = @ \cup {c.rule}]
       ELSE [kept EXCEPT !.deny = @ \cup {c.rule}]

TempOf(p) == p

\* fs::write empties the file and then fills it.
RulesOpens(p) ==
         /\ ruleCall[p].at = "loaded"
         /\ temps' = [temps EXCEPT ![TempOf(p)] = [NoFile EXCEPT !.there = TRUE, !.whole = FALSE]]
         /\ OfCall(p, [ruleCall[p] EXCEPT !.at = "opened"])
         /\ UNCHANGED <<policy, project, rulesNamed, ruleCalls, ruleFaults>>
Writes(p) ==
    /\ ruleCall[p].at = "opened"
    /\ temps' = [temps EXCEPT ![TempOf(p)] = [RulesAfter(ruleCall[p]) EXCEPT !.there = TRUE]]
    /\ OfCall(p, [ruleCall[p] EXCEPT !.at = "written"])
    /\ UNCHANGED <<policy, project, rulesNamed, ruleCalls, ruleFaults>>
RulesRenames(p) ==
         /\ ruleCall[p].at = "written"
         /\ IF temps[TempOf(p)].there
            THEN /\ project' = temps[TempOf(p)]
                 /\ temps' = [temps EXCEPT ![TempOf(p)] = NoFile]
            ELSE UNCHANGED <<project, temps>>
         /\ OfCall(p, NoRuleCall)
         /\ UNCHANGED <<policy, rulesNamed, ruleCalls, ruleFaults>>

\* A write that fails leaves the temporary file, a rename that fails takes it away.
StoreFails(p) ==
    /\ ruleCall[p].at \in {"opened", "written"}
    /\ ruleFaults < MaxRuleFaults /\ ruleFaults' = ruleFaults + 1
    /\ temps' = IF ruleCall[p].at = "written" THEN [temps EXCEPT ![TempOf(p)] = NoFile] ELSE temps
    /\ OfCall(p, NoRuleCall)
    /\ UNCHANGED <<policy, project, rulesNamed, ruleCalls>>
RuleProcessEnds(p) ==
    /\ ruleCall[p].at # "idle"
    /\ ruleFaults < MaxRuleFaults /\ ruleFaults' = ruleFaults + 1
    /\ OfCall(p, NoRuleCall)
    /\ UNCHANGED <<policy, project, temps, rulesNamed, ruleCalls>>

RulesNext ==
    \E p \in RuleProcess : Loads(p) \/ RulesOpens(p) \/ Writes(p) \/ RulesRenames(p) \/ StoreFails(p) \/ RuleProcessEnds(p)
RulesSpec == RulesInit /\ [][RulesNext]_ruleVars

(* ---------------------------------------------------------- properties ---- *)
\* Whoever reads the project's rules sees a whole document, whichever processes
\* write it and wherever one ends (write_store_atomically).
StoreIsWhole == project.whole

\* A rule that calls granted one way and then the other has one effect only.
OneEffect == project.allow \cap project.deny = {}

\* The first change of a project starts from the global rules: none of them is
\* gone that no call named, whatever the order the processes commit in.
FallbackRulesKept == project.there => (policy.deny \ rulesNamed) \subseteq project.deny

-----------------------------------------------------------------------------
(* The permission gate: an event handler that holds a bash, write or edit     *)
(* call until the user has answered a dialog the host keeps for it. Several   *)
(* calls may be held at once; the host answers in any order, closes dialogs   *)
(* when their run ends, or has nobody to ask.                                 *)

CONSTANTS
    GatedCall,    \* the tool calls
    GateOn,       \* the values of the flag and the environment, off and on
    GateBypass,   \* the values of --bypass
    MaxUiFaults   \* dialog actions the host refuses

VARIABLES
    gate,      \* [bypass, enabled], as the plugin read them when it registered
    gateDialogs,   \* the host's: request id -> [call, answer]
    held,      \* call -> the handler's progress: [at, request]
    sequence,  \* request ids given out
    uiFaults

gateVars == <<gate, gateDialogs, held, sequence, uiFaults>>

NewCall == [at |-> "new", request |-> 0, dangerous |-> FALSE]

GateInit ==
    /\ \E bypass \in GateBypass, on \in GateOn :
           gate = [bypass |-> bypass, enabled |-> ~bypass /\ on]
    /\ gateDialogs = <<>>
    /\ held = [c \in GatedCall |-> NewCall]
    /\ sequence = 0 /\ uiFaults = 0

GateAt(c, place) == held[c].at = place
GateEnds(c, place) == held' = [held EXCEPT ![c].at = place]

\* Only three tools are asked about, and only while the gate is on.
Arrives(c, dangerous) ==
    /\ GateAt(c, "new")
    /\ held' = [held EXCEPT ![c].dangerous = dangerous,
                            ![c].at = IF gate.enabled /\ dangerous THEN "asking" ELSE "runs"]
    /\ UNCHANGED <<gate, gateDialogs, sequence, uiFaults>>

\* Every call asks under a request id of its own.
RequestId == sequence + 1

GateOpens(c) ==
        /\ GateAt(c, "asking")
        /\ sequence' = sequence + 1
        /\ held' = [held EXCEPT ![c].at = "polling", ![c].request = RequestId]
        /\ gateDialogs' = [r \in DOMAIN gateDialogs \cup {RequestId} |->
                              IF r \in DOMAIN gateDialogs THEN gateDialogs[r] ELSE [call |-> c, answer |-> "pending"]]
        /\ UNCHANGED <<gate, uiFaults>>

Decided(answer) ==
    IF answer = "pending" THEN "polling" ELSE IF answer = "yes" THEN "runs" ELSE "blocked"

GatePolls(c) ==
        /\ GateAt(c, "polling")
        /\ gateDialogs[held[c].request].answer # "pending"
        /\ GateEnds(c, Decided(gateDialogs[held[c].request].answer))
        /\ UNCHANGED <<gate, gateDialogs, sequence, uiFaults>>

\* The host refuses to open or to poll, or nobody can be asked: the call is blocked.
UiFails(c) ==
    /\ GateAt(c, "asking") \/ GateAt(c, "polling")
    /\ uiFaults < MaxUiFaults /\ uiFaults' = uiFaults + 1
    /\ GateEnds(c, "blocked")
    /\ UNCHANGED <<gate, gateDialogs, sequence>>

(* The host's side: the user answers, or the dialog is closed unanswered. *)
UserAnswers(r, answer) ==
    /\ gateDialogs[r].answer = "pending"
    /\ gateDialogs' = [gateDialogs EXCEPT ![r].answer = answer]
    /\ UNCHANGED <<gate, held, sequence, uiFaults>>

HandlerSteps(c) == GateOpens(c) \/ GatePolls(c) \/ UiFails(c)
GateNext ==
    \/ \E c \in GatedCall : (\E d \in BOOLEAN : Arrives(c, d)) \/ HandlerSteps(c)
    \/ \E r \in DOMAIN gateDialogs, answer \in {"yes", "no", "other", "cancelled"} : UserAnswers(r, answer)
GateSpec == GateInit /\ [][GateNext]_gateVars

(* ---------------------------------------------------------- properties ---- *)
Shown(c) == {r \in DOMAIN gateDialogs : gateDialogs[r].call = c}

\* With the gate on, a dangerous call runs only when the user said yes to the
\* question about this very call, also while other calls are being asked about
\* and their dialogs answered or closed (confirm, on_tool_call).
RunsOnlyWhenAllowed ==
    \A c \in GatedCall : gate.enabled /\ held[c].dangerous /\ GateAt(c, "runs")
                             => \E r \in Shown(c) : gateDialogs[r].answer = "yes"

-----------------------------------------------------------------------------
(* Proofs about the store of the rules. *)

RuleFile == [there : BOOLEAN, whole : BOOLEAN, allow : SUBSET Rule, deny : SUBSET Rule]

\* A document the store may hold: what a call may read, and what it may put in place.
Sensible(f) ==
    /\ f \in RuleFile /\ f.whole /\ f.allow \cap f.deny = {}
    /\ f.there => (policy.deny \ rulesNamed) \subseteq f.deny

CallSensible(p) ==
    /\ ruleCall[p].at # "idle" =>
           ruleCall[p].rule \in Rule \cap rulesNamed /\ ruleCall[p].rules.there /\ Sensible(ruleCall[p].rules)
    /\ ruleCall[p].at = "written" => temps[p].there /\ Sensible(temps[p])

RulesInv ==
    /\ ruleCall \in [RuleProcess -> [at : {"idle", "loaded", "opened", "written"}, action : {"grant", "revoke"},
                                     effect : {"allow", "deny"}, rule : Rule \cup {"none"}, rules : RuleFile]]
    /\ temps \in [RuleProcess -> RuleFile]
    /\ policy.there /\ Sensible(policy) /\ Sensible(project)
    /\ \A p \in RuleProcess : CallSensible(p)

(* Granting or revoking a rule that is named keeps a document sensible. *)
LEMMA AfterSensible ==
    ASSUME NEW c, c.action \in {"grant", "revoke"}, c.effect \in {"allow", "deny"},
           c.rule \in Rule \cap rulesNamed, c.rules.there, Sensible(c.rules)
    PROVE  RulesAfter(c).there /\ Sensible(RulesAfter(c))
<1> DEFINE kept == Keeping(c.rules, c.rule)
<1>1. /\ kept \in RuleFile /\ kept.there /\ kept.whole
      /\ kept.allow = c.rules.allow \ {c.rule} /\ kept.deny = c.rules.deny \ {c.rule}
    BY DEF Keeping, RuleFile, Sensible
<1> HIDE DEF kept
<1>2. CASE c.action = "revoke"
    <2>1. RulesAfter(c) = kept
        BY <1>2 DEF RulesAfter, kept
    <2> QED
        BY <1>1, <2>1 DEF Sensible
<1>3. CASE c.action = "grant" /\ c.effect = "allow"
    <2>1. RulesAfter(c) = [kept EXCEPT !.allow = kept.allow \cup {c.rule}]
        BY <1>3 DEF RulesAfter, kept
    <2>2. /\ RulesAfter(c) \in RuleFile /\ RulesAfter(c).there /\ RulesAfter(c).whole
          /\ RulesAfter(c).allow = kept.allow \cup {c.rule} /\ RulesAfter(c).deny = kept.deny
        BY <1>1, <2>1 DEF RuleFile
    <2> QED
        BY <1>1, <2>2 DEF Sensible
<1>4. CASE c.action = "grant" /\ c.effect = "deny"
    <2>1. RulesAfter(c) = [kept EXCEPT !.deny = kept.deny \cup {c.rule}]
        BY <1>4 DEF RulesAfter, kept
    <2>2. /\ RulesAfter(c) \in RuleFile /\ RulesAfter(c).there /\ RulesAfter(c).whole
          /\ RulesAfter(c).allow = kept.allow /\ RulesAfter(c).deny = kept.deny \cup {c.rule}
        BY <1>1, <2>1 DEF RuleFile
    <2> QED
        BY <1>1, <2>2 DEF Sensible
<1> QED
    BY <1>2, <1>3, <1>4

(* What one process does leaves the calls of the others, and their files, alone. *)
LEMMA RulesStep == RulesInv /\ [RulesNext]_ruleVars => RulesInv'
<1> SUFFICES ASSUME RulesInv, [RulesNext]_ruleVars PROVE RulesInv'
    OBVIOUS
<1> USE DEF TempOf, OfCall
<1>0. /\ NoFile \in RuleFile /\ [NoFile EXCEPT !.there = TRUE, !.whole = FALSE] \in RuleFile
      /\ NoRuleCall \in [at : {"idle", "loaded", "opened", "written"}, action : {"grant", "revoke"},
                         effect : {"allow", "deny"}, rule : Rule \cup {"none"}, rules : RuleFile]
      /\ NoRuleCall.at = "idle"
    BY DEF NoFile, NoRuleCall, RuleFile
<1>1. ASSUME NEW p \in RuleProcess, Loads(p) PROVE RulesInv'
    <2>1. /\ Source \in RuleFile /\ Sensible(Source) /\ Source.there
        BY DEF RulesInv, Source, Sensible
    <2>2. PICK action \in {"grant", "revoke"}, effect \in {"allow", "deny"}, r \in Rule :
              /\ ruleCall' = [ruleCall EXCEPT ![p] =
                     [at |-> IF Source.whole THEN "loaded" ELSE "idle", action |-> action,
                      effect |-> effect, rule |-> r, rules |-> Source]]
              /\ rulesNamed' = rulesNamed \cup {r}
        BY <1>1 DEF Loads
    <2>3. UNCHANGED <<policy, project, temps>>
        BY <1>1 DEF Loads
    <2>4. ASSUME NEW f, Sensible(f) PROVE Sensible(f)'
        BY <2>2, <2>3, <2>4 DEF Sensible
    <2>5. /\ ruleCall'[p].at = "loaded" /\ ruleCall'[p].rule = r /\ ruleCall'[p].rules = Source
          /\ \A q \in RuleProcess : q # p => ruleCall'[q] = ruleCall[q]
        BY <2>1, <2>2 DEF RulesInv, Sensible
    <2>6. CallSensible(p)'
        BY <2>1, <2>2, <2>4, <2>5 DEF CallSensible, Sensible
    <2>7. \A q \in RuleProcess : q # p => CallSensible(q)'
        BY <2>2, <2>3, <2>5 DEF RulesInv, CallSensible, Sensible
    <2>8. Sensible(policy)' /\ Sensible(project)' /\ policy'.there
        BY <2>2, <2>3 DEF RulesInv, Sensible
    <2>9. ruleCall' \in [RuleProcess -> [at : {"idle", "loaded", "opened", "written"}, action : {"grant", "revoke"},
                                     effect : {"allow", "deny"}, rule : Rule \cup {"none"}, rules : RuleFile]]
        BY <2>1, <2>2 DEF RulesInv
    <2> QED
        BY <2>3, <2>6, <2>7, <2>8, <2>9 DEF RulesInv
<1>2. ASSUME NEW p \in RuleProcess, RulesOpens(p) PROVE RulesInv'
    BY <1>0, <1>2 DEF RulesInv, RulesOpens, CallSensible, Sensible
<1>3. ASSUME NEW p \in RuleProcess, Writes(p) PROVE RulesInv'
    <2> DEFINE c == ruleCall[p] after == RulesAfter(ruleCall[p])
    <2>1. /\ c.action \in {"grant", "revoke"} /\ c.effect \in {"allow", "deny"}
          /\ c.rule \in Rule \cap rulesNamed /\ c.rules.there /\ Sensible(c.rules)
        BY <1>3 DEF RulesInv, Writes, CallSensible
    <2>2. after.there /\ Sensible(after)
        BY <2>1, AfterSensible
    <2>3. temps' = [temps EXCEPT ![p] = after]
        BY <1>3, <2>2 DEF Writes, Sensible, RuleFile
    <2> HIDE DEF after
    <2>4. temps'[p] = after /\ temps' \in [RuleProcess -> RuleFile] /\ \A q \in RuleProcess : q # p => temps'[q] = temps[q]
        BY <2>2, <2>3 DEF RulesInv, Sensible
    <2>5. ruleCall' = [ruleCall EXCEPT ![p].at = "written"] /\ UNCHANGED <<policy, project, rulesNamed>>
        BY <1>3 DEF Writes
    <2>6. \A f : Sensible(f) => Sensible(f)'
        BY <2>5 DEF Sensible
    <2>7. \A q \in RuleProcess : /\ q # p => ruleCall'[q] = ruleCall[q]
                                /\ ruleCall'[q].rule = ruleCall[q].rule /\ ruleCall'[q].rules = ruleCall[q].rules
        BY <2>5 DEF RulesInv
    <2>8. \A q \in RuleProcess : CallSensible(q)'
        BY <2>1, <2>2, <2>4, <2>5, <2>6, <2>7 DEF RulesInv, CallSensible
    <2>9. Sensible(policy)' /\ Sensible(project)' /\ policy'.there
        BY <2>5, <2>6 DEF RulesInv
    <2>10. ruleCall' \in [RuleProcess -> [at : {"idle", "loaded", "opened", "written"}, action : {"grant", "revoke"},
                                     effect : {"allow", "deny"}, rule : Rule \cup {"none"}, rules : RuleFile]]
        BY <2>5 DEF RulesInv
    <2> QED
        BY <2>4, <2>8, <2>9, <2>10 DEF RulesInv
<1>4. ASSUME NEW p \in RuleProcess, RulesRenames(p) PROVE RulesInv'
    BY <1>0, <1>4 DEF RulesInv, RulesRenames, CallSensible, Sensible
<1>5. ASSUME NEW p \in RuleProcess, StoreFails(p) PROVE RulesInv'
    BY <1>0, <1>5 DEF RulesInv, StoreFails, CallSensible, Sensible
<1>6. ASSUME NEW p \in RuleProcess, RuleProcessEnds(p) PROVE RulesInv'
    BY <1>0, <1>6 DEF RulesInv, RuleProcessEnds, CallSensible, Sensible
<1>7. ASSUME UNCHANGED ruleVars PROVE RulesInv'
    BY <1>7 DEF RulesInv, ruleVars, CallSensible, Sensible
<1> QED
    BY <1>1, <1>2, <1>3, <1>4, <1>5, <1>6, <1>7 DEF RulesNext

(* For any number of processes, rules, calls, failures and processes that end:  *)
(* the project's file is a whole document, gives no rule two effects, and keeps *)
(* every global rule that nobody named.                                         *)
THEOREM StoreKept == RulesSpec => [](StoreIsWhole /\ OneEffect /\ FallbackRulesKept)
<1>1. ASSUME RulesInit PROVE RulesInv
    <2>1. PICK d \in SUBSET Rule : policy = Rules({}, d)
        BY <1>1 DEF RulesInit
    <2>2. policy.there /\ Sensible(policy)
        BY <2>1 DEF Sensible, Rules, RuleFile
    <2>3. NoFile \in RuleFile /\ Sensible(NoFile)
        BY DEF Sensible, NoFile, RuleFile
    <2>4. NoRuleCall \in [at : {"idle", "loaded", "opened", "written"}, action : {"grant", "revoke"},
                          effect : {"allow", "deny"}, rule : Rule \cup {"none"}, rules : RuleFile]
        BY <2>3 DEF NoRuleCall
    <2>5. \A p \in RuleProcess : CallSensible(p)
        BY <1>1 DEF RulesInit, CallSensible, NoRuleCall
    <2> QED
        BY <1>1, <2>2, <2>3, <2>4, <2>5 DEF RulesInit, RulesInv
<1>2. RulesInv => StoreIsWhole /\ OneEffect /\ FallbackRulesKept
    BY DEF RulesInv, Sensible, StoreIsWhole, OneEffect, FallbackRulesKept
<1> QED
    BY <1>1, <1>2, RulesStep, PTL DEF RulesSpec

(* Proofs about the gate. *)

\* Requests are numbered as the dialogs are opened, and each polls its own.
GateInv ==
    /\ sequence \in Nat /\ DOMAIN gateDialogs = 1..sequence
    /\ \A r \in 1..sequence : gateDialogs[r] \in [call : GatedCall, answer : {"pending", "yes", "no", "other", "cancelled"}]
    /\ held \in [GatedCall -> [at : {"new", "asking", "polling", "runs", "blocked"}, request : Nat, dangerous : BOOLEAN]]
    /\ \A c \in GatedCall : GateAt(c, "polling") =>
           held[c].request \in 1..sequence /\ gateDialogs[held[c].request].call = c
    /\ RunsOnlyWhenAllowed

(* A dialog keeps its call, and an answer once given. *)
LEMMA GateStep == GateInv /\ [GateNext]_gateVars => GateInv'
<1> SUFFICES ASSUME GateInv, [GateNext]_gateVars PROVE GateInv'
    OBVIOUS
<1> USE DEF GateAt, Shown
<1>1. ASSUME NEW c \in GatedCall, NEW d \in BOOLEAN, Arrives(c, d) PROVE GateInv'
    BY <1>1 DEF GateInv, Arrives, RunsOnlyWhenAllowed
<1>2. ASSUME NEW c \in GatedCall, GateOpens(c) PROVE GateInv'
    <2>1. /\ sequence' = sequence + 1 /\ sequence' \in Nat /\ 1..sequence' = 1..sequence \cup {sequence + 1}
        BY <1>2 DEF GateInv, GateOpens
    <2>2. /\ DOMAIN gateDialogs' = 1..sequence'
          /\ \A r \in 1..sequence : gateDialogs'[r] = gateDialogs[r]
          /\ gateDialogs'[sequence + 1] = [call |-> c, answer |-> "pending"]
        BY <1>2, <2>1 DEF GateInv, GateOpens, RequestId
    <2>3. held' = [held EXCEPT ![c].at = "polling", ![c].request = sequence + 1] /\ sequence + 1 \in Nat
        BY <1>2, <2>1 DEF GateOpens, RequestId
    <2>4. held'[c] = [held[c] EXCEPT !.at = "polling", !.request = sequence + 1]
        BY <2>3 DEF GateInv
    <2>5. held[c] \in [at : {"new", "asking", "polling", "runs", "blocked"}, request : Nat, dangerous : BOOLEAN]
        BY DEF GateInv
    <2>6. held'[c] \in [at : {"new", "asking", "polling", "runs", "blocked"}, request : Nat, dangerous : BOOLEAN]
        BY <2>3, <2>4, <2>5
    <2>7. /\ held'[c].at = "polling" /\ held'[c].request = sequence + 1
          /\ \A b \in GatedCall : b # c => held'[b] = held[b]
          /\ held' \in [GatedCall -> [at : {"new", "asking", "polling", "runs", "blocked"}, request : Nat, dangerous : BOOLEAN]]
        BY <2>3, <2>4, <2>5, <2>6 DEF GateInv
    <2>8. gate' = gate
        BY <1>2 DEF GateOpens
    <2>9. RunsOnlyWhenAllowed'
        BY <2>1, <2>2, <2>7, <2>8 DEF GateInv, RunsOnlyWhenAllowed
    <2>10. \A r \in 1..sequence' : gateDialogs'[r] \in [call : GatedCall, answer : {"pending", "yes", "no", "other", "cancelled"}]
        BY <2>1, <2>2 DEF GateInv
    <2>11. \A b \in GatedCall : held'[b].at = "polling" =>
              held'[b].request \in 1..sequence' /\ gateDialogs'[held'[b].request].call = b
        BY <2>1, <2>2, <2>7 DEF GateInv
    <2> QED
        BY <2>1, <2>2, <2>7, <2>9, <2>10, <2>11 DEF GateInv
<1>3. ASSUME NEW c \in GatedCall, GatePolls(c) PROVE GateInv'
    BY <1>3 DEF GateInv, GatePolls, GateEnds, Decided, RunsOnlyWhenAllowed
<1>4. ASSUME NEW c \in GatedCall, UiFails(c) PROVE GateInv'
    BY <1>4 DEF GateInv, UiFails, GateEnds, RunsOnlyWhenAllowed
<1>5. ASSUME NEW r \in DOMAIN gateDialogs, NEW answer \in {"yes", "no", "other", "cancelled"}, UserAnswers(r, answer)
      PROVE  GateInv'
    <2>1. /\ DOMAIN gateDialogs' = 1..sequence /\ gateDialogs[r].answer = "pending"
          /\ gateDialogs'[r].call = gateDialogs[r].call
          /\ \A s \in 1..sequence : s # r => gateDialogs'[s] = gateDialogs[s]
          /\ \A s \in 1..sequence :
                 gateDialogs'[s] \in [call : GatedCall, answer : {"pending", "yes", "no", "other", "cancelled"}]
        BY <1>5 DEF GateInv, UserAnswers
    <2>2. UNCHANGED <<gate, held, sequence>>
        BY <1>5 DEF UserAnswers
    <2>3. RunsOnlyWhenAllowed'
        <3> SUFFICES ASSUME NEW c \in GatedCall, gate.enabled, held[c].dangerous, held[c].at = "runs"
                     PROVE  \E s \in 1..sequence : gateDialogs'[s].call = c /\ gateDialogs'[s].answer = "yes"
            BY <2>1, <2>2 DEF RunsOnlyWhenAllowed
        <3>1. PICK s \in 1..sequence : gateDialogs[s].call = c /\ gateDialogs[s].answer = "yes"
            BY DEF GateInv, RunsOnlyWhenAllowed
        <3> QED
            BY <2>1, <3>1
    <2>4. \A c \in GatedCall : held'[c].at = "polling" =>
              held'[c].request \in 1..sequence' /\ gateDialogs'[held'[c].request].call = c
        BY <2>1, <2>2, ZenonT(60) DEF GateInv
    <2> QED
        BY <2>1, <2>2, <2>3, <2>4 DEF GateInv
<1>6. ASSUME UNCHANGED gateVars PROVE GateInv'
    BY <1>6 DEF GateInv, gateVars, RunsOnlyWhenAllowed
<1> QED
    BY <1>1, <1>2, <1>3, <1>4, <1>5, <1>6 DEF GateNext, HandlerSteps

(* For any number of held calls: with the gate on, a dangerous call runs only *)
(* when the user said yes to the question about this very call.               *)
THEOREM CallsAllowed == GateSpec => []RunsOnlyWhenAllowed
<1>1. GateInit => GateInv
    BY DEF GateInit, GateInv, NewCall, GateAt, RunsOnlyWhenAllowed
<1>2. GateInv => RunsOnlyWhenAllowed
    BY DEF GateInv
<1> QED
    BY <1>1, <1>2, GateStep, PTL DEF GateSpec

=============================================================================
