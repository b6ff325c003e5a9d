---------------------------- MODULE WitnessPolicy -----------------------------
(***************************************************************************)
(* The trust policy of a c2sp-tlog verifier (log/c2sptlog/policy_parser.go  *)
(* and Policy of proof.go): a tlog-policy document is parsed line by line   *)
(* into a tree of quorum rules, or a policy is built directly; witnesses    *)
(* cosign a checkpoint, each by its own clock; the verifier decides whether *)
(* the quorum is met and which time it accepts for the checkpoint.          *)
(*                                                                         *)
(* A component of the document is known by its position instead of a name:  *)
(* names are distinct.  Log signatures, the checkpoint's syntax and its     *)
(* root are left out, and a bad line ends the parse without a policy.  All  *)
(* witnesses' clocks are within ClockError.                                 *)
(***************************************************************************)
EXTENDS Integers, Sequences, FiniteSets, FiniteSetsExt, SequencesExt

CONSTANTS Keys,           \* the witnesses' keys
          MaxComponents,  \* bound on the witnesses and groups of a document
          ClockError, ClockSkew, MaxCheckpointAge,
          MaxTime,
          None

VARIABLES now,
          doc,         \* what is parsed of the document: components, quorum, log
          policy,      \* the policy, once there is one
          sigs,        \* the cosignatures of the checkpoint: a time for each key
          result       \* of the last verification

vars == <<now, doc, policy, sigs, result>>

\* The time at which the checkpoint was made, after every clock's zero.
Created == ClockError

EmptyDoc == [components |-> <<>>, quorum |-> None, log |-> FALSE]

NoneRule == [kind |-> "none"]
WitnessRule(key) == [kind |-> "witness", key |-> key]
GroupRule(threshold, members) == [kind |-> "group", threshold |-> threshold, members |-> members]

RECURSIVE Evaluate(_, _), MinimumSignatures(_), Satisfied(_, _)

(* Mutants. *)
LatestTime(times) == Max(times)

-----------------------------------------------------------------------------
(* ParsePolicy *)

\* minimumSignatures: the smallest members of a group up to its threshold.
MinimumSignatures(rule) ==
    CASE rule.kind = "none" -> 0
      [] rule.kind = "witness" -> 1
      [] rule.kind = "group" ->
           LET least == SetToSortSeq({<<MinimumSignatures(rule.members[i]), i>> : i \in DOMAIN rule.members},
                                     LAMBDA a, b : a[1] < b[1] \/ (a[1] = b[1] /\ a[2] < b[2]))
           IN  FoldLeft(LAMBDA n, x : n + x[1], 0, SubSeq(least, 1, rule.threshold))

Parsing == policy = None

LogLine == Parsing /\ ~doc.log /\ doc' = [doc EXCEPT !.log = TRUE] /\ UNCHANGED <<now, policy, sigs, result>>

Define(rule) == Len(doc.components) < MaxComponents /\ doc' = [doc EXCEPT !.components = Append(@, rule)]

WitnessLine == Parsing /\ (\E key \in Keys : Define(WitnessRule(key))) /\ UNCHANGED <<now, policy, sigs, result>>

\* Distinct members, all defined on earlier lines, in the order of the line.
GroupLine ==
    /\ Parsing
    /\ \E chosen \in SUBSET (DOMAIN doc.components) \ {{}} :
         \E order \in SetToSeqs(chosen), threshold \in 1 .. Cardinality(chosen) :
           Define(GroupRule(threshold, [i \in DOMAIN order |-> doc.components[order[i]]]))
    /\ UNCHANGED <<now, policy, sigs, result>>

QuorumLine ==
    /\ Parsing /\ doc.quorum = None
    /\ \E rule \in ToSet(doc.components) \cup {NoneRule} : doc' = [doc EXCEPT !.quorum = rule]
    /\ UNCHANGED <<now, policy, sigs, result>>

\* The caller sets the age that the policy allows, or none.
EndOfDocument ==
    /\ Parsing /\ doc.log /\ doc.quorum # None
    /\ LET witnesses == SelectSeq(doc.components, LAMBDA r : r.kind = "witness")
       IN  \E age \in {0, MaxCheckpointAge} :
             policy' = [rule |-> doc.quorum, witnesses |-> [i \in DOMAIN witnesses |-> witnesses[i].key],
                        quorum |-> MinimumSignatures(doc.quorum), override |-> FALSE, maxAge |-> age]
    /\ doc' = EmptyDoc
    /\ UNCHANGED <<now, sigs, result>>

\* A Policy built without a document has a number of witnesses and no rule, and
\* may have its own rule for the checkpoint's time (CheckpointTime).
DirectPolicy ==
    /\ Parsing /\ doc = EmptyDoc
    /\ \E chosen \in SUBSET Keys, override \in BOOLEAN, age \in {0, MaxCheckpointAge} : \E quorum \in 0 .. Cardinality(chosen) :
         policy' = [rule |-> None, witnesses |-> SetToSeq(chosen), quorum |-> quorum,
                    override |-> override, maxAge |-> age]
    /\ UNCHANGED <<now, doc, sigs, result>>

-----------------------------------------------------------------------------
(* Policy.verifyCheckpoint *)

\* note.Open fails on a signature for which two verifiers are configured.
Opens == \A k \in DOMAIN sigs : Cardinality({i \in DOMAIN policy.witnesses : policy.witnesses[i] = k}) <= 1

\* The successful members of a group that count: the first ones in policy order.
Counted(results, threshold) ==
    LET ok == SelectSeq(results, LAMBDA r : r.ok) IN IF Len(ok) < threshold THEN <<>> ELSE SubSeq(ok, 1, threshold)

\* checkpointQuorumRule.evaluate: whether the rule is met, and the times it used.
Evaluate(rule, s) ==
    CASE rule.kind = "none" -> [ok |-> TRUE, times |-> {}]
      [] rule.kind = "witness" -> IF rule.key \in DOMAIN s THEN [ok |-> TRUE, times |-> {s[rule.key]}]
                                                           ELSE [ok |-> FALSE, times |-> {}]
      [] rule.kind = "group" ->
           LET counted == Counted([i \in DOMAIN rule.members |-> Evaluate(rule.members[i], s)], rule.threshold)
           IN  [ok |-> counted # <<>>, times |-> UNION {counted[i].times : i \in DOMAIN counted}]

\* Without a rule every accepted witness counts.
CountWitnesses(s) ==
    LET accepted == {k \in DOMAIN s : k \in ToSet(policy.witnesses)}
    IN  IF policy.quorum = 0 THEN [ok |-> TRUE, times |-> {}]
        ELSE [ok |-> Cardinality(accepted) >= policy.quorum, times |-> {s[k] : k \in accepted}]

ValidWitnessTime(t) == t <= now + ClockSkew

EarliestTime(times) == Min(times)

\* acceptedCheckpointTime: whether it succeeds, and the time, if there is one.
\* A caller's CheckpointTime replaces it; here it answers Created.
AcceptedCheckpointTime ==
    LET e == IF policy.rule # None THEN Evaluate(policy.rule, sigs) ELSE CountWitnesses(sigs)
    IN  IF policy.override THEN [ok |-> TRUE, time |-> {Created}]
        ELSE [ok |-> e.ok /\ \A t \in e.times : ValidWitnessTime(t),
              time |-> IF e.times = {} THEN {} ELSE {EarliestTime(e.times)}]

ScopeAllowed(scope) == scope = "public" => policy.quorum > 0

Recent(time) == policy.maxAge > 0 => time # {} /\ \A t \in time : now - t <= policy.maxAge

IntegrationTime(t) == t + ClockSkew

VerifyCheckpoint ==
    /\ policy # None
    /\ \E scope \in {"public", "private"} :
         LET a == AcceptedCheckpointTime
         IN  result' = [scope |-> scope, sigs |-> sigs, at |-> now,
                        accepted |-> ScopeAllowed(scope) /\ Opens /\ a.ok /\ Recent(a.time),
                        time |-> a.time, integration |-> {IntegrationTime(t) : t \in a.time}]
    /\ UNCHANGED <<now, doc, policy, sigs>>

-----------------------------------------------------------------------------
(* Witnesses and the clock: external *)

\* A witness cosigns the checkpoint, or cosigns it again.
Cosign ==
    /\ policy # None
    /\ \E k \in Keys, e \in -ClockError .. ClockError :
         sigs' = [j \in DOMAIN sigs \cup {k} |-> IF j = k THEN now + e ELSE sigs[j]]
    /\ result' = None
    /\ UNCHANGED <<now, doc, policy>>

Tick == policy # None /\ now < MaxTime /\ now' = now + 1 /\ result' = None /\ UNCHANGED <<doc, policy, sigs>>

Init == now = Created /\ doc = EmptyDoc /\ policy = None /\ sigs = <<>> /\ result = None

Next == \/ LogLine \/ WitnessLine \/ GroupLine \/ QuorumLine \/ EndOfDocument \/ DirectPolicy
        \/ VerifyCheckpoint \/ Cosign \/ Tick

Spec == Init /\ [][Next]_vars

-----------------------------------------------------------------------------
(* Properties *)

\* The meaning of a quorum rule: what set of witnesses meets it.
Satisfied(rule, ks) ==
    CASE rule.kind = "none" -> TRUE
      [] rule.kind = "witness" -> rule.key \in ks
      [] rule.kind = "group" -> Cardinality({i \in DOMAIN rule.members : Satisfied(rule.members[i], ks)}) >= rule.threshold

Quorum(ks) == IF policy.rule # None THEN Satisfied(policy.rule, ks)
              ELSE Cardinality(ks \cap ToSet(policy.witnesses)) >= policy.quorum

Accepted == result # None /\ result.accepted

\* Accepted by the default rule for the time of a checkpoint.
ByWitnesses == Accepted /\ ~policy.override

\* The witnesses that cosigned at or after the accepted time are a quorum by
\* themselves, so that a quorum vouches for the checkpoint being that recent,
\* whichever cosignatures the rule counted and however groups overlap.
QuorumSinceAcceptedTime ==
    ByWitnesses => \A t \in result.time : Quorum({k \in DOMAIN result.sigs : result.sigs[k] >= t})

\* A checkpoint whose cosignatures are all recent, and none from the future, is
\* accepted when they contain a quorum: which members of a group signed, and in
\* what order the document lists them, does not matter.
QuorumSuffices ==
    result # None /\ Opens /\ DOMAIN result.sigs # {}
        /\ (\A k \in DOMAIN result.sigs : result.sigs[k] <= result.at /\ result.at - result.sigs[k] <= MaxCheckpointAge)
        /\ policy.quorum > 0 /\ ~policy.override /\ Quorum(DOMAIN result.sigs)
        => result.accepted

\* The integration time is never before the checkpoint was made, so that no
\* honest event in it is dated after it, if the skew allowed for covers the
\* error of the witnesses' clocks.
IntegratedAfterCreation == Accepted => \A t \in result.integration : t >= Created

\* A public checkpoint is accepted only under a policy with a quorum, and only when
\* a witness of the policy has cosigned it, whatever document or direct policy was
\* configured, unless the policy has a CheckpointTime: that takes the place of the
\* whole rule, and then the cosignatures decide nothing.
PublicIsWitnessed ==
    /\ Accepted /\ result.scope = "public" =>
         /\ policy.quorum > 0
         /\ policy.override \/ \E k \in DOMAIN result.sigs : k \in ToSet(policy.witnesses)
    /\ result # None /\ policy.override /\ ScopeAllowed(result.scope) /\ Opens =>
         (result.accepted <=> policy.maxAge = 0 \/ result.at <= Created + policy.maxAge)
=============================================================================
