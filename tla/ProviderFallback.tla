-------------------------- MODULE ProviderFallback --------------------------
(***************************************************************************)
(* AiClient.runWithProviderFallback (src/src/ai-client.ts): one request of *)
(* a pod goes through the model providers, passes over those that cool     *)
(* down and puts each one that fails into a cooldown. The table belongs to *)
(* one process: pods do not share it and a restart empties it. Time is in  *)
(* ticks. The order of the providers (a weighted draw, then the fallback   *)
(* order of the configuration) is abstracted to any order.                 *)
(***************************************************************************)
EXTENDS Integers, FiniteSets, FiniteSetsExt

CONSTANTS Pods,
          Providers,      \* config.aiReviewProviders of positive weight
          Cooldowns       \* the default cooldown and those an error may name

ASSUME ProviderAssumption ==
  /\ IsFiniteSet(Providers) /\ Providers # {}
  /\ IsFiniteSet(Cooldowns) /\ Cooldowns \subseteq Nat \ {0}

VARIABLES cooling,        \* ticks until a provider may be asked again
          failed          \* the providers that failed the request under way

providerVars == <<cooling, failed>>

MaxCooldown == Max(Cooldowns \cup {0})

NoCooldown == [v \in Providers |-> 0]

ProviderTypeOK ==
  /\ cooling \in [Pods -> [Providers -> 0..MaxCooldown]]
  /\ failed \in [Pods -> SUBSET Providers]

ProviderInit ==
  /\ cooling = [s \in Pods |-> NoCooldown]
  /\ failed = [s \in Pods |-> {}]

-----------------------------------------------------------------------------
(* providerCooldownRemainingMs(v) = 0, and not yet passed in this loop. *)
MayBeAsked(s, v) == cooling[s][v] = 0 /\ v \notin failed[s]

RequestOver(s) == failed' = [failed EXCEPT ![s] = {}]

(* A success leaves the table as it is. *)
ProviderAnswers(s, v) ==
  /\ MayBeAsked(s, v)
  /\ RequestOver(s)
  /\ UNCHANGED cooling

(* cooldownProvider writes the new cooldown over whatever was there. *)
ProviderFails(s, v, ticks) ==
  /\ MayBeAsked(s, v)
  /\ failed' = [failed EXCEPT ![s] = @ \cup {v}]
  /\ cooling' = [cooling EXCEPT ![s][v] = ticks]

Exhausted(s) == \A v \in Providers : ~MayBeAsked(s, v)

(* "All AI providers failed": an error like any other. *)
AllProvidersFailed(s) ==
  /\ Exhausted(s)
  /\ failed[s] # {}
  /\ RequestOver(s)
  /\ UNCHANGED cooling

(* AiProviderCooldownError: nobody was asked, so nobody failed. *)
AllProvidersCooling(s) ==
  /\ Exhausted(s)
  /\ failed[s] = {}
  /\ UNCHANGED providerVars

RetryAfter(s) == Min({cooling[s][v] : v \in Providers})

CooledBy1(s) == [v \in Providers |-> IF cooling[s][v] > 0 THEN cooling[s][v] - 1 ELSE 0]

(* A new process starts with an empty table and no request. *)
ProviderTableLost(s) ==
  /\ cooling' = [cooling EXCEPT ![s] = NoCooldown]
  /\ failed' = [failed EXCEPT ![s] = {}]
=============================================================================
