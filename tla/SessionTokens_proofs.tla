------------------------- MODULE SessionTokens_proofs -------------------------
(***************************************************************************)
(* SessionTokens: types, one right to continue per session, no exchange in *)
(* a compromised family, no continuation of an ended session without a     *)
(* call that had the right to issue then.  IInv is inductive.  It adds that*)
(* families are named by rows, which token a call can hold at which step,  *)
(* that a call that vetted a live row found a clean family that is still   *)
(* clean, and that a call that claimed a row of an ended session was       *)
(* overtaken by the end.                                                   *)
(***************************************************************************)
EXTENDS SessionTokens, TLAPS

CallRecords == [at : CallSteps, token : Tokens \cup {NoToken}, late : BOOLEAN]
WithToken == {"read", "vetted", "claimed", "replay"}

Rooted == \A t \in Tokens : family[t] # NoToken => family[family[t]] # NoToken
CallTokens ==
    \A c \in Calls : /\ call[c].at \in WithToken => call[c].token \in Created
                     /\ call[c].at \notin WithToken => call[c].token = NoToken
VettedClean ==
    \A c \in Calls : (call[c].at = "vetted" /\ call[c].token \in live) =>
        Siblings(call[c].token) \cap reused = {}
EndedCreated == ended \subseteq Created
ClaimedOvertaken ==
    \A c \in Calls : (call[c].at = "claimed" /\ call[c].token \in ended) =>
        (call[c].late \/ call[c].token \in overlapped)

IInv ==
    /\ TypeOK
    /\ Rooted
    /\ CallTokens
    /\ SessionNeverForks
    /\ VettedClean
    /\ EndedCreated
    /\ ClaimedOvertaken
    /\ EndedSessionNeedsOverlap

(* Initially there is no row and no call.                                  *)
LEMMA InitIInv == Init => IInv
<1> SUFFICES ASSUME Init PROVE IInv
  OBVIOUS
<1>1. /\ live = {} /\ reused = {} /\ expired = {} /\ ended = {} /\ overlapped = {}
      /\ \A c \in Calls : call[c] = Idle
      /\ \A t \in Tokens : family[t] = NoToken
  BY DEF Init
<1>2. Idle.at = "idle" /\ Idle.token = NoToken /\ Idle \in CallRecords
  BY DEF Idle, CallRecords, CallSteps
<1>3. TypeOK
  BY <1>1, <1>2 DEF Init, TypeOK, CallRecords, Created
<1>4. Rooted /\ CallTokens /\ SessionNeverForks /\ VettedClean
  BY <1>1, <1>2 DEF Rooted, CallTokens, SessionNeverForks, VettedClean, WithToken
<1>5. EndedCreated /\ ClaimedOvertaken /\ EndedSessionNeedsOverlap
  BY <1>1 DEF EndedCreated, ClaimedOvertaken, EndedSessionNeedsOverlap
<1> QED BY <1>3, <1>4, <1>5 DEF IInv

(* A step of one call that writes no row and claims none preserves IInv.   *)
LEMMA CallMoves ==
  ASSUME IInv, NEW c \in Calls, NEW r \in CallRecords, call' = [call EXCEPT ![c] = r],
         UNCHANGED <<rowVars, historyVars>>, registered' \in BOOLEAN, resetOpen' \in BOOLEAN,
         r.at # "claimed",
         r.at \in WithToken => r.token \in Created,
         r.at \notin WithToken => r.token = NoToken,
         (r.at = "vetted" /\ r.token \in live) => Siblings(r.token) \cap reused = {}
  PROVE  IInv'
<1> USE DEF rowVars, historyVars
<1>1. /\ call'[c] = r
      /\ \A d \in Calls : d # c => call'[d] = call[d]
      /\ call' \in [Calls -> CallRecords]
  BY DEF IInv, TypeOK, CallRecords
<1>2. TypeOK'
  BY <1>1 DEF IInv, TypeOK, CallRecords, Created
<1>3. Rooted' /\ EndedCreated' /\ EndedSessionNeedsOverlap'
  BY DEF IInv, Rooted, EndedCreated, EndedSessionNeedsOverlap, Created
<1>4. CallTokens'
  BY <1>1 DEF IInv, CallTokens, Created
<1>5. SessionNeverForks'
  BY <1>1 DEF IInv, SessionNeverForks
<1>6. VettedClean'
  BY <1>1 DEF IInv, VettedClean, Siblings
<1>7. ClaimedOvertaken'
  BY <1>1 DEF IInv, ClaimedOvertaken
<1> QED BY <1>2, <1>3, <1>4, <1>5, <1>6, <1>7 DEF IInv

(* Returning a call is such a step.                                        *)
LEMMA CallReturns ==
  ASSUME IInv, NEW c \in Calls, Return(c), UNCHANGED <<rowVars, historyVars>>,
         registered' \in BOOLEAN, resetOpen' \in BOOLEAN
  PROVE  IInv'
<1>1. /\ Idle \in CallRecords /\ Idle.at \notin WithToken /\ Idle.token = NoToken
      /\ Idle.at # "claimed" /\ Idle.at # "vetted"
  BY DEF Idle, CallRecords, CallSteps, WithToken
<1> QED BY <1>1, CallMoves DEF Return

(* Moving a call to another step with the same kind of token is one too.   *)
LEMMA CallProceeds ==
  ASSUME IInv, NEW c \in Calls, NEW step \in CallSteps, To(c, step),
         UNCHANGED <<rowVars, historyVars>>, registered' \in BOOLEAN, resetOpen' \in BOOLEAN,
         step # "claimed", step \in WithToken <=> call[c].at \in WithToken,
         step = "vetted" => Siblings(call[c].token) \cap reused = {}
  PROVE  IInv'
<1> DEFINE r == [call[c] EXCEPT !.at = step]
<1>1. /\ r \in CallRecords
      /\ r.at = step /\ r.token = call[c].token
  BY DEF IInv, TypeOK, CallRecords
<1>2. call' = [call EXCEPT ![c] = r]
  BY DEF To
<1>3. /\ r.at \in WithToken => r.token \in Created
      /\ r.at \notin WithToken => r.token = NoToken
  BY <1>1 DEF IInv, CallTokens
<1> HIDE DEF r
<1> QED BY <1>1, <1>2, <1>3, CallMoves

-----------------------------------------------------------------------------

(* A refresh presents a token and finds it live or used.                   *)
LEMMA ReadTokenStep ==
  ASSUME IInv, NEW c \in Calls, NEW t \in Tokens, ReadToken(c, t)  PROVE IInv'
<1> DEFINE r == [at |-> IF t \in live THEN "read" ELSE "replay", token |-> t, late |-> FALSE]
<1>1. /\ r \in CallRecords /\ r.at \in WithToken /\ r.at # "claimed" /\ r.at # "vetted"
      /\ r.token = t /\ t \in Created
  BY DEF ReadToken, CallRecords, CallSteps, WithToken
<1>2. /\ call' = [call EXCEPT ![c] = r] /\ UNCHANGED <<rowVars, historyVars>>
      /\ registered' \in BOOLEAN /\ resetOpen' \in BOOLEAN
  BY DEF ReadToken, userVars, IInv, TypeOK
<1> HIDE DEF r
<1> QED BY <1>1, <1>2, CallMoves

(* The family of a live token is looked at.                                *)
LEMMA VetFamilyStep == ASSUME IInv, NEW c \in Calls, VetFamily(c)  PROVE IInv'
<1>1. /\ call[c].at = "read" /\ UNCHANGED <<rowVars, historyVars>>
      /\ registered' \in BOOLEAN /\ resetOpen' \in BOOLEAN
  BY DEF VetFamily, VetWith, userVars, IInv, TypeOK
<1>2. \/ To(c, "replay")
      \/ Return(c)
      \/ To(c, "vetted") /\ Siblings(call[c].token) \cap reused = {}
  BY DEF VetFamily, VetWith
<1>3. CASE To(c, "replay")
  BY <1>1, <1>3, CallProceeds DEF CallSteps, WithToken
<1>4. CASE Return(c)
  BY <1>1, <1>4, CallReturns
<1>5. CASE To(c, "vetted") /\ Siblings(call[c].token) \cap reused = {}
  BY <1>1, <1>5, CallProceeds DEF CallSteps, WithToken
<1> QED BY <1>2, <1>3, <1>4, <1>5

(* One of the refreshes that read a token claims it; the others are        *)
(* replays.                                                                *)
LEMMA ClaimStep == ASSUME IInv, NEW c \in Calls, Claim(c)  PROVE IInv'
<1> USE DEF rowVars, historyVars, userVars
<1>0. /\ call[c].at = "vetted"
      /\ live' = live \ {call[c].token}
      /\ UNCHANGED <<family, reused, expired, userVars, historyVars>>
      /\ To(c, IF call[c].token \in live THEN "claimed" ELSE "replay")
  BY DEF Claim, ClaimIf
<1>1. CASE call[c].token \notin live
  <2>1. live' = live
    BY <1>0, <1>1
  <2> QED BY <1>0, <1>1, <2>1, CallProceeds DEF CallSteps, WithToken, IInv, TypeOK
<1>2. CASE call[c].token \in live
  <2>1. /\ call' \in [Calls -> CallRecords]
        /\ call'[c].at = "claimed"
        /\ \A d \in Calls : call'[d].token = call[d].token /\ call'[d].late = call[d].late
        /\ \A d \in Calls : d # c => call'[d].at = call[d].at
    BY <1>0, <1>2 DEF To, IInv, TypeOK, CallRecords, CallSteps
  <2>2. TypeOK'
    BY <1>0, <2>1 DEF IInv, TypeOK, CallRecords, Created
  <2>3. Rooted' /\ EndedCreated' /\ EndedSessionNeedsOverlap'
    BY <1>0 DEF IInv, Rooted, EndedCreated, EndedSessionNeedsOverlap, Created
  <2>4. CallTokens'
    BY <1>0, <2>1 DEF IInv, CallTokens, Created, WithToken
  <2>5. SessionNeverForks'
    BY <1>0, <1>2, <2>1 DEF IInv, SessionNeverForks
  <2>6. VettedClean'
    BY <1>0, <2>1 DEF IInv, VettedClean, Siblings
  <2>7. ClaimedOvertaken'
    BY <1>0, <1>2, <2>1 DEF IInv, ClaimedOvertaken, EndedSessionNeedsOverlap
  <2> QED BY <2>2, <2>3, <2>4, <2>5, <2>6, <2>7 DEF IInv
<1> QED BY <1>1, <1>2

(* A session begins, or a claimed token is exchanged for one of its        *)
(* family.                                                                 *)
LEMMA IssueTokensStep ==
  ASSUME IInv, NEW c \in Calls, NEW t \in Tokens, IssueTokens(c, t)  PROVE IInv'
<1> USE DEF userVars
<1> DEFINE f == IF call[c].at = "claimed" THEN family[call[c].token] ELSE t
<1>0. /\ call[c].at \in {"verified", "claimed"} /\ t \notin Created
      /\ family' = [family EXCEPT ![t] = f] /\ live' = live \cup {t}
      /\ ended' = IF call[c].late \/ call[c].token \in ended THEN ended \cup {t} ELSE ended
      /\ overlapped' = IF call[c].late \/ call[c].token \in overlapped
                         THEN overlapped \cup {t} ELSE overlapped
      /\ call' = [call EXCEPT ![c] = Idle]
      /\ UNCHANGED <<reused, expired, userVars>>
  BY DEF IssueTokens, Return, Issuing
<1>1. /\ call'[c] = Idle
      /\ \A d \in Calls : d # c => call'[d] = call[d]
      /\ call' \in [Calls -> CallRecords]
  BY <1>0 DEF IInv, TypeOK, CallRecords, Idle, CallSteps
<1>2. /\ f \in Tokens
      /\ call[c].at = "claimed" => /\ call[c].token \in Created
                                   /\ f = family[call[c].token] /\ family[f] # NoToken
      /\ call[c].at # "claimed" => f = t /\ call[c].token = NoToken
  BY <1>0 DEF IInv, TypeOK, CallTokens, Rooted, WithToken, Created
<1>3. /\ family' \in [Tokens -> Tokens \cup {NoToken}]
      /\ family'[t] = f
      /\ \A s \in Tokens : s # t => family'[s] = family[s]
      /\ Created' = Created \cup {t}
      /\ family[t] = NoToken
  BY <1>0, <1>2, SessionAssumption DEF IInv, TypeOK, Created
<1> HIDE DEF f
<1>4. \A s \in Created : family[s] \in Created /\ s # t /\ family'[s] = family[s]
  BY <1>0, <1>3 DEF IInv, Rooted, TypeOK, Created
<1>5. TypeOK'
  BY <1>0, <1>1, <1>3 DEF IInv, TypeOK, CallRecords
<1>6. Rooted'
  BY <1>2, <1>3, <1>4, SessionAssumption DEF IInv, Rooted, Created
<1>7. CallTokens'
  BY <1>1, <1>3 DEF IInv, CallTokens, Idle, WithToken
<1>8. SessionNeverForks'
  <2>1. \A s \in live : family'[s] = family[s] /\ family[s] # f
    BY <1>0, <1>2, <1>4 DEF IInv, SessionNeverForks, TypeOK
  <2>2. \A d \in Calls : call'[d].at = "claimed" =>
           /\ d # c /\ call'[d] = call[d]
           /\ family'[call[d].token] = family[call[d].token]
           /\ family[call[d].token] # f
    BY <1>0, <1>1, <1>2, <1>4 DEF IInv, SessionNeverForks, CallTokens, WithToken, Idle
  <2> QED BY <1>0, <1>3, <2>1, <2>2 DEF IInv, SessionNeverForks
<1>9. VettedClean'
  <2> SUFFICES ASSUME NEW d \in Calls, call'[d].at = "vetted", call'[d].token \in live'
               PROVE  Siblings(call[d].token)' \cap reused = {}
    BY <1>0, <1>1 DEF VettedClean, Siblings, Idle
  <2>1. d # c /\ call[d].at = "vetted" /\ call'[d] = call[d] /\ call[d].token \in Created
    BY <1>1 DEF IInv, CallTokens, WithToken, Idle
  <2>2. call[d].token \in live /\ family'[call[d].token] = family[call[d].token]
    BY <1>0, <1>4, <2>1
  <2>3. Siblings(call[d].token) \cap reused = {}
    BY <2>1, <2>2 DEF IInv, VettedClean
  <2>4. Siblings(call[d].token)' \subseteq Siblings(call[d].token) \cup {t}
    BY <1>3, <2>1, <2>2 DEF Siblings
  <2> QED BY <1>0, <2>3, <2>4 DEF IInv, TypeOK
<1>10. EndedCreated'
  BY <1>0, <1>3 DEF IInv, EndedCreated
<1>11. ClaimedOvertaken'
  BY <1>0, <1>1, <1>4 DEF IInv, ClaimedOvertaken, CallTokens, WithToken, Idle
<1>12. EndedSessionNeedsOverlap'
  <2>1. t \notin ended
    BY <1>0 DEF IInv, EndedCreated
  <2>2. t \in ended' => t \in overlapped'
    BY <1>0, <1>2, <2>1, SessionAssumption DEF IInv, ClaimedOvertaken, TypeOK
  <2> QED BY <1>0, <2>2 DEF IInv, EndedSessionNeedsOverlap
<1> QED BY <1>5, <1>6, <1>7, <1>8, <1>9, <1>10, <1>11, <1>12 DEF IInv

(* A replay revokes the family.                                            *)
LEMMA RevokeStep == ASSUME IInv, NEW c \in Calls, RevokeCompromisedFamily(c)  PROVE IInv'
<1> USE DEF userVars, historyVars
<1>0. /\ call[c].at = "replay" /\ live' = live \ Siblings(call[c].token)
      /\ reused' = reused \cup Siblings(call[c].token)
      /\ call' = [call EXCEPT ![c] = Idle]
      /\ UNCHANGED <<family, expired, userVars, historyVars>>
  BY DEF RevokeCompromisedFamily, Return
<1>1. /\ call'[c] = Idle
      /\ \A d \in Calls : d # c => call'[d] = call[d]
      /\ call' \in [Calls -> CallRecords]
  BY <1>0 DEF IInv, TypeOK, CallRecords, Idle, CallSteps
<1>2. Siblings(call[c].token) \subseteq Created
  BY <1>0 DEF IInv, CallTokens, WithToken, Siblings, Created
<1>3. TypeOK'
  BY <1>0, <1>1, <1>2 DEF IInv, TypeOK, CallRecords, Created
<1>4. Rooted' /\ EndedCreated' /\ EndedSessionNeedsOverlap'
  BY <1>0 DEF IInv, Rooted, EndedCreated, EndedSessionNeedsOverlap, Created
<1>5. CallTokens'
  BY <1>0, <1>1 DEF IInv, CallTokens, Created, WithToken, Idle
<1>6. SessionNeverForks'
  BY <1>0, <1>1 DEF IInv, SessionNeverForks, Idle
<1>7. VettedClean'
  <2> SUFFICES ASSUME NEW d \in Calls, call'[d].at = "vetted", call'[d].token \in live'
               PROVE  Siblings(call'[d].token) \cap reused' = {}
    BY <1>0 DEF VettedClean, Siblings
  <2>1. d # c /\ call'[d] = call[d]
    BY <1>1 DEF Idle
  <2>2. call[d].token \in live /\ call[d].token \notin Siblings(call[c].token)
    BY <1>0, <2>1
  <2>3. Siblings(call[d].token) \cap reused = {}
    BY <2>1, <2>2 DEF IInv, VettedClean
  <2>4. Siblings(call[d].token) \cap Siblings(call[c].token) = {}
    BY <2>2 DEF Siblings, IInv, TypeOK, Created
  <2> QED BY <1>0, <2>1, <2>3, <2>4
<1>8. ClaimedOvertaken'
  BY <1>0, <1>1 DEF IInv, ClaimedOvertaken, Idle
<1> QED BY <1>3, <1>4, <1>5, <1>6, <1>7, <1>8 DEF IInv

(* Ending every session overtakes every call that has the right to issue.  *)
LEMMA EndSessionsStep ==
  ASSUME IInv, NEW calls \in [Calls -> CallRecords], live' = {}, EndSessions(calls),
         resetOpen' \in BOOLEAN,
         \A c \in Calls : calls[c] = call[c] \/ calls[c] = Idle
  PROVE  IInv'
<1>0. /\ ended' = Created /\ overlapped' = {}
      /\ UNCHANGED <<family, reused, expired, registered>>
      /\ call' = [c \in Calls |->
            IF calls[c].at \in Issuing THEN [calls[c] EXCEPT !.late = TRUE] ELSE calls[c]]
  BY DEF EndSessions
<1>1. \A c \in Calls : /\ call'[c] \in CallRecords
                       /\ call'[c].at = calls[c].at /\ call'[c].token = calls[c].token
                       /\ call'[c].at = "claimed" => call'[c].late
  BY <1>0 DEF CallRecords, Issuing
<1>2. \A c \in Calls : /\ call'[c].at \in WithToken =>
                             (call'[c].at = call[c].at /\ call'[c].token = call[c].token)
                       /\ call'[c].at \notin WithToken => call'[c].token = NoToken
  BY <1>1 DEF Idle, WithToken, IInv, CallTokens
<1>3. TypeOK'
  BY <1>0, <1>1 DEF IInv, TypeOK, CallRecords, Created
<1>4. Rooted' /\ EndedCreated' /\ EndedSessionNeedsOverlap'
  BY <1>0 DEF IInv, Rooted, EndedCreated, EndedSessionNeedsOverlap, Created
<1>5. CallTokens'
  BY <1>0, <1>2 DEF IInv, CallTokens, Created
<1>6. SessionNeverForks'
  BY <1>0, <1>2 DEF IInv, SessionNeverForks, WithToken
<1>7. VettedClean' /\ ClaimedOvertaken'
  BY <1>1 DEF VettedClean, ClaimedOvertaken
<1> QED BY <1>3, <1>4, <1>5, <1>6, <1>7 DEF IInv

(* A logout revokes the token it is given.                                 *)
LEMMA LogoutStep == ASSUME IInv, NEW t \in Tokens, Logout(t)  PROVE IInv'
<1> USE DEF userVars
<1>0. /\ t \in Created /\ live' = live \ {t}
      /\ ended' = IF t \in live THEN ended \cup Siblings(t) ELSE ended
      /\ overlapped' = IF t \in live THEN overlapped \ Siblings(t) ELSE overlapped
      /\ UNCHANGED <<family, reused, expired, userVars, call>>
  BY DEF Logout
<1>1. Siblings(t) \subseteq Created
  BY <1>0 DEF Siblings, Created
<1>2. TypeOK'
  BY <1>0, <1>1 DEF IInv, TypeOK, Created
<1>3. Rooted' /\ CallTokens'
  BY <1>0 DEF IInv, Rooted, CallTokens, Created
<1>4. EndedCreated'
  BY <1>0, <1>1 DEF IInv, EndedCreated, Created
<1>5. SessionNeverForks'
  BY <1>0 DEF IInv, SessionNeverForks
<1>6. VettedClean'
  BY <1>0 DEF IInv, VettedClean, Siblings
<1>7. ClaimedOvertaken' /\ EndedSessionNeedsOverlap'
  <2>1. CASE t \notin live
    BY <1>0, <2>1 DEF IInv, ClaimedOvertaken, EndedSessionNeedsOverlap
  <2>2. CASE t \in live
    <3>1. Siblings(t) \cap live' = {}
      BY <1>0, <2>2 DEF IInv, SessionNeverForks, Siblings
    <3>2. \A c \in Calls : call[c].at = "claimed" => call[c].token \notin Siblings(t)
      BY <2>2 DEF IInv, SessionNeverForks, Siblings
    <3> QED BY <1>0, <2>2, <3>1, <3>2 DEF IInv, ClaimedOvertaken, EndedSessionNeedsOverlap
  <2> QED BY <2>1, <2>2
<1> QED BY <1>2, <1>3, <1>4, <1>5, <1>6, <1>7 DEF IInv

(* Steps that touch no call, no live row and no history.                   *)
LEMMA OtherSteps ==
  ASSUME IInv, UNCHANGED <<family, live, reused, call, historyVars>>,
         registered' \in BOOLEAN, resetOpen' \in BOOLEAN, expired' \subseteq Created
  PROVE  IInv'
  BY DEF historyVars, IInv, TypeOK, Rooted, CallTokens, SessionNeverForks, VettedClean,
     EndedCreated, ClaimedOvertaken, EndedSessionNeedsOverlap, Created, Siblings

-----------------------------------------------------------------------------

(* Every step preserves the inductive invariant.                           *)
LEMMA NextIInv == IInv /\ [Next]_vars => IInv'
<1> SUFFICES ASSUME IInv, [Next]_vars PROVE IInv'
  OBVIOUS
<1> USE DEF userVars
<1>0. registered \in BOOLEAN /\ resetOpen \in BOOLEAN /\ expired \subseteq Created
  BY DEF IInv, TypeOK
<1>1. ASSUME NEW c \in Calls, LookUpEmail(c) PROVE IInv'
  BY <1>0, <1>1, CallProceeds DEF LookUpEmail, CallSteps, WithToken
<1>2. ASSUME NEW c \in Calls, CreateUser(c) PROVE IInv'
  <2>1. CASE Return(c)
    BY <1>0, <1>2, <2>1, CallReturns DEF CreateUser
  <2>2. CASE To(c, "verified")
    BY <1>0, <1>2, <2>2, CallProceeds DEF CreateUser, CallSteps, WithToken
  <2> QED BY <1>2, <2>1, <2>2 DEF CreateUser
<1>3. ASSUME NEW c \in Calls, VerifyPassword(c) PROVE IInv'
  BY <1>0, <1>3, CallProceeds DEF VerifyPassword, CallSteps, WithToken
<1>4. ASSUME NEW c \in Calls, IssueFails(c) PROVE IInv'
  <2>1. CASE Return(c)
    BY <1>0, <1>4, <2>1, CallReturns DEF IssueFails
  <2>2. CASE call[c].at = "claimed" /\ To(c, "replay")
    BY <1>0, <1>4, <2>2, CallProceeds DEF IssueFails, CallSteps, WithToken
  <2> QED BY <1>4, <2>1, <2>2 DEF IssueFails
<1>5. ASSUME NEW c \in Calls, CallLost(c) PROVE IInv'
  BY <1>0, <1>5, CallReturns DEF CallLost
<1>6. ASSUME NEW c \in Calls, ReadResetLink(c) PROVE IInv'
  BY <1>0, <1>6, CallProceeds DEF ReadResetLink, CallSteps, WithToken
<1>7. ASSUME NEW c \in Calls, ResetPassword(c) PROVE IInv'
  <2> DEFINE calls == [call EXCEPT ![c] = Idle]
  <2>1. /\ calls \in [Calls -> CallRecords]
        /\ \A d \in Calls : calls[d] = call[d] \/ calls[d] = Idle
    BY DEF IInv, TypeOK, CallRecords, Idle, CallSteps
  <2>2. live' = {} /\ EndSessions(calls) /\ resetOpen' \in BOOLEAN
    BY <1>7 DEF ResetPassword, ResetKeeping
  <2> HIDE DEF calls
  <2> QED BY <2>1, <2>2, EndSessionsStep
<1>8. CASE LogoutAll \/ ResetOwnerPassword
  <2>1. live' = {} /\ EndSessions(call) /\ resetOpen' \in BOOLEAN
    BY <1>0, <1>8 DEF LogoutAll, ResetOwnerPassword
  <2>2. call \in [Calls -> CallRecords]
    BY DEF IInv, TypeOK, CallRecords
  <2> QED BY <2>1, <2>2, EndSessionsStep
<1>9. CASE ForgotPassword \/ ResetLinkExpires
  BY <1>0, <1>9, OtherSteps DEF ForgotPassword, ResetLinkExpires, rowVars
<1>10. ASSUME NEW t \in Tokens, Expire(t) PROVE IInv'
  BY <1>0, <1>10, OtherSteps DEF Expire, Created
<1>11. CASE UNCHANGED vars
  BY <1>0, <1>11, OtherSteps DEF vars, rowVars
<1>12. ASSUME NEW c \in Calls, CallStep(c) PROVE IInv'
  BY <1>12, <1>1, <1>2, <1>3, <1>4, <1>5, <1>6, <1>7, VetFamilyStep, ClaimStep, RevokeStep,
     ReadTokenStep, IssueTokensStep DEF CallStep
<1> QED BY <1>8, <1>9, <1>10, <1>11, <1>12, LogoutStep DEF Next

(* IInv is an invariant: the basis of the theorems below.                  *)
LEMMA SpecIInv == Spec => []IInv
  BY InitIInv, NextIInv, PTL DEF Spec

(* Every row, call and history set of the AuthService model stays in its   *)
(* type in every reachable state.                                          *)
THEOREM SpecTypeOK == Spec => []TypeOK
<1>1. IInv => TypeOK
  BY DEF IInv
<1> QED BY <1>1, SpecIInv, PTL

(* However many refreshes, retries and revocations interleave, a session   *)
(* has at most one unrevoked token or call that may issue one.             *)
THEOREM SpecSessionNeverForks == Spec => []SessionNeverForks
<1>1. IInv => SessionNeverForks
  BY DEF IInv
<1> QED BY <1>1, SpecIInv, PTL

(* A refresh never exchanges a token of a family with recorded reuse.      *)
THEOREM SpecCompromised == Spec => CompromisedFamilyIsNeverExchanged
<1>1. IInv /\ [Next]_vars =>
        [\A c \in Calls : (call[c].at = "vetted" /\ call'[c].at = "claimed") =>
            Siblings(call[c].token) \cap reused = {}]_vars
  <2> SUFFICES ASSUME IInv, Next, NEW c \in Calls, call[c].at = "vetted",
                      call'[c].at = "claimed"
               PROVE  Siblings(call[c].token) \cap reused = {}
    OBVIOUS
  <2>1. /\ call[c] \in CallRecords
        /\ call \in [Calls -> CallRecords]
    BY DEF IInv, TypeOK, CallRecords
  <2>2. Claim(c)
    BY <2>1 DEF Next, CallStep, LookUpEmail, CreateUser, VerifyPassword, VetFamily, VetWith,
       Claim, ClaimIf, IssueFails, RevokeCompromisedFamily, CallLost, ReadResetLink,
       ResetPassword, ResetKeeping, ReadToken, IssueTokens, Expire, Logout, LogoutAll,
       ForgotPassword, ResetLinkExpires, ResetOwnerPassword, EndSessions, To, Return, Idle,
       CallRecords, Issuing
  <2>3. call[c].token \in live
    BY <2>1, <2>2 DEF Claim, ClaimIf, To, CallRecords
  <2> QED BY <2>3 DEF IInv, VettedClean
<1> QED BY <1>1, SpecIInv, PTL DEF Spec, CompromisedFamilyIsNeverExchanged

(* A token of an ended session works only if a call that had the right to  *)
(* issue when the session was ended issued it or its ancestor.             *)
THEOREM SpecEndedSession == Spec => []EndedSessionNeedsOverlap
<1>1. IInv => EndedSessionNeedsOverlap
  BY DEF IInv
<1> QED BY <1>1, SpecIInv, PTL

=============================================================================
