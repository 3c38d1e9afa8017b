---------------------------- MODULE CouponsProofs ----------------------------
(***************************************************************************)
(* Theorems about Coupons, for any number of users, coupons, requests and  *)
(* connections: redemptions use points as Accounts says, and a user has    *)
(* one reward in the ledger for a redeemed coupon and none for another.    *)
(***************************************************************************)
EXTENDS Coupons, AccountsProofs, FiniteSetTheorems

(* What a session has drafted is the reward, for its caller, of the coupon *)
(* that it redeems.                                                        *)
DraftsAreRewards ==
  \A r \in Requests : draft[r] # NoEntry =>
    Busy(r) /\ draft[r].user = Caller[r] /\ draft[r].about = redeeming[r]

(* The heart of OneRewardPerRedemption, without cardinalities. *)
RewardsPosted ==
  \A c \in CouponIds, u \in Users :
    /\ u \in redeemed[c] <=> PostedAbout(u, c) # {}
    /\ \A i, j \in PostedAbout(u, c) : i = j

(* What is redeemed, or being redeemed, was created. *)
CreatedFirst ==
  \A c \in CouponIds : coupon[c] = "ABSENT" =>
    redeemed[c] = {} /\ \A r \in Requests : redeeming[r] # c

CouponsInv == AccountsTypeOK /\ CouponsTypeOK /\ CreatedFirst
RewardInv == DraftsAreRewards /\ RewardsPosted

-----------------------------------------------------------------------------
(* Coupons implements Accounts *)

(* A step of a redemption is a step of its session, or none. *)
LEMMA CouponStepIsAccountsStep ==
  ASSUME CouponsTypeOK, [CouponsNext]_vars
  PROVE  [AccountsNext]_accountVars
<1>1. ASSUME NEW c \in CouponIds, CreateCoupon(c) \/ ExpireCoupon(c)
      PROVE  UNCHANGED accountVars
  BY <1>1 DEF CreateCoupon, ExpireCoupon
<1>2. ASSUME NEW r \in Requests,
             OpenSession(r) \/ EndSession(r) \/ CommitPoints(r)
      PROVE  AccountsNext
  BY <1>2 DEF AccountsNext, AccountsStep
<1>3. ASSUME NEW r \in Requests, GrantReward(r)
      PROVE  AccountsNext
  <2> DEFINE c == redeeming[r]
  <2>1. c \in CouponIds /\ Caller[r] \in Users
    BY <1>3, CallerAssumption DEF GrantReward, Busy, CouponsTypeOK
  <2>2. Reward[c] \in Changes /\ c \in Subjects
    BY <2>1, CouponAssumption
  <2>3. ApplyPoints(r, Caller[r], Reward[c], c)
    BY <1>3 DEF GrantReward
  <2> QED
    BY <2>1, <2>2, <2>3 DEF AccountsNext, AccountsStep
<1>4. CASE UNCHANGED vars
  BY <1>4 DEF vars
<1> QED
  BY <1>1, <1>2, <1>3, <1>4
  DEF CouponsNext, CouponStep, StartRedeem, CommitRedemption, Abandon

(* Types, and that only what was created is redeemed. *)
LEMMA CouponsStepTypes ==
  ASSUME CouponsInv, [CouponsNext]_vars
  PROVE  CouponsInv'
<1> USE CouponAssumption, CallerAssumption DEF CouponsInv, CouponsTypeOK, CreatedFirst
<1>1. AccountsTypeOK'
  BY CouponStepIsAccountsStep, StepTypes
<1>2. ASSUME NEW c \in CouponIds, CreateCoupon(c) \/ ExpireCoupon(c)
      PROVE  CouponsInv'
  BY <1>1, <1>2 DEF CreateCoupon, ExpireCoupon
<1>3. ASSUME NEW r \in Requests, NEW c \in CouponIds, StartRedeem(r, c)
      PROVE  CouponsInv'
  BY <1>1, <1>3 DEF StartRedeem, Available
<1>4. ASSUME NEW r \in Requests, GrantReward(r)
      PROVE  CouponsInv'
  BY <1>1, <1>4 DEF GrantReward, couponVars
<1>5. ASSUME NEW r \in Requests, CommitRedemption(r)
      PROVE  CouponsInv'
  <2> DEFINE c == redeeming[r]
  <2>1. c \in CouponIds /\ coupon[c] # "ABSENT" /\ Caller[r] \in Users
    BY <1>5 DEF CommitRedemption, Busy
  <2>2. /\ redeemed' = [redeemed EXCEPT ![c] = redeemed[c] \cup {Caller[r]}]
        /\ redeeming' = [redeeming EXCEPT ![r] = NoCoupon]
        /\ UNCHANGED coupon
    BY <1>5 DEF CommitRedemption
  <2>3. CouponsTypeOK'
    BY <2>1, <2>2
  <2>4. CreatedFirst'
    BY <2>1, <2>2
  <2> QED
    BY <1>1, <2>3, <2>4
<1>6. ASSUME NEW r \in Requests, Abandon(r)
      PROVE  CouponsInv'
  BY <1>1, <1>6 DEF Abandon
<1>7. CASE UNCHANGED vars
  BY <1>1, <1>7 DEF vars, couponVars
<1> QED
  BY <1>2, <1>3, <1>4, <1>5, <1>6, <1>7 DEF CouponsNext, CouponStep

(* Types hold in every behaviour. *)
LEMMA CouponsInvariance == CouponsSpec => []CouponsInv
<1>1. CouponsInit => CouponsInv
  BY InitTypes, CouponAssumption
  DEF CouponsInit, CouponsInv, CouponsTypeOK, CreatedFirst
<1>2. CouponsInv /\ [CouponsNext]_vars => CouponsInv'
  BY CouponsStepTypes
<1> QED
  BY <1>1, <1>2, PTL DEF CouponsSpec

(* Tables and requests keep their types, and a coupon that does not exist  *)
(* is redeemed by nobody (commercial.py:138-165).                          *)
THEOREM CouponsTypeCorrect == CouponsSpec => []CouponsTypeOK
<1>1. CouponsInv => CouponsTypeOK
  BY DEF CouponsInv
<1> QED
  BY <1>1, CouponsInvariance, PTL

(* Redemptions use points only through apply_points, as Accounts says:     *)
(* what is proved of it holds of them.                                     *)
THEOREM CouponsImplementAccounts == CouponsSpec => AccountsSpec
<1>1. CouponsInit => AccountsInit
  BY DEF CouponsInit
<1>2. CouponsTypeOK /\ [CouponsNext]_vars => [AccountsNext]_accountVars
  BY CouponStepIsAccountsStep
<1> QED
  BY <1>1, <1>2, CouponsTypeCorrect, PTL DEF CouponsSpec, AccountsSpec

-----------------------------------------------------------------------------
(* One reward for each redemption *)

(* Where no ledger and no redemption changes, the rewards stay right. *)
LEMMA RewardsStand ==
  ASSUME RewardsPosted, UNCHANGED <<ledger, redeemed>>
  PROVE  RewardsPosted'
<1>1. \A c \in CouponIds, u \in Users : PostedAbout(u, c)' = PostedAbout(u, c)
  BY DEF PostedAbout
<1> QED
  BY <1>1 DEF RewardsPosted

(* The commit of a redemption posts the first reward of its coupon: the    *)
(* unique constraint has seen to it that there was none.                   *)
LEMMA RedemptionKeepsRewards ==
  ASSUME CouponsInv, RewardInv, NEW r \in Requests, CommitRedemption(r)
  PROVE  RewardInv'
<1> USE DEF CouponsInv, RewardInv
<1> DEFINE d == redeeming[r]
           v == Caller[r]
<1>1. /\ CommitPoints(r) /\ draft[r] # NoEntry
      /\ v \notin redeemed[d]
      /\ redeemed' = [redeemed EXCEPT ![d] = redeemed[d] \cup {v}]
      /\ redeeming' = [redeeming EXCEPT ![r] = NoCoupon]
  BY DEF CommitRedemption, CommitPoints, Unique
<1>2. d \in CouponIds /\ v \in Users /\ draft[r].user = v /\ draft[r].about = d
  BY <1>1, CallerAssumption DEF DraftsAreRewards, CouponsTypeOK, Busy
<1>3. DraftsAreRewards'
  BY <1>1 DEF DraftsAreRewards, Busy, CommitPoints, CloseSession, AccountsTypeOK,
              CouponsTypeOK
<1>4. ASSUME NEW c \in CouponIds, NEW u \in Users
      PROVE  /\ (u \in redeemed[c])' <=> PostedAbout(u, c)' # {}
             /\ \A i, j \in PostedAbout(u, c)' : i = j
  <2>1. /\ u \in redeemed[c] <=> PostedAbout(u, c) # {}
        /\ \A i, j \in PostedAbout(u, c) : i = j
    BY DEF RewardsPosted
  <2>2. (u \in redeemed[c])' <=> u \in redeemed[c] \/ (u = v /\ c = d)
    BY <1>1, <1>2 DEF CouponsTypeOK
  <2>3. CASE u = v /\ c = d
    <3>1. PostedAbout(u, c) = {}
      BY <1>1, <2>1, <2>3
    <3>2. PostedAbout(u, c)' = PostedAbout(u, c) \cup {Len(ledger[u]) + 1}
      BY <1>1, <1>2, <2>3, CommitPosted
    <3> QED
      BY <2>2, <2>3, <3>1, <3>2
  <2>4. CASE ~(u = v /\ c = d)
    <3>1. PostedAbout(u, c)' = PostedAbout(u, c)
      <4>1. CASE u = v
        <5>1. draft[r].about # c
          BY <1>2, <2>4, <4>1
        <5>2. PostedAbout(u, c)' = PostedAbout(u, c) \cup {}
          BY <1>1, <1>2, <4>1, <5>1, CommitPosted
        <5> QED
          BY <5>2
      <4>2. CASE u # v
        BY <1>1, <1>2, <4>2, CommitPosted
      <4> QED
        BY <4>1, <4>2
    <3> QED
      BY <2>1, <2>2, <2>4, <3>1
  <2> QED
    BY <2>3, <2>4
<1>5. RewardsPosted'
  BY <1>4 DEF RewardsPosted
<1> QED
  BY <1>3, <1>5

(* Every step keeps the invariant. *)
LEMMA StepKeepsRewards ==
  ASSUME CouponsInv, RewardInv, [CouponsNext]_vars
  PROVE  RewardInv'
<1> USE DEF CouponsInv, RewardInv, CouponsTypeOK
<1>1. ASSUME NEW c \in CouponIds, CreateCoupon(c) \/ ExpireCoupon(c)
      PROVE  RewardInv'
  BY <1>1, RewardsStand
  DEF CreateCoupon, ExpireCoupon, accountVars, DraftsAreRewards, Busy
<1>2. ASSUME NEW r \in Requests, NEW c \in CouponIds, StartRedeem(r, c)
      PROVE  RewardInv'
  <2>1. ~Busy(r) /\ UNCHANGED <<ledger, draft, redeemed>>
        /\ \A q \in Requests \ {r} : redeeming'[q] = redeeming[q]
    BY <1>2 DEF StartRedeem, OpenSession
  <2>2. DraftsAreRewards'
    BY <2>1 DEF DraftsAreRewards, Busy
  <2> QED
    BY <2>1, <2>2, RewardsStand
<1>3. ASSUME NEW r \in Requests, GrantReward(r)
      PROVE  RewardInv'
  <2>1. /\ Busy(r) /\ UNCHANGED <<ledger, redeemed, redeeming>>
        /\ draft'[r].user = Caller[r] /\ draft'[r].about = redeeming[r]
        /\ \A q \in Requests \ {r} : draft'[q] = draft[q]
    BY <1>3 DEF GrantReward, ApplyPoints, couponVars, AccountsTypeOK
  <2>2. DraftsAreRewards'
    BY <2>1 DEF DraftsAreRewards, Busy
  <2> QED
    BY <2>1, <2>2, RewardsStand
<1>4. ASSUME NEW r \in Requests, Abandon(r)
      PROVE  RewardInv'
  <2>1. /\ UNCHANGED <<ledger, redeemed>> /\ draft'[r] = NoEntry
        /\ \A q \in Requests \ {r} : draft'[q] = draft[q] /\ redeeming'[q] = redeeming[q]
    BY <1>4 DEF Abandon, EndSession, CloseSession, AccountsTypeOK
  <2>2. DraftsAreRewards'
    BY <2>1 DEF DraftsAreRewards, Busy
  <2> QED
    BY <2>1, <2>2, RewardsStand
<1>5. CASE UNCHANGED vars
  BY <1>5, RewardsStand DEF vars, accountVars, couponVars, DraftsAreRewards, Busy
<1> QED
  BY <1>1, <1>2, <1>3, <1>4, <1>5, RedemptionKeepsRewards DEF CouponsNext, CouponStep

(* One line at most is a cardinality of 0 or 1. *)
LEMMA RewardsCounted == RewardsPosted => OneRewardPerRedemption
<1> SUFFICES ASSUME RewardsPosted, NEW c \in CouponIds, NEW u \in Users
             PROVE  Cardinality(PostedAbout(u, c)) = IF u \in redeemed[c] THEN 1 ELSE 0
  BY DEF OneRewardPerRedemption, PostedAbout
<1>1. CASE u \in redeemed[c]
  <2>1. PICK i : i \in PostedAbout(u, c)
    BY <1>1 DEF RewardsPosted
  <2>2. \A j : j \in PostedAbout(u, c) <=> j = i
    BY <2>1 DEF RewardsPosted
  <2>3. PostedAbout(u, c) = {i}
    BY <2>2
  <2> QED
    BY <1>1, <2>3, FS_Singleton
<1>2. CASE u \notin redeemed[c]
  <2>1. PostedAbout(u, c) = {}
    BY <1>2 DEF RewardsPosted
  <2> QED
    BY <1>2, <2>1, FS_EmptySet
<1> QED
  BY <1>1, <1>2

(* A user's ledger has one reward for a redeemed coupon and none for any   *)
(* other, although the check of commercial.py:147-153 locks nothing: the   *)
(* unique constraint, and points that commit with the redemption.          *)
THEOREM CouponsRewardOnce == CouponsSpec => []OneRewardPerRedemption
<1>1. CouponsInit => RewardInv
  BY CallerAssumption
  DEF CouponsInit, AccountsInit, RewardInv, DraftsAreRewards, RewardsPosted, PostedAbout
<1>2. CouponsInv /\ RewardInv /\ [CouponsNext]_vars => RewardInv'
  BY StepKeepsRewards
<1>3. RewardInv => OneRewardPerRedemption
  BY RewardsCounted DEF RewardInv
<1> QED
  BY <1>1, <1>2, <1>3, CouponsInvariance, PTL DEF CouponsSpec
-----------------------------------------------------------------------------
(* Over the limit, but not by much *)

Redeeming(c) == {r \in Requests : redeeming[r] = c}

(* Redemptions, done or in progress, can be counted. *)
LEMMA RedemptionsFinite ==
  ASSUME CouponsTypeOK, NEW c \in CouponIds
  PROVE  /\ IsFiniteSet(Redeeming(c)) /\ Cardinality(Redeeming(c)) \in Nat
         /\ IsFiniteSet(redeemed[c]) /\ Cardinality(redeemed[c]) \in Nat
         /\ IsFiniteSet({r \in Requests : Busy(r)})
         /\ Cardinality({r \in Requests : Busy(r)}) \in Nat
<1>1. Redeeming(c) \subseteq Requests /\ redeemed[c] \subseteq Users
      /\ {r \in Requests : Busy(r)} \subseteq Requests
  BY DEF Redeeming, CouponsTypeOK
<1> QED
  BY <1>1, CouponAssumption, FS_Subset, FS_CardinalityType

(* Neither count grows: nothing to show. *)
LEMMA NoneAdded ==
  ASSUME CouponsTypeOK, CouponsTypeOK', OverrunBounded,
         \A c \in CouponIds : Redeeming(c)' \subseteq Redeeming(c), UNCHANGED redeemed
  PROVE  OverrunBounded'
<1> SUFFICES ASSUME NEW c \in CouponIds, Limit[c] # NoLimit
             PROVE  Cardinality(redeemed'[c]) + Cardinality(Redeeming(c)')
                      <= Limit[c] + PoolSize - 1
  BY DEF OverrunBounded, Redeeming
<1>1. Cardinality(redeemed[c]) + Cardinality(Redeeming(c)) <= Limit[c] + PoolSize - 1
  BY DEF OverrunBounded, Redeeming
<1>2. /\ Cardinality(Redeeming(c)') <= Cardinality(Redeeming(c))
      /\ Cardinality(Redeeming(c)') \in Nat
  BY RedemptionsFinite, FS_Subset, FS_CardinalityType
<1>3. Cardinality(redeemed[c]) \in Nat /\ Cardinality(Redeeming(c)) \in Nat
  BY RedemptionsFinite
<1>4. Limit[c] \in Nat /\ PoolSize \in Nat
  BY CouponAssumption
<1> QED
  BY <1>1, <1>2, <1>3, <1>4

(* One more redemption begins, below the limit, on one more connection. *)
LEMMA StartKeepsBound ==
  ASSUME CouponsTypeOK, OverrunBounded,
         NEW r \in Requests, NEW d \in CouponIds, StartRedeem(r, d)
  PROVE  OverrunBounded'
<1> SUFFICES ASSUME NEW c \in CouponIds, Limit[c] # NoLimit
             PROVE  Cardinality(redeemed'[c]) + Cardinality(Redeeming(c)')
                      <= Limit[c] + PoolSize - 1
  BY DEF OverrunBounded, Redeeming
<1>1. /\ redeeming' = [redeeming EXCEPT ![r] = d] /\ redeemed' = redeemed /\ ~Busy(r)
      /\ Cardinality({q \in Requests : Busy(q)}) < PoolSize
      /\ Limit[d] # NoLimit => Cardinality(redeemed[d]) < Limit[d]
  BY DEF StartRedeem, ConnectionFree, WithinLimit
<1>2. Limit[c] \in Nat /\ PoolSize \in Nat
  BY CouponAssumption
<1>3. CASE c # d
  <2>1. Redeeming(c)' = Redeeming(c)
    BY <1>1, <1>3, CouponAssumption DEF Redeeming, CouponsTypeOK, Busy
  <2> QED
    BY <1>1, <2>1 DEF OverrunBounded, Redeeming
<1>4. CASE c = d
  <2>1. Redeeming(c)' = Redeeming(c) \cup {r} /\ r \notin Redeeming(c)
    BY <1>1, <1>4, CouponAssumption DEF Redeeming, CouponsTypeOK, Busy
  <2>2. Cardinality(Redeeming(c)') = Cardinality(Redeeming(c)) + 1
    BY <2>1, RedemptionsFinite, FS_AddElement
  <2>3. Redeeming(c) \subseteq {q \in Requests : Busy(q)}
    BY CouponAssumption DEF Redeeming, Busy
  <2>4. Cardinality(Redeeming(c)) <= Cardinality({q \in Requests : Busy(q)})
    BY <2>3, RedemptionsFinite, FS_Subset
  <2>5. /\ Cardinality(redeemed[c]) \in Nat /\ Cardinality(Redeeming(c)) \in Nat
        /\ Cardinality({q \in Requests : Busy(q)}) \in Nat
    BY RedemptionsFinite
  <2>6. Cardinality(redeemed'[c]) < Limit[c] /\ Cardinality(redeemed'[c]) \in Nat
    BY <1>1, <1>4, <2>5
  <2>7. Cardinality(Redeeming(c)') <= PoolSize /\ Cardinality(Redeeming(c)') \in Nat
    <3> HIDE DEF Redeeming
    <3> QED
      BY <1>1, <1>2, <2>2, <2>4, <2>5
  <2> QED
    BY <1>2, <2>6, <2>7
<1> QED
  BY <1>3, <1>4

(* A redemption in progress becomes one that is done. *)
LEMMA CommitKeepsBound ==
  ASSUME CouponsTypeOK, OverrunBounded, NEW r \in Requests, CommitRedemption(r)
  PROVE  OverrunBounded'
<1> SUFFICES ASSUME NEW c \in CouponIds, Limit[c] # NoLimit
             PROVE  Cardinality(redeemed'[c]) + Cardinality(Redeeming(c)')
                      <= Limit[c] + PoolSize - 1
  BY DEF OverrunBounded, Redeeming
<1>1. PICK d : d = redeeming[r]
  OBVIOUS
<1>2. /\ d \in CouponIds
      /\ redeemed' = [redeemed EXCEPT ![d] = redeemed[d] \cup {Caller[r]}]
      /\ redeeming' = [redeeming EXCEPT ![r] = NoCoupon]
  BY <1>1 DEF CommitRedemption, Busy, CouponsTypeOK
<1>3. CASE c # d
  <2>1. Redeeming(c)' = Redeeming(c) /\ redeemed'[c] = redeemed[c]
    BY <1>1, <1>2, <1>3, CouponAssumption DEF Redeeming, CouponsTypeOK
  <2> QED
    BY <2>1 DEF OverrunBounded, Redeeming
<1>4. CASE c = d
  <2>1. Redeeming(c)' = Redeeming(c) \ {r} /\ r \in Redeeming(c)
        /\ redeemed'[c] = redeemed[c] \cup {Caller[r]}
    BY <1>1, <1>2, <1>4, CouponAssumption DEF Redeeming, CouponsTypeOK
  <2>2. Cardinality(Redeeming(c)') = Cardinality(Redeeming(c)) - 1
    BY <2>1, RedemptionsFinite, FS_RemoveElement
  <2>3. Cardinality(redeemed'[c]) \in {Cardinality(redeemed[c]), Cardinality(redeemed[c]) + 1}
    BY <2>1, RedemptionsFinite, FS_AddElement
  <2>4. Cardinality(redeemed[c]) + Cardinality(Redeeming(c)) <= Limit[c] + PoolSize - 1
    BY DEF OverrunBounded, Redeeming
  <2>5. Limit[c] \in Nat /\ PoolSize \in Nat
    BY CouponAssumption
  <2>6. Cardinality(redeemed[c]) \in Nat /\ Cardinality(Redeeming(c)) \in Nat
    BY RedemptionsFinite
  <2> QED
    BY <2>2, <2>3, <2>4, <2>5, <2>6
<1> QED
  BY <1>3, <1>4

(* A limit is exceeded by less than the number of connections, for any     *)
(* limit and any number of requests at a time (commercial.py:155-165).     *)
THEOREM CouponsOverrun == CouponsSpec => []OverrunBounded
<1>1. CouponsInit => OverrunBounded
  <2> SUFFICES ASSUME CouponsInit, NEW c \in CouponIds, Limit[c] # NoLimit
               PROVE  Cardinality(redeemed[c]) + Cardinality(Redeeming(c))
                        <= Limit[c] + PoolSize - 1
    BY DEF OverrunBounded, Redeeming
  <2>1. redeemed[c] = {} /\ Redeeming(c) = {}
    BY CouponAssumption DEF CouponsInit, Redeeming
  <2>2. Limit[c] \in Nat /\ PoolSize \in Nat \ {0}
    BY CouponAssumption
  <2> QED
    BY <2>1, <2>2, FS_EmptySet
<1>2. ASSUME CouponsTypeOK, CouponsTypeOK', OverrunBounded, [CouponsNext]_vars
      PROVE  OverrunBounded'
  <2>1. ASSUME NEW c \in CouponIds, CreateCoupon(c) \/ ExpireCoupon(c)
        PROVE  OverrunBounded'
    BY <1>2, <2>1, NoneAdded DEF CreateCoupon, ExpireCoupon, Redeeming
  <2>2. ASSUME NEW r \in Requests, GrantReward(r)
        PROVE  OverrunBounded'
    BY <1>2, <2>2, NoneAdded DEF GrantReward, couponVars, Redeeming
  <2>3. ASSUME NEW r \in Requests, Abandon(r)
        PROVE  OverrunBounded'
    <3>1. redeeming' = [redeeming EXCEPT ![r] = NoCoupon] /\ UNCHANGED redeemed
      BY <2>3 DEF Abandon
    <3>2. \A c \in CouponIds : Redeeming(c)' \subseteq Redeeming(c)
      BY <1>2, <3>1, CouponAssumption DEF Redeeming, CouponsTypeOK
    <3> QED
      BY <1>2, <3>1, <3>2, NoneAdded
  <2>4. CASE UNCHANGED vars
    BY <1>2, <2>4, NoneAdded DEF vars, couponVars, Redeeming
  <2> QED
    BY <1>2, <2>1, <2>2, <2>3, <2>4, StartKeepsBound, CommitKeepsBound
    DEF CouponsNext, CouponStep
<1> QED
  BY <1>1, <1>2, CouponsTypeCorrect, PTL DEF CouponsSpec
=============================================================================
