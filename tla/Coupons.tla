------------------------------ MODULE Coupons -------------------------------
(***************************************************************************)
(* Coupons: an administrator creates a coupon with an optional limit; a    *)
(* user redeems it once (redeem_coupon).  All checks of a redemption read  *)
(* the transaction's snapshot and lock nothing.  Only apply_points locks,  *)
(* and it locks the row of the redeeming user, not the coupon.  What keeps *)
(* a user from redeeming twice is the unique constraint (coupon, user),    *)
(* checked when the rows are inserted at commit.                           *)
(***************************************************************************)
EXTENDS Accounts, FiniteSets

CONSTANTS
  CouponIds,      \* coupons that are ever created
  Reward,         \* Reward[c]: coupons.value
  Limit,          \* Limit[c]: coupons.max_redemptions, NoLimit for NULL
  NoLimit,
  PoolSize,       \* connections of the SQLAlchemy pool: sessions at one time
  NoCoupon        \* a request that redeems nothing

ASSUME CouponAssumption ==
  /\ IsFiniteSet(Users) /\ IsFiniteSet(Requests)
  /\ CouponIds \subseteq Subjects
  /\ Reward \in [CouponIds -> Changes]
  /\ \A c \in CouponIds : Reward[c] > 0
  /\ NoLimit \notin Nat
  /\ Limit \in [CouponIds -> (Nat \ {0}) \cup {NoLimit}]
  /\ PoolSize \in Nat \ {0}
  /\ NoCoupon \notin CouponIds

VARIABLES
  coupon,         \* coupon[c]: ABSENT, OFFERED or EXPIRED (by expires_at)
  redeemed,       \* redeemed[c]: users with a coupon_redemptions row for c
  redeeming       \* redeeming[r]: the coupon r has found available

couponVars == <<coupon, redeemed, redeeming>>
vars == <<accountVars, couponVars>>

CouponsInit ==
  /\ AccountsInit
  /\ coupon = [c \in CouponIds |-> "ABSENT"]
  /\ redeemed = [c \in CouponIds |-> {}]
  /\ redeeming = [r \in Requests |-> NoCoupon]

-----------------------------------------------------------------------------

Busy(r) == redeeming[r] # NoCoupon

(* The engine's pool hands out a bounded number of connections. *)
ConnectionFree == Cardinality({r \in Requests : Busy(r)}) < PoolSize

(* create_coupon: a code that exists is refused. *)
CreateCoupon(c) ==
  /\ coupon[c] = "ABSENT"
  /\ coupon' = [coupon EXCEPT ![c] = "OFFERED"]
  /\ UNCHANGED <<accountVars, redeemed, redeeming>>

(* coupons.expires_at passes. *)
ExpireCoupon(c) ==
  /\ coupon[c] = "OFFERED"
  /\ coupon' = [coupon EXCEPT ![c] = "EXPIRED"]
  /\ UNCHANGED <<accountVars, redeemed, redeeming>>

(* The coupon with that code is active and has not expired. *)
Available(c) == coupon[c] = "OFFERED"

WithinLimitOffByOne(c) == Limit[c] # NoLimit => Cardinality(redeemed[c]) <= Limit[c]
WithinLimit(c) == Limit[c] # NoLimit => Cardinality(redeemed[c]) < Limit[c]

(* Authentication and every check of redeem_coupon.  They are plain reads  *)
(* of one REPEATABLE READ snapshot: taken at one moment, locking nothing.  *)
StartRedeem(r, c) ==
  /\ ~Busy(r) /\ ConnectionFree
  /\ OpenSession(r)
  /\ Available(c)
  /\ Caller[r] \notin redeemed[c]
  /\ WithinLimit(c)
  /\ redeeming' = [redeeming EXCEPT ![r] = c]
  /\ UNCHANGED <<coupon, redeemed>>

(* apply_points for the caller; the coupon row is not looked at again.     *)
GrantReward(r) ==
  /\ Busy(r)
  /\ ApplyPoints(r, Caller[r], Reward[redeeming[r]], redeeming[r])
  /\ UNCHANGED couponVars

UniqueIgnored(c, u) == c \in CouponIds /\ u \in Users
(* UniqueConstraint("coupon_id", "user_id"). *)
Unique(c, u) == u \notin redeemed[c]

(* db.commit(): redemption, balance and ledger line in one transaction.    *)
CommitRedemption(r) ==
  LET c == redeeming[r]
  IN  /\ Busy(r)
      /\ CommitPoints(r)
      /\ Unique(c, Caller[r])
      /\ redeemed' = [redeemed EXCEPT ![c] = redeemed[c] \cup {Caller[r]}]
      /\ redeeming' = [redeeming EXCEPT ![r] = NoCoupon]
      /\ UNCHANGED coupon

Abandon(r) ==
  /\ Busy(r)
  /\ EndSession(r)
  /\ redeeming' = [redeeming EXCEPT ![r] = NoCoupon]
  /\ UNCHANGED <<coupon, redeemed>>

CouponStep(r) ==
  \/ \E c \in CouponIds : StartRedeem(r, c)
  \/ GrantReward(r)
  \/ CommitRedemption(r)
  \/ Abandon(r)

CouponsNext ==
  \/ \E c \in CouponIds : CreateCoupon(c) \/ ExpireCoupon(c)
  \/ \E r \in Requests : CouponStep(r)

CouponsSpec == CouponsInit /\ [][CouponsNext]_vars

-----------------------------------------------------------------------------
(* Properties *)

(* Types; a coupon that was never created is redeemed by nobody.           *)
CouponsTypeOK ==
  /\ coupon \in [CouponIds -> {"ABSENT", "OFFERED", "EXPIRED"}]
  /\ redeemed \in [CouponIds -> SUBSET Users]
  /\ redeeming \in [Requests -> CouponIds \cup {NoCoupon}]
  /\ \A c \in CouponIds : coupon[c] = "ABSENT" => redeemed[c] = {}

(* A user has one reward in the ledger for a redeemed coupon and none for  *)
(* any other, also when the same user redeems in several requests at once, *)
(* all of which passed the check of commercial.py:147-153.                 *)
OneRewardPerRedemption ==
  \A c \in CouponIds, u \in Users :
    Cardinality({i \in 1..Len(ledger[u]) : ledger[u][i].about = c})
      = IF u \in redeemed[c] THEN 1 ELSE 0

(* The limit is checked before it is locked in, so it can be exceeded; but *)
(* by less than the sessions the pool allows, because a redemption in      *)
(* progress and one committed together never exceed this sum.              *)
OverrunBounded ==
  \A c \in CouponIds : Limit[c] # NoLimit =>
    Cardinality(redeemed[c]) + Cardinality({r \in Requests : redeeming[r] = c})
      <= Limit[c] + PoolSize - 1
=============================================================================
