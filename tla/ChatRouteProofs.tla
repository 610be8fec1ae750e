--------------------------- MODULE ChatRouteProofs --------------------------
(***************************************************************************)
(* What secrets open, and which log rows stay unfinished, for any keys,    *)
(* requests, limits, failing queries and restarts.  The argument about     *)
(* secrets is that each is generated once: a key that is created or        *)
(* rotated gets one that no other key, no marking and no history holds.    *)
(* And what the quotas that a request meets let through over time, and how *)
(* the tokens of answers reach buckets, totals and the log.  And that what *)
(* a client reads of a stream is a beginning of what its upstream sent: at *)
(* any time the buffer is what a decoder makes of the bytes since the last *)
(* line it cut, however they came.                                         *)
(***************************************************************************)
EXTENDS ChatRoute, RateWindows, StreamReader, FiniteLemmas, SequenceTheorems, TLAPS

RpmBucket == [windowStart : Nat, count : Nat]
DayBucket == [day : Nat, requests : Nat, tokens : Nat, embeddings : Nat]
Entry == [value : Nat, expiresAt : Nat]

(* Who has a log row to finish knows its id.                               *)
IdsTyped == \A q \in Request : HasRow(q) => req[q].id \in ReqId

(* A secret belongs to one key; a dead one only to a revoked key; one that *)
(* is being marked to the key that is being marked.                        *)
Secrets ==
    /\ \A k \in Key : keys[k].secret \in 0..issued /\ marking[k] \in 0..issued
    /\ \A k, l \in Key : keys[k].secret = keys[l].secret /\ keys[k].secret # 0 => k = l
    /\ \A k \in Key : keys[k].secret \in dead => keys[k].revoked
    /\ \A k, l \in Key : marking[k] # 0 /\ keys[l].secret = marking[k] => k = l

(* The clock stays within its bound, so every date has its counters.       *)
Clocked == now \in 0..MaxTime

Inv == TypeOK /\ Clocked /\ IdsTyped /\ Secrets /\ DemoKeysAreMarked /\ PendingExplained

-----------------------------------------------------------------------------
(* The types of counters.                                                  *)

LEMMA RpmTyped ==
    ASSUME NEW b \in RpmBucket, NEW t \in Nat, NEW limit \in Nat
    PROVE  RpmAfter(b, t, limit) \in RpmBucket
  BY DEF RpmAfter, RpmBucket

LEMMA OfTyped ==
    ASSUME NEW b \in DayBucket, NEW t \in Nat
    PROVE  Of(b, t) \in DayBucket
<1>1. Today(t) \in Nat
  BY RateAssumption DEF Today
<1>2. [NoDay EXCEPT !.day = Today(t)] \in DayBucket
  BY <1>1 DEF NoDay, DayBucket
<1> QED
  BY <1>2 DEF Of

LEMMA DayTyped ==
    ASSUME NEW b \in DayBucket, NEW t \in Nat, NEW limit \in Nat
    PROVE  /\ DayAfter(b, t, "requests", limit) \in DayBucket
           /\ DayAfter(b, t, "embeddings", limit) \in DayBucket
           /\ \A n \in Nat : RecordTokens(b, t, n) \in DayBucket
<1>1. ASSUME NEW c \in DayBucket
      PROVE  /\ [c EXCEPT !["requests"] = @ + 1] \in DayBucket
             /\ [c EXCEPT !["embeddings"] = @ + 1] \in DayBucket
             /\ \A n \in Nat : [c EXCEPT !.tokens = @ + n] \in DayBucket
  BY DEF DayBucket
<1>2. DayAfter(b, t, "requests", limit) \in DayBucket
  BY <1>1, OfTyped DEF DayAfter
<1>3. DayAfter(b, t, "embeddings", limit) \in DayBucket
  BY <1>1, OfTyped DEF DayAfter
<1>4. \A n \in Nat : RecordTokens(b, t, n) \in DayBucket
  BY <1>1, OfTyped DEF RecordTokens
<1> QED
  BY <1>2, <1>3, <1>4

LEMMA IncrTyped ==
    ASSUME NEW e \in Entry, NEW t \in Nat, NEW ttl \in Nat
    PROVE  Incr(e, t, ttl) \in Entry
  BY DEF Incr, Entry

LEMMA RateTypes == RateTypeOK <=> /\ now \in Nat
                                  /\ rpmBuckets \in [Key -> RpmBucket]
                                  /\ dayBuckets \in [Key -> DayBucket]
                                  /\ kv \in [Counter -> Entry]
  BY DEF RateTypeOK, RpmBucket, DayBucket, Entry

(* One counter changes.                                                    *)
LEMMA KvTyped ==
    ASSUME RateTypeOK, NEW c \in Counter, NEW ttl \in Nat, kv' = [kv EXCEPT ![c] = Incr(@, now, ttl)]
    PROVE  kv' \in [Counter -> Entry]
<1>1. Incr(kv[c], now, ttl) \in Entry
  BY RateTypes, IncrTyped
<1> QED
  BY <1>1, RateTypes

LEMMA ChargeTyped ==
    ASSUME RateTypeOK, NEW k \in Key, NEW n \in Nat, Charge(k, n)
    PROVE  dayBuckets' \in [Key -> DayBucket]
<1>1. RecordTokens(dayBuckets[k], now, n) \in DayBucket
  BY RateTypes, DayTyped, 0 \in Nat
<1> QED
  BY <1>1, RateTypes DEF Charge

-----------------------------------------------------------------------------
(* The types of keys.                                                      *)

LEMMA KeyRows ==
    ASSUME NEW r \in Row
    PROVE  /\ \A b \in BOOLEAN : /\ [r EXCEPT !.enabled = b] \in Row
                                 /\ [r EXCEPT !.expired = b] \in Row
                                 /\ [r EXCEPT !.isDemo = b] \in Row
           /\ \A b \in BOOLEAN, limits \in Quotas :
                 [r EXCEPT !.limits = limits, !.streaming = b] \in Row
           /\ [r EXCEPT !.enabled = FALSE, !.revoked = TRUE] \in Row
           /\ \A n \in Nat : /\ [r EXCEPT !.secret = n, !.revoked = FALSE, !.enabled = TRUE] \in Row
                             /\ [r EXCEPT !.totalTokens = @ + n] \in Row
<1> USE DEF Row
<1>1. ASSUME NEW b \in BOOLEAN
      PROVE  /\ [r EXCEPT !.enabled = b] \in Row
             /\ [r EXCEPT !.expired = b] \in Row
             /\ [r EXCEPT !.isDemo = b] \in Row
  OBVIOUS
<1>2. ASSUME NEW b \in BOOLEAN, NEW limits \in Quotas
      PROVE  [r EXCEPT !.limits = limits, !.streaming = b] \in Row
  OBVIOUS
<1>3. [r EXCEPT !.enabled = FALSE, !.revoked = TRUE] \in Row
  OBVIOUS
<1>4. ASSUME NEW n \in Nat
      PROVE  /\ [r EXCEPT !.secret = n, !.revoked = FALSE, !.enabled = TRUE] \in Row
             /\ [r EXCEPT !.totalTokens = @ + n] \in Row
  <2>1. [r EXCEPT !.totalTokens = @ + n] \in Row
    OBVIOUS
  <2>2. [r EXCEPT !.secret = n] \in Row
    OBVIOUS
  <2>3. \A s \in Row : [s EXCEPT !.revoked = FALSE, !.enabled = TRUE] \in Row
    OBVIOUS
  <2> HIDE DEF Row
  <2> QED
    BY <2>1, <2>2, <2>3
<1> HIDE DEF Row
<1> QED
  BY <1>1, <1>2, <1>3, <1>4

NewRow(limits, org) ==
    [NoKey EXCEPT !.secret = issued + 1, !.enabled = TRUE, !.limits = limits,
                  !.org = org, !.streaming = TRUE]

LEMMA NewRowTyped ==
    ASSUME issued \in Nat, NEW limits \in Quotas, NEW org \in Org \cup {NoOrg}
    PROVE  NewRow(limits, org) \in Row
<1>1. NoKey \in Row
  BY DEF NoKey, NoLimits, Quotas, Row
<1>2. ASSUME NEW r \in Row, NEW n \in Nat PROVE [r EXCEPT !.secret = n, !.enabled = TRUE] \in Row
  BY DEF Row
<1>3. ASSUME NEW r \in Row PROVE [r EXCEPT !.limits = limits, !.org = org] \in Row
  BY DEF Row
<1>4. ASSUME NEW r \in Row PROVE [r EXCEPT !.streaming = TRUE] \in Row
  BY DEF Row
<1>5. issued + 1 \in Nat
  OBVIOUS
<1> QED
  BY <1>1, <1>2, <1>3, <1>4, <1>5 DEF NewRow

(* One key changes.                                                        *)
LEMMA KeySet ==
    ASSUME keys \in [Key -> Row], NEW k \in Key
    PROVE  /\ keys[k] \in Row
           /\ \A r \in Row : [keys EXCEPT ![k] = r] \in [Key -> Row]
  OBVIOUS

LEMMA KeyFlag ==
    ASSUME keys \in [Key -> Row], NEW k \in Key, NEW b \in BOOLEAN
    PROVE  /\ [keys EXCEPT ![k].enabled = b] \in [Key -> Row]
           /\ [keys EXCEPT ![k].expired = b] \in [Key -> Row]
           /\ [keys EXCEPT ![k].isDemo = b] \in [Key -> Row]
  BY KeySet, KeyRows

LEMMA KeyLimits ==
    ASSUME keys \in [Key -> Row], NEW k \in Key, NEW b \in BOOLEAN, NEW limits \in Quotas
    PROVE  [keys EXCEPT ![k].limits = limits, ![k].streaming = b] \in [Key -> Row]
<1>1. [keys EXCEPT ![k].limits = limits, ![k].streaming = b]
          = [keys EXCEPT ![k] = [@ EXCEPT !.limits = limits, !.streaming = b]]
  OBVIOUS
<1> QED
  BY <1>1, KeySet, KeyRows

LEMMA KeyRevoked ==
    ASSUME keys \in [Key -> Row], NEW k \in Key
    PROVE  [keys EXCEPT ![k].enabled = FALSE, ![k].revoked = TRUE] \in [Key -> Row]
<1>1. [keys EXCEPT ![k].enabled = FALSE, ![k].revoked = TRUE]
          = [keys EXCEPT ![k] = [@ EXCEPT !.enabled = FALSE, !.revoked = TRUE]]
  OBVIOUS
<1> QED
  BY <1>1, KeySet, KeyRows

LEMMA KeyRotated ==
    ASSUME keys \in [Key -> Row], NEW k \in Key, NEW n \in Nat
    PROVE  [keys EXCEPT ![k].secret = n, ![k].revoked = FALSE, ![k].enabled = TRUE] \in [Key -> Row]
<1>1. [keys EXCEPT ![k].secret = n, ![k].revoked = FALSE, ![k].enabled = TRUE]
          = [keys EXCEPT ![k] = [@ EXCEPT !.secret = n, !.revoked = FALSE, !.enabled = TRUE]]
  OBVIOUS
<1> QED
  BY <1>1, KeySet, KeyRows

LEMMA KeyCharged ==
    ASSUME keys \in [Key -> Row], NEW k \in Key, NEW n \in Nat
    PROVE  [keys EXCEPT ![k].totalTokens = @ + n] \in [Key -> Row]
  BY KeySet, KeyRows

-----------------------------------------------------------------------------
(* The types of a request.                                                 *)

LEMMA IdleTyped == Idle \in Req
<1>1. AnyKey \in Key
  BY RouteAssumption DEF AnyKey
<1>2. NotSeen \in Seen
  BY DEF NotSeen, Seen, NoLimits, Quotas
<1> QED
  BY <1>1, <1>2 DEF Idle, Req, Stage

LEMMA ReqChanges ==
    ASSUME NEW r \in Req
    PROVE  /\ \A l \in Stage : [r EXCEPT !.at = l] \in Req
           /\ \A l \in Stage, i \in ReqId : [r EXCEPT !.at = l, !.id = i] \in Req
           /\ \A l \in Stage, b \in BOOLEAN : [r EXCEPT !.at = l, !.ok = b] \in Req
           /\ \A l \in Stage, n \in Nat, b \in BOOLEAN :
                 [r EXCEPT !.at = l, !.tokens = n, !.ok = b] \in Req
<1> USE DEF Req
<1>1. \A l \in Stage : [r EXCEPT !.at = l] \in Req
  OBVIOUS
<1>2. ASSUME NEW l \in Stage, NEW i \in ReqId PROVE [r EXCEPT !.at = l, !.id = i] \in Req
  OBVIOUS
<1>3. ASSUME NEW b \in BOOLEAN, NEW q \in Req PROVE [q EXCEPT !.ok = b] \in Req
  OBVIOUS
<1>4. ASSUME NEW n \in Nat, NEW q \in Req PROVE [q EXCEPT !.tokens = n] \in Req
  OBVIOUS
<1> HIDE DEF Req
<1> QED
  BY <1>1, <1>2, <1>3, <1>4

LEMMA GotoTyped ==
    ASSUME TypeOK, NEW q \in Request, NEW l \in Stage, Goto(q, l)
    PROVE  req' \in [Request -> Req]
  BY ReqChanges DEF TypeOK, Goto

LEMMA AnsweredTyped ==
    ASSUME TypeOK, NEW q \in Request, Answered(q)
    PROVE  req' \in [Request -> Req]
  BY IdleTyped DEF TypeOK, Answered

(* What a request holds of its key.                                        *)
LEMMA Holds ==
    ASSUME TypeOK, NEW q \in Request
    PROVE  /\ req[q] \in Req /\ req[q].key \in Key /\ req[q].row \in Seen
           /\ TheLimits(q) \in Quotas
           /\ TheLimits(q).rpm \in Nat /\ TheLimits(q).requests \in Nat
           /\ TheLimits(q).embeddings \in Nat
  BY DEF TypeOK, Req, Seen, TheLimits, Quotas

LEMMA ReadTyped ==
    ASSUME TypeOK, NEW k \in Key
    PROVE  Read(k) \in Seen
  BY DEF TypeOK, KeysTypeOK, Row, Read, Seen, Usable

-----------------------------------------------------------------------------
(* Types.                                                                  *)

LEMMA InitTypes == Init => TypeOK
<1> SUFFICES ASSUME Init PROVE TypeOK
  OBVIOUS
<1>1. RateTypeOK
  BY DEF Init, RateInit, NoBuckets, NoBucket, NoDay, NoEntry, RateTypeOK
<1>2. NoKey \in Row
  BY DEF NoKey, NoLimits, Quotas, Row
<1>3. KeysTypeOK
  BY <1>2 DEF Init, KeysInit, KeysTypeOK
<1> QED
  BY <1>1, <1>3, IdleTyped DEF Init, TypeOK, NoLog, LogRow

(* The secrets on file only get more.                                      *)
LEMMA SecretsTyped ==
    ASSUME KeysTypeOK, issued' = issued \/ issued' = issued + 1
    PROVE  /\ issued' \in Nat
           /\ known \subseteq 1..issued' /\ dead \subseteq 1..issued'
  BY DEF KeysTypeOK

LEMMA KeyTypes ==
    ASSUME TypeOK, IdsTyped, Secrets, KeyStep, UNCHANGED chatVars
    PROVE  TypeOK'
<1> USE DEF TypeOK, keyVars, rateVars, chatVars
<1>1. RateTypeOK /\ KeysTypeOK
  OBVIOUS
<1>2. SUFFICES RateTypeOK' /\ KeysTypeOK'
  OBVIOUS
<1> HIDE DEF TypeOK
<1>3. ASSUME UNCHANGED rateVars PROVE RateTypeOK'
  BY <1>1, <1>3 DEF RateTypeOK
<1>4. ASSUME NEW c \in Counter, NEW ttl \in Nat, kv' = [kv EXCEPT ![c] = Incr(@, now, ttl)],
             UNCHANGED <<now, rpmBuckets, dayBuckets>>
      PROVE  RateTypeOK'
  <2>1. kv' \in [Counter -> Entry]
    BY <1>1, <1>4, KvTyped
  <2> QED
    BY <1>1, <1>4, <2>1, RateTypes DEF RateTypeOK, Entry
<1>5. CASE DemoRefused
  <2>1. RateTypeOK'
    BY <1>4, <1>5, KeyAssumption, RateAssumption DEF DemoRefused
  <2> QED
    BY <1>1, <1>5, <2>1 DEF DemoRefused, KeysTypeOK
<1>6. ASSUME NEW k \in Key, CreateKey(k) PROVE RateTypeOK' /\ KeysTypeOK'
  <2>1. PICK limits \in Limits, org \in Org \cup {NoOrg} : NewKey(k, limits, org)
    BY <1>6 DEF CreateKey
  <2>2. NewRow(limits, org) \in Row
    BY <1>1, KeyAssumption, NewRowTyped DEF KeysTypeOK
  <2>3. keys' \in [Key -> Row]
    BY <1>1, <2>1, <2>2, KeySet DEF NewKey, NewRow, KeysTypeOK
  <2>4. issued' = issued + 1
    BY <2>1 DEF NewKey
  <2> QED
    BY <1>1, <1>3, <1>6, <2>3, <2>4, SecretsTyped DEF CreateKey, KeysTypeOK
<1>7. ASSUME NEW k \in Key, DemoCreate(k) PROVE RateTypeOK' /\ KeysTypeOK'
  <2>1. NewRow(DemoLimits, NoOrg) \in Row
    BY <1>1, KeyAssumption, NewRowTyped DEF KeysTypeOK
  <2>2. keys' \in [Key -> Row]
    BY <1>1, <1>7, <2>1, KeySet DEF DemoCreate, NewKey, NewRow, KeysTypeOK
  <2>3. issued' = issued + 1
    BY <1>7 DEF DemoCreate, NewKey
  <2>4. RateTypeOK'
    BY <1>4, <1>7, KeyAssumption, RateAssumption DEF DemoCreate
  <2>5. marking' \in [Key -> Nat]
    BY <1>1, <1>7 DEF DemoCreate, KeysTypeOK
  <2> QED
    BY <1>1, <1>7, <2>2, <2>3, <2>4, <2>5, SecretsTyped DEF DemoCreate, KeysTypeOK
<1>8. ASSUME NEW k \in Key, DemoMark(k) PROVE RateTypeOK' /\ KeysTypeOK'
  <2>1. keys' \in [Key -> Row]
    BY <1>1, <1>8, KeyFlag DEF DemoMark, KeysTypeOK
  <2>2. marking[k] \in 1..issued
    BY <1>1, <1>8 DEF DemoMark, Secrets, KeysTypeOK
  <2> QED
    BY <1>1, <1>3, <1>8, <2>1, <2>2 DEF DemoMark, KeysTypeOK
<1>9. ASSUME NEW k \in Key, DemoMarkFails(k) PROVE RateTypeOK' /\ KeysTypeOK'
  BY <1>1, <1>3, <1>9 DEF DemoMarkFails, Fault, KeysTypeOK
<1>10. ASSUME NEW k \in Key, Patch(k) PROVE RateTypeOK' /\ KeysTypeOK'
  <2>1. keys' \in [Key -> Row]
    <3>1. keys \in [Key -> Row]
      BY <1>1 DEF KeysTypeOK
    <3>2. ASSUME NEW b \in BOOLEAN,
                 keys' = [keys EXCEPT ![k].enabled = b] \/ keys' = [keys EXCEPT ![k].expired = b]
          PROVE  keys' \in [Key -> Row]
      <4>1. [keys EXCEPT ![k].enabled = b] \in [Key -> Row]
        BY <3>1, KeyFlag
      <4>2. [keys EXCEPT ![k].expired = b] \in [Key -> Row]
        BY <3>1, KeyFlag
      <4> QED
        BY <3>2, <4>1, <4>2
    <3>3. ASSUME NEW limits \in Limits, NEW streaming \in BOOLEAN,
                 keys' = [keys EXCEPT ![k].limits = limits, ![k].streaming = streaming]
          PROVE  keys' \in [Key -> Row]
      <4>1. limits \in Quotas
        BY KeyAssumption
      <4> QED
        BY <3>1, <3>3, <4>1, KeyLimits
    <3> QED
      BY <1>10, <3>2, <3>3 DEF Patch
  <2> QED
    BY <1>1, <1>3, <1>10, <2>1 DEF Patch, KeysTypeOK
<1>11. ASSUME NEW k \in Key, Revoke(k) PROVE RateTypeOK' /\ KeysTypeOK'
  <2>1. keys' \in [Key -> Row]
    BY <1>1, <1>11, KeyRevoked DEF Revoke, KeysTypeOK
  <2>2. keys[k].secret \in 1..issued
    BY <1>1, <1>11 DEF Revoke, Exists, Secrets, KeysTypeOK
  <2> QED
    BY <1>1, <1>3, <1>11, <2>1, <2>2 DEF Revoke, KeysTypeOK
<1>12. ASSUME NEW k \in Key, Rotate(k) PROVE RateTypeOK' /\ KeysTypeOK'
  <2>1. keys' \in [Key -> Row] /\ issued' = issued + 1
    <3>1. keys \in [Key -> Row] /\ issued + 1 \in Nat
      BY <1>1 DEF KeysTypeOK
    <3> QED
      BY <1>12, <3>1, KeyRotated DEF Rotate
  <2>2. keys[k].secret \in 1..issued
    BY <1>1, <1>12 DEF Rotate, Exists, Secrets, KeysTypeOK
  <2> QED
    BY <1>1, <1>3, <1>12, <2>1, <2>2, SecretsTyped DEF Rotate, KeysTypeOK
<1>13. ASSUME NEW k \in Key, Expires(k) PROVE RateTypeOK' /\ KeysTypeOK'
  <2>1. keys' \in [Key -> Row]
    BY <1>1, <1>13, KeyFlag DEF Expires, KeysTypeOK
  <2> QED
    BY <1>1, <1>3, <1>13, <2>1 DEF Expires, KeysTypeOK
<1> QED
  BY <1>5, <1>6, <1>7, <1>8, <1>9, <1>10, <1>11, <1>12, <1>13 DEF KeyStep

-----------------------------------------------------------------------------
(* What a step of a request leaves alone.                                  *)

LEMMA RequestTyped ==
    ASSUME TypeOK, UNCHANGED keyVars, RateTypeOK', req' \in [Request -> Req],
           log' \in [ReqId -> LogRow], abandoned' \subseteq ReqId, calls' \in Nat, faults' \in Nat
    PROVE  TypeOK'
  BY DEF TypeOK, KeysTypeOK, keyVars

LEMMA RateUnchanged == ASSUME RateTypeOK, UNCHANGED rateVars PROVE RateTypeOK'
  BY DEF RateTypeOK, rateVars

LEMMA DayChanged ==
    ASSUME RateTypeOK, dayBuckets' \in [Key -> DayBucket], UNCHANGED <<now, rpmBuckets, kv>>
    PROVE  RateTypeOK'
  BY DEF RateTypeOK, DayBucket

(* Days.                                                                   *)
DayNo(t) == t \div Day

LEMMA Days ==
    ASSUME NEW t \in Nat, NEW m \in Nat
    PROVE  /\ DayNo(m) \in Nat /\ DayNo(m) * Day \in Nat
           /\ DayNo(t) * Day <= m /\ m <= DayNo(t) * Day + Day - 1 <=> DayNo(m) = DayNo(t)
           /\ t <= m => DayNo(t) <= DayNo(m)
<1> DEFINE a == DayNo(t)
           b == DayNo(m)
<1>1. Day \in Nat \ {0}
  BY RateAssumption
<1>2. a \in Nat /\ a * Day <= t /\ t < a * Day + Day /\ a * Day \in Nat
  <2>1. t \div Day \in Nat /\ Day * (t \div Day) <= t /\ t < Day * (t \div Day) + Day
    BY <1>1
  <2> QED
    BY <1>1, <2>1 DEF DayNo
<1>3. b \in Nat /\ b * Day <= m /\ m < b * Day + Day /\ b * Day \in Nat
  <2>1. m \div Day \in Nat /\ Day * (m \div Day) <= m /\ m < Day * (m \div Day) + Day
    BY <1>1
  <2> QED
    BY <1>1, <2>1 DEF DayNo
<1> HIDE DEF a, b
<1>4. ASSUME a + 1 <= b PROVE a * Day + Day <= b * Day
  <2>1. (a + 1) * Day <= b * Day
    BY <1>1, <1>2, <1>3, <1>4
  <2>2. (a + 1) * Day = a * Day + Day
    BY <1>1, <1>2
  <2> QED
    BY <2>1, <2>2
<1>5. ASSUME b + 1 <= a PROVE b * Day + Day <= a * Day
  <2>1. (b + 1) * Day <= a * Day
    BY <1>1, <1>2, <1>3, <1>5
  <2>2. (b + 1) * Day = b * Day + Day
    BY <1>1, <1>3
  <2> QED
    BY <2>1, <2>2
<1>6. a * Day <= m /\ m <= a * Day + Day - 1 <=> b = a
  BY <1>1, <1>2, <1>3, <1>4, <1>5
<1>7. t <= m => a <= b
  BY <1>1, <1>2, <1>3, <1>5
<1> QED
  BY <1>3, <1>6, <1>7 DEF a, b

LEMMA Dated ==
    ASSUME now \in Nat, Clocked
    PROVE  Today(now) \in Date
<1>1. now \in Nat /\ MaxTime \in Nat /\ now <= MaxTime
  BY RateAssumption DEF Clocked
<1>2. DayNo(now) \in Nat /\ DayNo(MaxTime) \in Nat /\ DayNo(now) <= DayNo(MaxTime)
  BY <1>1, Days
<1>3. Today(now) = 1 + DayNo(now) /\ Today(MaxTime) = 1 + DayNo(MaxTime)
  BY DEF Today, DayNo
<1> QED
  BY <1>2, <1>3 DEF Date

LEMMA HookTypes ==
    ASSUME TypeOK, Clocked, NEW q \in Request, Resolve(q) \/ Admit(q) \/ OrgRpm(q) \/ DemoQuota(q)
    PROVE  TypeOK'
<1>0. /\ RateTypeOK /\ calls \in Nat /\ faults \in Nat /\ log \in [ReqId -> LogRow]
      /\ abandoned \subseteq ReqId /\ now \in Nat /\ req \in [Request -> Req]
  BY DEF TypeOK, RateTypeOK, KeysTypeOK
<1>1. CASE Resolve(q)
  <2>1. PICK k \in Key :
           req' = [req EXCEPT ![q] = [Idle EXCEPT !.at = "resolved", !.key = k, !.row = Read(k)]]
    BY <1>1 DEF Resolve
  <2>2. [Idle EXCEPT !.at = "resolved", !.key = k, !.row = Read(k)] \in Req
    <3>1. ASSUME NEW r \in Req, NEW s \in Seen
          PROVE  [r EXCEPT !.at = "resolved", !.key = k, !.row = s] \in Req
      <4>1. [r EXCEPT !.at = "resolved"] \in Req
        BY DEF Req, Stage
      <4>2. \A x \in Req : [x EXCEPT !.key = k, !.row = s] \in Req
        BY DEF Req
      <4> QED
        BY <4>1, <4>2
    <3> QED
      BY <3>1, IdleTyped, ReadTyped
  <2>3. req' \in [Request -> Req]
    BY <1>0, <2>1, <2>2
  <2>4. calls' = calls + 1 /\ UNCHANGED <<rateVars, keyVars, faults, log, abandoned>>
    BY <1>1 DEF Resolve
  <2>5. RateTypeOK'
    BY <1>0, <2>4, RateUnchanged
  <2> QED
    BY <1>0, <2>3, <2>4, <2>5, RequestTyped
<1>2. CASE Admit(q)
  <2> DEFINE k == req[q].key
             rpm == [rpmBuckets EXCEPT ![k] = RpmAfter(@, now, TheLimits(q).rpm)]
             day == [dayBuckets EXCEPT ![k] = DayAfter(@, now, "requests", TheLimits(q).requests)]
  <2>1. rpm \in [Key -> RpmBucket]
    <3>1. RpmAfter(rpmBuckets[k], now, TheLimits(q).rpm) \in RpmBucket
      BY <1>0, Holds, RateTypes, RpmTyped
    <3> QED
      BY <1>0, <3>1, RateTypes
  <2>2. day \in [Key -> DayBucket]
    <3>1. DayAfter(dayBuckets[k], now, "requests", TheLimits(q).requests) \in DayBucket
      BY <1>0, Holds, RateTypes, DayTyped
    <3> QED
      BY <1>0, <3>1, RateTypes
  <2>3. /\ rpmBuckets' = rpm \/ rpmBuckets' = rpmBuckets
        /\ dayBuckets' = day \/ dayBuckets' = dayBuckets
        /\ UNCHANGED <<now, kv>>
    BY <1>2 DEF Admit
  <2>4. RateTypeOK'
    <3> HIDE DEF rpm, day
    <3>1. rpmBuckets' \in [Key -> RpmBucket] /\ dayBuckets' \in [Key -> DayBucket]
      BY <1>0, <2>1, <2>2, <2>3, RateTypes
    <3> QED
      BY <1>0, <2>3, <3>1, RateTypes DEF RateTypeOK, RpmBucket, DayBucket, Entry
  <2>5. Answered(q) \/ \E l \in Stage : Goto(q, l)
    BY <1>2 DEF Admit, AfterAdmit, AfterOrg, Stage
  <2>6. req' \in [Request -> Req]
    BY <2>5, GotoTyped, AnsweredTyped
  <2> QED
    BY <1>0, <1>2, <2>4, <2>6, RequestTyped DEF Admit
<1>3. ASSUME NEW c \in Counter, NEW ttl \in Nat, kv' = [kv EXCEPT ![c] = Incr(@, now, ttl)],
             UNCHANGED <<now, rpmBuckets, dayBuckets>>
      PROVE  RateTypeOK'
  <2>1. kv' \in [Counter -> Entry]
    BY <1>0, <1>3, KvTyped
  <2> QED
    BY <1>0, <1>3, <2>1 DEF RateTypeOK, Entry
<1>4. CASE OrgRpm(q)
  <2>1. Answered(q) \/ \E l \in Stage : Goto(q, l)
    BY <1>4 DEF OrgRpm, AfterOrg, Stage
  <2>2. req' \in [Request -> Req]
    BY <2>1, GotoTyped, AnsweredTyped
  <2> DEFINE c == req[q].row.org
  <2>3. kv' = [kv EXCEPT ![c] = Incr(@, now, Minute)] /\ UNCHANGED <<now, rpmBuckets, dayBuckets>>
    BY <1>4 DEF OrgRpm
  <2> HIDE DEF c
  <2>4. RateTypeOK'
    <3>1. CASE c \in Counter
      BY <1>3, <2>3, <3>1, RateAssumption
    <3>2. CASE c \notin Counter
      <4>1. kv' = kv
        BY <1>0, <2>3, <3>2 DEF RateTypeOK
      <4> QED
        BY <1>0, <2>3, <4>1 DEF RateTypeOK
    <3> QED
      BY <3>1, <3>2
  <2> QED
    BY <1>0, <1>4, <2>2, <2>4, RequestTyped DEF OrgRpm
<1>5. CASE DemoQuota(q)
  <2>1. Answered(q) \/ \E l \in Stage : Goto(q, l)
    BY <1>5 DEF DemoQuota, Stage
  <2>2. req' \in [Request -> Req]
    BY <2>1, GotoTyped, AnsweredTyped
  <2>3. DemoOf[<<req[q].key, Today(now)>>] \in Counter
    <3>1. req[q].key \in Key
      BY Holds
    <3>2. Today(now) \in Date
      BY <1>0, Dated
    <3>3. DemoOf \in [Key \X Date -> Counter]
      BY RouteAssumption
    <3> HIDE DEF Date
    <3> QED
      BY <3>1, <3>2, <3>3
  <2>4. RateTypeOK'
    BY <1>3, <1>5, <2>3, RateAssumption DEF DemoQuota
  <2> QED
    BY <1>0, <1>5, <2>2, <2>4, RequestTyped DEF DemoQuota
<1> QED
  BY <1>1, <1>2, <1>4, <1>5

LEMMA ExecuteTypes ==
    ASSUME TypeOK, NEW q \in Request,
           StartLog(q) \/ StreamRefused(q) \/ ExecuteOk(q) \/ ExecuteStream(q) \/ ExecuteFailed(q)
    PROVE  TypeOK'
<1>0. /\ RateTypeOK /\ calls \in Nat /\ faults \in Nat /\ log \in [ReqId -> LogRow]
      /\ abandoned \subseteq ReqId /\ req \in [Request -> Req]
  BY DEF TypeOK, KeysTypeOK
<1>1. CASE StartLog(q)
  <2>1. PICK i \in ReqId :
           /\ log' = [log EXCEPT ![i].exists = TRUE]
           /\ req' = [req EXCEPT ![q].at = "execute", ![q].id = i]
    BY <1>1 DEF StartLog
  <2>2. log' \in [ReqId -> LogRow]
    <3>1. \A r \in LogRow : [r EXCEPT !.exists = TRUE] \in LogRow
      BY DEF LogRow
    <3> QED
      BY <1>0, <2>1, <3>1
  <2>3. req' \in [Request -> Req]
    <3>1. req' = [req EXCEPT ![q] = [@ EXCEPT !.at = "execute", !.id = i]]
      BY <1>0, <2>1
    <3>2. "execute" \in Stage
      BY DEF Stage
    <3>3. [req[q] EXCEPT !.at = "execute", !.id = i] \in Req
      BY <1>0, <3>2, ReqChanges
    <3> QED
      BY <1>0, <3>1, <3>3
  <2>4. UNCHANGED <<rateVars, keyVars, faults, abandoned, calls>>
    BY <1>1 DEF StartLog
  <2>5. RateTypeOK'
    BY <1>0, <2>4, RateUnchanged
  <2> QED
    BY <1>0, <2>2, <2>3, <2>4, <2>5, RequestTyped
<1>2. CASE StreamRefused(q)
  <2>1. req' \in [Request -> Req]
    BY <1>2, AnsweredTyped DEF StreamRefused
  <2> QED
    BY <1>0, <1>2, <2>1, RequestTyped, RateUnchanged DEF StreamRefused
<1>3. CASE ExecuteOk(q)
  <2>1. PICK n \in Answers :
           /\ req' = [req EXCEPT ![q].at = "touch", ![q].tokens = n, ![q].ok = TRUE]
           /\ Charge(req[q].key, n)
    BY <1>3 DEF ExecuteOk
  <2>2. n \in Nat /\ "touch" \in Stage
    BY RouteAssumption DEF Stage
  <2>3. req' \in [Request -> Req]
    <3>1. req' = [req EXCEPT ![q] = [@ EXCEPT !.at = "touch", !.tokens = n, !.ok = TRUE]]
      BY <1>0, <2>1
    <3>2. [req[q] EXCEPT !.at = "touch", !.tokens = n, !.ok = TRUE] \in Req
      BY <1>0, <2>2, ReqChanges
    <3> QED
      BY <1>0, <3>1, <3>2
  <2>4. UNCHANGED <<now, rpmBuckets, kv, keyVars, faults, log, abandoned, calls>>
    BY <1>3 DEF ExecuteOk
  <2>5. RateTypeOK'
    BY <1>0, <2>1, <2>2, <2>4, Holds, ChargeTyped, DayChanged
  <2> QED
    BY <1>0, <2>3, <2>4, <2>5, RequestTyped
<1>4. CASE ExecuteStream(q)
  <2>1. req' \in [Request -> Req]
    <3>1. req' = [req EXCEPT ![q] = [@ EXCEPT !.at = "touch", !.ok = TRUE]]
      BY <1>0, <1>4 DEF ExecuteStream
    <3>2. "touch" \in Stage
      BY DEF Stage
    <3>3. [req[q] EXCEPT !.at = "touch", !.ok = TRUE] \in Req
      BY <1>0, <3>2, ReqChanges
    <3> QED
      BY <1>0, <3>1, <3>3
  <2>2. /\ UNCHANGED <<now, rpmBuckets, kv, keyVars, faults, log, abandoned, calls>>
        /\ Charge(req[q].key, 0)
    BY <1>4 DEF ExecuteStream
  <2>3. RateTypeOK'
    BY <1>0, <2>2, Holds, ChargeTyped, DayChanged, 0 \in Nat
  <2> QED
    BY <1>0, <2>1, <2>2, <2>3, RequestTyped
<1>5. CASE ExecuteFailed(q)
  <2>1. req' \in [Request -> Req]
    BY <1>5, GotoTyped DEF ExecuteFailed, Stage
  <2> QED
    BY <1>0, <1>5, <2>1, RequestTyped, RateUnchanged DEF ExecuteFailed
<1> QED
  BY <1>1, <1>2, <1>3, <1>4, <1>5

LEMMA LastTypes ==
    ASSUME TypeOK, IdsTyped, NEW q \in Request,
           TouchUsage(q) \/ FinishLog(q) \/ StartEmbedding(q) \/ Embed(q)
    PROVE  TypeOK'
<1>0. /\ RateTypeOK /\ calls \in Nat /\ faults \in Nat /\ log \in [ReqId -> LogRow]
      /\ abandoned \subseteq ReqId /\ now \in Nat /\ req \in [Request -> Req]
  BY DEF TypeOK, RateTypeOK, KeysTypeOK
<1>1. CASE TouchUsage(q)
  <2>1. req' \in [Request -> Req]
    BY <1>1, GotoTyped DEF TouchUsage, Stage
  <2>2. keys \in [Key -> Row] /\ req[q].key \in Key /\ req[q].tokens \in Nat
    BY Holds DEF TypeOK, KeysTypeOK, Req
  <2>3. keys' = [keys EXCEPT ![req[q].key].totalTokens = @ + req[q].tokens]
    BY <1>1 DEF TouchUsage
  <2>4. keys' \in [Key -> Row]
    BY <2>2, <2>3, KeyCharged
  <2>5. UNCHANGED <<rateVars, issued, known, marking, demoOut, dead, patches, faults,
                    log, abandoned, calls>>
    BY <1>1 DEF TouchUsage
  <2>6. RateTypeOK'
    BY <1>0, <2>5, RateUnchanged
  <2> QED
    BY <2>1, <2>4, <2>5, <2>6 DEF TypeOK, KeysTypeOK
<1>2. CASE FinishLog(q)
  <2>1. req' \in [Request -> Req]
    BY <1>2, AnsweredTyped DEF FinishLog
  <2>2. req[q].id \in ReqId /\ req[q].tokens \in Nat
    BY <1>2, Holds DEF FinishLog, At, IdsTyped, HasRow, Req
  <2>3. log' \in [ReqId -> LogRow]
    <3> DEFINE i == req[q].id
               n == IF req[q].ok THEN req[q].tokens ELSE log[i].tokens
    <3>1. log' = [log EXCEPT ![i].finished = TRUE, ![i].tokens = n]
      BY <1>0, <1>2, <2>2 DEF FinishLog, LogRow
    <3>2. n \in Nat
      BY <1>0, <2>2 DEF LogRow
    <3>3. \A r \in LogRow, m \in Nat : [r EXCEPT !.finished = TRUE, !.tokens = m] \in LogRow
      BY DEF LogRow
    <3> HIDE DEF n, i
    <3>4. i \in ReqId
      BY <2>2 DEF i
    <3>5. log' = [log EXCEPT ![i] = [@ EXCEPT !.finished = TRUE, !.tokens = n]]
      BY <1>0, <3>1, <3>4
    <3>6. [log[i] EXCEPT !.finished = TRUE, !.tokens = n] \in LogRow
      BY <1>0, <3>2, <3>3, <3>4
    <3> QED
      BY <1>0, <3>4, <3>5, <3>6
  <2>4. UNCHANGED <<rateVars, keyVars, faults, abandoned, calls>>
    BY <1>2 DEF FinishLog
  <2>5. RateTypeOK'
    BY <1>0, <2>4, RateUnchanged
  <2> QED
    BY <1>0, <2>1, <2>3, <2>4, <2>5, RequestTyped
<1>3. CASE StartEmbedding(q)
  <2> DEFINE k == req[q].key
             after == DayAfter(dayBuckets[k], now, "embeddings", TheLimits(q).embeddings)
  <2>1. after \in DayBucket
    BY <1>0, Holds, RateTypes, DayTyped
  <2>2. dayBuckets' = [dayBuckets EXCEPT ![k] = after] /\ (Answered(q) \/ Goto(q, "embed"))
        /\ UNCHANGED <<now, rpmBuckets, kv, keyVars, faults, log, abandoned, calls>>
    BY <1>3 DEF StartEmbedding
  <2> HIDE DEF after
  <2>3. dayBuckets' \in [Key -> DayBucket]
    BY <1>0, <2>1, <2>2, RateTypes, Holds
  <2>4. req' \in [Request -> Req]
    BY <2>2, GotoTyped, AnsweredTyped DEF Stage
  <2>5. RateTypeOK'
    BY <1>0, <2>2, <2>3, DayChanged
  <2> QED
    BY <1>0, <2>2, <2>4, <2>5, RequestTyped
<1>4. CASE Embed(q)
  <2>1. req' \in [Request -> Req]
    BY <1>4, AnsweredTyped DEF Embed
  <2>2. UNCHANGED <<now, rpmBuckets, kv, keyVars, faults, log, abandoned, calls>>
    BY <1>4 DEF Embed
  <2>3. dayBuckets' \in [Key -> DayBucket]
    <3>1. \A n \in Answers : n \in Nat
      BY RouteAssumption
    <3>2. CASE UNCHANGED dayBuckets
      BY <1>0, <3>2, RateTypes
    <3>3. CASE \E n \in Answers : Charge(req[q].key, n)
      BY <1>0, <3>1, <3>3, Holds, ChargeTyped
    <3> QED
      BY <1>4, <3>2, <3>3 DEF Embed
  <2>4. RateTypeOK'
    BY <1>0, <2>2, <2>3, DayChanged
  <2> QED
    BY <1>0, <2>1, <2>2, <2>4, RequestTyped
<1> QED
  BY <1>1, <1>2, <1>3, <1>4

LEMMA CutOffTyped ==
    ASSUME TypeOK, IdsTyped, NEW S \in SUBSET Request, CutOff(S)
    PROVE  abandoned' \subseteq ReqId
  BY DEF TypeOK, IdsTyped, CutOff

LEMMA FaultTypes ==
    ASSUME TypeOK, IdsTyped, Tock \/ Restart \/ \E q \in Request : Throws(q)
    PROVE  TypeOK'
<1>0. /\ RateTypeOK /\ calls \in Nat /\ faults \in Nat /\ log \in [ReqId -> LogRow]
      /\ abandoned \subseteq ReqId /\ now \in Nat /\ req \in [Request -> Req]
  BY DEF TypeOK, RateTypeOK, KeysTypeOK
<1>1. CASE Tock
  BY <1>1 DEF Tock, Tick, TypeOK, RateTypeOK, KeysTypeOK, chatVars
<1>2. CASE Restart
  <2>1. abandoned' \subseteq ReqId
    BY <1>2, CutOffTyped DEF Restart
  <2>2. req' \in [Request -> Req]
    BY <1>2, IdleTyped DEF Restart
  <2>3. RateTypeOK'
    BY <1>0, <1>2 DEF Restart, RateTypeOK, NoBucket, NoDay, NoEntry
  <2>4. faults' \in Nat /\ marking' \in [Key -> Nat]
    BY <1>0, <1>2 DEF Restart, Fault
  <2>5. UNCHANGED <<keys, issued, known, demoOut, dead, patches, log, calls>>
    BY <1>2 DEF Restart
  <2> QED
    BY <2>1, <2>2, <2>3, <2>4, <2>5 DEF TypeOK, KeysTypeOK
<1>3. ASSUME NEW q \in Request, Throws(q) PROVE TypeOK'
  <2>1. abandoned' \subseteq ReqId
    BY <1>3, CutOffTyped, {q} \in SUBSET Request DEF Throws
  <2>2. req' \in [Request -> Req]
    BY <1>3, AnsweredTyped DEF Throws
  <2>3. faults' \in Nat /\ UNCHANGED <<rateVars, keyVars, log, calls>>
    BY <1>0, <1>3 DEF Throws, Fault
  <2>4. RateTypeOK'
    BY <1>0, <2>3, RateUnchanged
  <2> QED
    BY <1>0, <2>1, <2>2, <2>3, <2>4, RequestTyped
<1> QED
  BY <1>1, <1>2, <1>3

LEMMA ClockKept ==
    ASSUME TypeOK, Clocked, Next
    PROVE  Clocked'
<1>1. CASE Tock
  BY <1>1, RateAssumption DEF Tock, Tick, Clocked
<1>2. ASSUME now' = now PROVE Clocked'
  BY <1>2 DEF Clocked
<1>3. CASE Restart
  BY <1>2, <1>3 DEF Restart
<1>4. CASE KeyStep
  BY <1>2, <1>4 DEF KeyStep, DemoRefused, CreateKey, DemoCreate, DemoMark, DemoMarkFails, Patch,
     Revoke, Rotate, Expires, rateVars
<1>5. ASSUME NEW q \in Request, Resolve(q) \/ Progress(q) \/ Throws(q) PROVE Clocked'
  BY <1>2, <1>5 DEF Resolve, Progress, Throws, Admit, OrgRpm, DemoQuota, StartLog, StreamRefused,
     ExecuteOk, ExecuteStream, ExecuteFailed, TouchUsage, FinishLog, StartEmbedding, Embed, rateVars
<1> QED
  BY <1>1, <1>3, <1>4, <1>5 DEF Next

LEMMA Types == ASSUME TypeOK, Clocked, IdsTyped, Secrets, Next PROVE TypeOK'
  BY KeyTypes, HookTypes, ExecuteTypes, LastTypes, FaultTypes DEF Next, Progress

-----------------------------------------------------------------------------
(* Log rows that are not finished.                                         *)

Rows == IdsTyped /\ PendingExplained
Working == {"execute", "touch", "finish"}
OneMoves(q) == \A p \in Request : p # q => req'[p] = req[p]

LEMMA Moved ==
    ASSUME TypeOK, NEW q \in Request
    PROVE  /\ \A l : Goto(q, l) => OneMoves(q) /\ req'[q].at = l /\ req'[q].id = req[q].id
           /\ Answered(q) => OneMoves(q) /\ req'[q].at = "idle"
  BY DEF TypeOK, Req, Goto, Answered, Idle, OneMoves

(* Before the log row, and on the way of a request that has none.          *)
LEMMA WithoutRow ==
    ASSUME TypeOK, Rows, NEW q \in Request, OneMoves(q),
           ~HasRow(q), req'[q].at \notin Working, UNCHANGED <<log, abandoned>>
    PROVE  Rows'
<1>1. \A p \in Request : HasRow(p)' => HasRow(p) /\ req'[p] = req[p]
  BY DEF OneMoves, HasRow, Working
<1>2. \A p \in Request : HasRow(p) => HasRow(p)' /\ req'[p] = req[p]
  BY DEF OneMoves, HasRow
<1>3. IdsTyped'
  BY <1>1 DEF Rows, IdsTyped
<1>4. PendingExplained'
  BY <1>2 DEF Rows, PendingExplained
<1> QED
  BY <1>3, <1>4 DEF Rows

LEMMA WithRow ==
    ASSUME TypeOK, Rows, NEW q \in Request, OneMoves(q),
           HasRow(q), req'[q].at \in Working, req'[q].id = req[q].id, UNCHANGED <<log, abandoned>>
    PROVE  Rows'
<1>1. \A p \in Request : (HasRow(p)' <=> HasRow(p)) /\ (HasRow(p) => req'[p].id = req[p].id)
  BY DEF OneMoves, HasRow, Working
<1>2. IdsTyped'
  BY <1>1 DEF Rows, IdsTyped
<1>3. PendingExplained'
  BY <1>1 DEF Rows, PendingExplained
<1> QED
  BY <1>2, <1>3 DEF Rows

LEMMA RowsOfRequest ==
    ASSUME TypeOK, Rows, NEW q \in Request, Resolve(q) \/ Progress(q)
    PROVE  Rows'
<1>1. CASE Resolve(q) \/ Admit(q) \/ OrgRpm(q) \/ DemoQuota(q) \/ StreamRefused(q)
           \/ StartEmbedding(q) \/ Embed(q)
  <2>1. ~HasRow(q) /\ UNCHANGED <<log, abandoned>>
    BY <1>1 DEF Resolve, Admit, OrgRpm, DemoQuota, StreamRefused, StartEmbedding, Embed, At, HasRow
  <2>2. OneMoves(q) /\ req'[q].at \notin Working
    <3>1. CASE Resolve(q)
      <4>1. PICK k \in Key :
               req' = [req EXCEPT ![q] = [Idle EXCEPT !.at = "resolved", !.key = k, !.row = Read(k)]]
        BY <3>1 DEF Resolve
      <4> QED
        BY <4>1 DEF TypeOK, Idle, OneMoves, Working
    <3>2. CASE ~Resolve(q)
      <4>1. Answered(q) \/ \E l \in {"org", "demo", "handler", "embed"} : Goto(q, l)
        BY <1>1, <3>2 DEF Admit, AfterAdmit, AfterOrg, OrgRpm, DemoQuota, StreamRefused,
                          StartEmbedding, Embed
      <4> QED
        BY <4>1, Moved DEF Working
    <3> QED
      BY <3>1, <3>2
  <2> QED
    BY <2>1, <2>2, WithoutRow
<1>2. CASE StartLog(q)
  <2>1. PICK i \in ReqId :
           /\ log' = [log EXCEPT ![i].exists = TRUE]
           /\ req' = [req EXCEPT ![q].at = "execute", ![q].id = i]
    BY <1>2 DEF StartLog
  <2>2. /\ OneMoves(q) /\ req'[q].at = "execute" /\ req'[q].id = i
        /\ ~HasRow(q) /\ abandoned' = abandoned
    BY <1>2, <2>1 DEF StartLog, TypeOK, Req, OneMoves, At, HasRow
  <2>3. \A j \in ReqId : j # i => log'[j] = log[j]
    BY <2>1 DEF TypeOK
  <2>4. IdsTyped'
    BY <2>2 DEF Rows, IdsTyped, OneMoves, HasRow
  <2>5. ASSUME NEW j \in ReqId, log'[j].exists /\ ~log'[j].finished
        PROVE  j \in abandoned' \/ \E p \in Request : HasRow(p)' /\ req'[p].id = j
    <3>1. CASE j = i
      BY <2>2, <3>1 DEF HasRow
    <3>2. CASE j # i
      <4>1. log[j].exists /\ ~log[j].finished
        BY <2>3, <2>5, <3>2
      <4>2. j \in abandoned \/ \E p \in Request : HasRow(p) /\ req[p].id = j
        BY <4>1 DEF Rows, PendingExplained
      <4>3. \A p \in Request : HasRow(p) => HasRow(p)' /\ req'[p] = req[p]
        BY <2>2 DEF OneMoves, HasRow
      <4> QED
        BY <2>2, <4>2, <4>3
    <3> QED
      BY <3>1, <3>2
  <2>6. PendingExplained'
    BY <2>5 DEF PendingExplained
  <2> QED
    BY <2>4, <2>6 DEF Rows
<1>3. CASE ExecuteOk(q) \/ ExecuteStream(q) \/ ExecuteFailed(q) \/ TouchUsage(q)
  <2>1. HasRow(q) /\ UNCHANGED <<log, abandoned>>
    BY <1>3 DEF ExecuteOk, ExecuteStream, ExecuteFailed, TouchUsage, At, HasRow
  <2>2. OneMoves(q) /\ req'[q].at \in Working /\ req'[q].id = req[q].id
    <3>1. CASE ExecuteOk(q)
      <4>1. PICK n \in Answers :
               req' = [req EXCEPT ![q].at = "touch", ![q].tokens = n, ![q].ok = TRUE]
        BY <3>1 DEF ExecuteOk
      <4> QED
        BY <4>1 DEF TypeOK, Req, OneMoves, Working
    <3>2. CASE ExecuteStream(q)
      BY <3>2 DEF ExecuteStream, TypeOK, Req, OneMoves, Working
    <3>3. CASE ExecuteFailed(q) \/ TouchUsage(q)
      BY <3>3, Moved DEF ExecuteFailed, TouchUsage, Working
    <3> QED
      BY <1>3, <3>1, <3>2, <3>3
  <2> QED
    BY <2>1, <2>2, WithRow
<1>4. CASE FinishLog(q)
  <2> DEFINE i == req[q].id
  <2>1. i \in ReqId /\ HasRow(q)
    BY <1>4 DEF FinishLog, At, HasRow, Rows, IdsTyped
  <2>2. OneMoves(q) /\ req'[q].at = "idle" /\ abandoned' = abandoned
    BY <1>4, Moved DEF FinishLog
  <2>3. log'[i].finished /\ \A j \in ReqId : j # i => log'[j] = log[j]
    BY <1>4, <2>1 DEF FinishLog, TypeOK, LogRow
  <2>4. IdsTyped'
    BY <2>2 DEF Rows, IdsTyped, OneMoves, HasRow
  <2>5. ASSUME NEW j \in ReqId, log'[j].exists /\ ~log'[j].finished
        PROVE  j \in abandoned' \/ \E p \in Request : HasRow(p)' /\ req'[p].id = j
    <3>1. j # i /\ log[j].exists /\ ~log[j].finished
      BY <2>3, <2>5
    <3>2. j \in abandoned \/ \E p \in Request : HasRow(p) /\ req[p].id = j
      BY <3>1 DEF Rows, PendingExplained
    <3>3. \A p \in Request : HasRow(p) /\ req[p].id = j => HasRow(p)' /\ req'[p].id = j
      BY <2>2, <3>1 DEF OneMoves, HasRow
    <3> QED
      BY <2>2, <3>2, <3>3
  <2>6. PendingExplained'
    BY <2>5 DEF PendingExplained
  <2> QED
    BY <2>4, <2>6 DEF Rows
<1> QED
  BY <1>1, <1>2, <1>3, <1>4 DEF Progress

LEMMA RowsKept == ASSUME TypeOK, Rows, Next PROVE Rows'
<1>1. ASSUME UNCHANGED <<req, log, abandoned>> PROVE Rows'
  BY <1>1 DEF Rows, IdsTyped, PendingExplained, HasRow
<1>2. ASSUME NEW S \in SUBSET Request, CutOff(S), \A p \in S : req'[p].at = "idle",
             \A p \in Request \ S : req'[p] = req[p], log' = log
      PROVE  Rows'
  <2>1. \A p \in S : HasRow(p) => req[p].id \in abandoned'
    BY <1>2 DEF CutOff
  <2>2. abandoned \subseteq abandoned'
    BY <1>2 DEF CutOff
  <2>3. \A p \in Request : HasRow(p)' => p \notin S /\ HasRow(p) /\ req'[p] = req[p]
    BY <1>2 DEF HasRow
  <2>4. \A p \in Request : HasRow(p) => p \in S \/ (HasRow(p)' /\ req'[p] = req[p])
    BY <1>2 DEF HasRow
  <2>5. IdsTyped'
    BY <2>3 DEF Rows, IdsTyped
  <2>6. ASSUME NEW j \in ReqId, log'[j].exists /\ ~log'[j].finished
        PROVE  j \in abandoned' \/ \E p \in Request : HasRow(p)' /\ req'[p].id = j
    <3>1. j \in abandoned \/ \E p \in Request : HasRow(p) /\ req[p].id = j
      BY <1>2, <2>6 DEF Rows, PendingExplained
    <3> QED
      BY <2>1, <2>2, <2>4, <3>1
  <2>7. PendingExplained'
    BY <2>6 DEF PendingExplained
  <2> QED
    BY <2>5, <2>7 DEF Rows
<1>3. ASSUME NEW q \in Request, Throws(q) PROVE Rows'
  <2>1. CutOff({q}) /\ log' = log /\ OneMoves(q) /\ req'[q].at = "idle"
    BY <1>3, Moved DEF Throws
  <2> QED
    BY <1>2, <2>1 DEF OneMoves
<1>4. CASE Restart
  <2>1. /\ CutOff(Request) /\ log' = log
        /\ \A p \in Request : req'[p].at = "idle"
    BY <1>4 DEF Restart, Idle
  <2> QED
    BY <1>2, <2>1
<1>5. CASE KeyStep /\ UNCHANGED chatVars
  BY <1>1, <1>5 DEF chatVars
<1>6. CASE Tock
  BY <1>1, <1>6 DEF Tock, chatVars
<1> QED
  BY <1>3, <1>4, <1>5, <1>6, RowsOfRequest DEF Next

-----------------------------------------------------------------------------
(* Secrets.                                                                *)

(* Most steps leave every key its secret and take no mark away.            *)
SecretsStay ==
    /\ \A k \in Key : /\ keys'[k].secret = keys[k].secret
                      /\ keys[k].revoked => keys'[k].revoked
                      /\ keys[k].isDemo => keys'[k].isDemo
                      /\ marking'[k] = marking[k] \/ marking'[k] = 0
    /\ issued' = issued /\ dead' = dead /\ demoOut' = demoOut

LEMMA StayKept ==
    ASSUME TypeOK, Secrets, DemoKeysAreMarked, SecretsStay
    PROVE  Secrets' /\ DemoKeysAreMarked'
<1>0. issued \in Nat
  BY DEF TypeOK, KeysTypeOK
<1>1. \A k \in Key : keys'[k].secret \in 0..issued' /\ marking'[k] \in 0..issued'
  BY <1>0 DEF Secrets, SecretsStay
<1>2. \A k, l \in Key : keys'[k].secret = keys'[l].secret /\ keys'[k].secret # 0 => k = l
  BY DEF Secrets, SecretsStay
<1>3. \A k \in Key : keys'[k].secret \in dead' => keys'[k].revoked
  BY DEF Secrets, SecretsStay
<1>4. \A k, l \in Key : marking'[k] # 0 /\ keys'[l].secret = marking'[k] => k = l
  BY DEF Secrets, SecretsStay
<1>5. DemoKeysAreMarked'
  BY DEF DemoKeysAreMarked, SecretsStay
<1> QED
  BY <1>1, <1>2, <1>3, <1>4, <1>5 DEF Secrets

(* A key gets a fresh secret; its old one may die.                         *)
FreshSecret(k) ==
    /\ issued' = issued + 1
    /\ keys'[k].secret = issued + 1
    /\ \A l \in Key \ {k} : keys'[l] = keys[l] /\ marking'[l] = marking[l]
    /\ marking'[k] = marking[k] \/ marking'[k] = issued + 1
    /\ dead' = dead \/ (Exists(k) /\ dead' = dead \cup {keys[k].secret})
    /\ demoOut' = demoOut

LEMMA FreshKept ==
    ASSUME TypeOK, Secrets, DemoKeysAreMarked, NEW k \in Key, FreshSecret(k)
    PROVE  Secrets' /\ DemoKeysAreMarked'
<1>0. /\ issued \in Nat /\ dead \subseteq 1..issued /\ demoOut \subseteq 1..issued
      /\ \A l \in Key : keys[l].secret \in 0..issued /\ marking[l] \in 0..issued
  BY DEF TypeOK, KeysTypeOK, Secrets
<1>1. issued + 1 \notin dead /\ issued + 1 \notin demoOut
  BY <1>0
<1>2. \A l \in Key : keys[l].secret # issued + 1 /\ marking[l] # issued + 1
  <2>1. \A n \in 0..issued : n # issued + 1
    BY <1>0
  <2> QED
    BY <1>0, <2>1
<1>3. issued + 1 \notin dead'
  BY <1>1, <1>2 DEF FreshSecret
<1>4. issued + 1 # 0 /\ issued + 1 \in 0..(issued + 1) /\ 0..issued \subseteq 0..(issued + 1)
  BY <1>0
<1>5. \A l \in Key : keys'[l].secret \in 0..issued' /\ marking'[l] \in 0..issued'
  BY <1>0, <1>4 DEF FreshSecret
<1>6. \A l, m \in Key : keys'[l].secret = keys'[m].secret /\ keys'[l].secret # 0 => l = m
  BY <1>2 DEF Secrets, FreshSecret
<1>7. \A l \in Key : keys'[l].secret \in dead' => keys'[l].revoked
  BY <1>3 DEF Secrets, FreshSecret, Exists
<1>8. ASSUME NEW l \in Key, NEW m \in Key, marking'[l] # 0, keys'[m].secret = marking'[l]
      PROVE  l = m
  <2>1. \A x \in Key : /\ x # k => keys'[x].secret = keys[x].secret /\ marking'[x] = marking[x]
                       /\ marking'[x] = marking[x] \/ (x = k /\ marking'[x] = issued + 1)
    BY DEF FreshSecret
  <2>2. CASE m = k
    BY <1>2, <1>8, <2>1, <2>2 DEF FreshSecret
  <2>3. CASE m # k
    BY <1>2, <1>8, <2>1, <2>3 DEF Secrets
  <2> QED
    BY <2>2, <2>3
<1>9. DemoKeysAreMarked'
  BY <1>1 DEF DemoKeysAreMarked, FreshSecret
<1> QED
  BY <1>5, <1>6, <1>7, <1>8, <1>9 DEF Secrets

LEMMA SecretsKept ==
    ASSUME TypeOK, Secrets, DemoKeysAreMarked, Next
    PROVE  Secrets' /\ DemoKeysAreMarked'
<1>0. /\ keys \in [Key -> Row] /\ marking \in [Key -> Nat]
      /\ \A k \in Key : keys[k] \in Row
  BY DEF TypeOK, KeysTypeOK
<1>1. ASSUME keys' = keys, UNCHANGED <<issued, dead, demoOut>>,
             \A k \in Key : marking'[k] = marking[k] \/ marking'[k] = 0
      PROVE  Secrets' /\ DemoKeysAreMarked'
  BY <1>1, StayKept DEF SecretsStay
<1>2. ASSUME NEW q \in Request, Resolve(q) \/ Progress(q) \/ Throws(q)
      PROVE  Secrets' /\ DemoKeysAreMarked'
  <2>1. CASE TouchUsage(q)
    <3>1. \A k \in Key : /\ keys'[k].secret = keys[k].secret
                         /\ keys'[k].revoked = keys[k].revoked
                         /\ keys'[k].isDemo = keys[k].isDemo
      BY <1>0, <2>1 DEF TouchUsage, Row
    <3>2. UNCHANGED <<issued, dead, demoOut, marking>>
      BY <2>1 DEF TouchUsage
    <3> QED
      BY <3>1, <3>2, StayKept DEF SecretsStay
  <2>2. CASE ~TouchUsage(q)
    <3>1. UNCHANGED keyVars
      BY <1>2, <2>2 DEF Resolve, Progress, Throws, Admit, OrgRpm, DemoQuota, StartLog,
            StreamRefused, ExecuteOk, ExecuteStream, ExecuteFailed, FinishLog, StartEmbedding, Embed
    <3> QED
      BY <1>1, <3>1 DEF keyVars
  <2> QED
    BY <2>1, <2>2
<1>3. CASE Tock
  BY <1>1, <1>3 DEF Tock
<1>4. CASE Restart
  BY <1>1, <1>4 DEF Restart
<1>5. CASE DemoRefused
  BY <1>1, <1>5 DEF DemoRefused, keyVars
<1>6. ASSUME NEW k \in Key, NEW limits, NEW org, NewKey(k, limits, org)
      PROVE  /\ issued' = issued + 1 /\ keys'[k].secret = issued + 1
             /\ \A l \in Key \ {k} : keys'[l] = keys[l]
  BY <1>0, <1>6 DEF NewKey, NoKey
<1>7. ASSUME NEW k \in Key, CreateKey(k) PROVE Secrets' /\ DemoKeysAreMarked'
  <2>1. FreshSecret(k)
    BY <1>6, <1>7 DEF CreateKey, FreshSecret
  <2> QED
    BY <2>1, FreshKept
<1>8. ASSUME NEW k \in Key, DemoCreate(k) PROVE Secrets' /\ DemoKeysAreMarked'
  <2>1. marking'[k] = issued + 1 /\ \A l \in Key \ {k} : marking'[l] = marking[l]
    BY <1>0, <1>8 DEF DemoCreate
  <2>2. FreshSecret(k)
    BY <1>6, <1>8, <2>1 DEF DemoCreate, FreshSecret
  <2> QED
    BY <2>2, FreshKept
<1>9. ASSUME NEW k \in Key, DemoMark(k) PROVE Secrets' /\ DemoKeysAreMarked'
  <2>1. /\ \A l \in Key : keys'[l].secret = keys[l].secret /\ keys'[l].revoked = keys[l].revoked
        /\ keys'[k].isDemo /\ \A l \in Key \ {k} : keys'[l] = keys[l]
    BY <1>0, <1>9 DEF DemoMark, Row
  <2>2. /\ \A l \in Key : marking'[l] = marking[l] \/ marking'[l] = 0
        /\ issued' = issued /\ dead' = dead /\ demoOut' = demoOut \cup {marking[k]} /\ marking[k] # 0
    BY <1>0, <1>9 DEF DemoMark
  <2>3. \A l \in Key : keys'[l].secret \in 0..issued' /\ marking'[l] \in 0..issued'
    <3>1. issued \in Nat
      BY DEF TypeOK, KeysTypeOK
    <3> QED
      BY <2>1, <2>2, <3>1 DEF Secrets
  <2>4. \A l, m \in Key : keys'[l].secret = keys'[m].secret /\ keys'[l].secret # 0 => l = m
    BY <2>1 DEF Secrets
  <2>5. \A l \in Key : keys'[l].secret \in dead' => keys'[l].revoked
    BY <2>1, <2>2 DEF Secrets
  <2>6. \A l, m \in Key : marking'[l] # 0 /\ keys'[m].secret = marking'[l] => l = m
    BY <2>1, <2>2 DEF Secrets
  <2>7. DemoKeysAreMarked'
    BY <2>1, <2>2 DEF DemoKeysAreMarked, Secrets
  <2> QED
    BY <2>3, <2>4, <2>5, <2>6, <2>7 DEF Secrets
<1>10. ASSUME NEW k \in Key, DemoMarkFails(k) PROVE Secrets' /\ DemoKeysAreMarked'
  BY <1>0, <1>1, <1>10 DEF DemoMarkFails
<1>11. ASSUME NEW k \in Key, Patch(k) \/ Expires(k) PROVE Secrets' /\ DemoKeysAreMarked'
  <2> DEFINE Same == \A l \in Key : /\ keys'[l].secret = keys[l].secret
                                    /\ keys'[l].revoked = keys[l].revoked
                                    /\ keys'[l].isDemo = keys[l].isDemo
  <2>1. Same
    <3>1. CASE Expires(k)
      BY <1>0, <3>1 DEF Expires, Row
    <3>2. CASE Patch(k)
      <4>1. ASSUME NEW b \in BOOLEAN, keys' = [keys EXCEPT ![k].enabled = b] PROVE Same
        BY <1>0, <4>1 DEF Row
      <4>2. ASSUME NEW b \in BOOLEAN, keys' = [keys EXCEPT ![k].expired = b] PROVE Same
        BY <1>0, <4>2 DEF Row
      <4>3. ASSUME NEW limits \in Limits, NEW b \in BOOLEAN,
                   keys' = [keys EXCEPT ![k].limits = limits, ![k].streaming = b]
            PROVE  Same
        BY <1>0, <4>3 DEF Row
      <4> HIDE DEF Same
      <4> QED
        BY <3>2, <4>1, <4>2, <4>3 DEF Patch
    <3> QED
      BY <1>11, <3>1, <3>2
  <2>2. UNCHANGED <<issued, dead, demoOut, marking>>
    BY <1>11 DEF Patch, Expires
  <2> QED
    BY <2>1, <2>2, StayKept DEF SecretsStay
<1>12. ASSUME NEW k \in Key, Revoke(k) PROVE Secrets' /\ DemoKeysAreMarked'
  <2>1. /\ \A l \in Key : keys'[l].secret = keys[l].secret /\ keys'[l].isDemo = keys[l].isDemo
        /\ keys'[k].revoked /\ \A l \in Key \ {k} : keys'[l] = keys[l]
    BY <1>0, <1>12 DEF Revoke, Row
  <2>2. /\ UNCHANGED <<issued, demoOut, marking>>
        /\ keys[k].secret # 0 /\ dead' = dead \cup {keys[k].secret}
    BY <1>12 DEF Revoke, Exists
  <2>3. \A l \in Key : keys'[l].secret \in 0..issued' /\ marking'[l] \in 0..issued'
    BY <2>1, <2>2 DEF Secrets
  <2>4. \A l, m \in Key : keys'[l].secret = keys'[m].secret /\ keys'[l].secret # 0 => l = m
    BY <2>1 DEF Secrets
  <2>5. \A l \in Key : keys'[l].secret \in dead' => keys'[l].revoked
    BY <2>1, <2>2 DEF Secrets
  <2>6. \A l, m \in Key : marking'[l] # 0 /\ keys'[m].secret = marking'[l] => l = m
    BY <2>1, <2>2 DEF Secrets
  <2>7. DemoKeysAreMarked'
    BY <2>1, <2>2 DEF DemoKeysAreMarked
  <2> QED
    BY <2>3, <2>4, <2>5, <2>6, <2>7 DEF Secrets
<1>13. ASSUME NEW k \in Key, Rotate(k) PROVE Secrets' /\ DemoKeysAreMarked'
  <2>1. keys'[k].secret = issued + 1 /\ \A l \in Key \ {k} : keys'[l] = keys[l]
    BY <1>0, <1>13 DEF Rotate, Row
  <2>2. FreshSecret(k)
    BY <1>13, <2>1 DEF Rotate, FreshSecret
  <2> QED
    BY <2>2, FreshKept
<1> QED
  BY <1>2, <1>3, <1>4, <1>5, <1>7, <1>8, <1>9, <1>10, <1>11, <1>12, <1>13 DEF Next, KeyStep

-----------------------------------------------------------------------------
(* The invariant.                                                          *)

LEMMA Initially == Init => Inv
<1> SUFFICES ASSUME Init PROVE Inv
  OBVIOUS
<1>1. TypeOK /\ Clocked
  BY InitTypes, RateAssumption DEF Init, RateInit, Clocked
<1>2. IdsTyped /\ PendingExplained
  BY DEF Init, IdsTyped, PendingExplained, HasRow, Idle, NoLog
<1>3. Secrets /\ DemoKeysAreMarked
  BY DEF Init, KeysInit, NoKey, Secrets, DemoKeysAreMarked
<1> QED
  BY <1>1, <1>2, <1>3 DEF Inv

LEMMA Stepwise == Inv /\ [Next]_vars => Inv'
<1> SUFFICES ASSUME Inv, [Next]_vars PROVE Inv'
  OBVIOUS
<1>1. CASE Next
  <2>1. TypeOK' /\ Clocked'
    BY <1>1, Types, ClockKept DEF Inv
  <2>2. Secrets' /\ DemoKeysAreMarked'
    BY <1>1, SecretsKept DEF Inv
  <2>3. IdsTyped' /\ PendingExplained'
    BY <1>1, RowsKept DEF Inv, Rows
  <2> QED
    BY <2>1, <2>2, <2>3 DEF Inv
<1>2. CASE UNCHANGED vars
  <2>1. /\ now' = now /\ rpmBuckets' = rpmBuckets /\ dayBuckets' = dayBuckets /\ kv' = kv
        /\ keys' = keys /\ issued' = issued /\ known' = known /\ marking' = marking
        /\ demoOut' = demoOut /\ dead' = dead /\ patches' = patches /\ faults' = faults
        /\ req' = req /\ log' = log /\ abandoned' = abandoned /\ calls' = calls
    BY <1>2 DEF vars, rateVars, keyVars, chatVars
  <2>2. TypeOK' /\ Clocked'
    BY <2>1 DEF Inv, TypeOK, Clocked, RateTypeOK, KeysTypeOK
  <2>3. Secrets' /\ DemoKeysAreMarked'
    BY <2>1 DEF Inv, Secrets, DemoKeysAreMarked
  <2>4. IdsTyped' /\ PendingExplained'
    BY <2>1 DEF Inv, IdsTyped, PendingExplained, HasRow
  <2> QED
    BY <2>2, <2>3, <2>4 DEF Inv
<1> QED
  BY <1>1, <1>2

LEMMA SecretsSuffice == ASSUME Inv PROVE RequestsInOrder /\ PendingExplained
<1>1. DeadSecretsStayDead
  BY DEF Inv, Secrets, DeadSecretsStayDead, Usable
<1> QED
  BY <1>1 DEF Inv, RequestsInOrder, KeysInOrder

(* The types, who has a log row, whom a secret belongs to: with any number *)
(* of keys, requests, failing queries and restarts.                        *)
THEOREM Invariance == Spec => []Inv
  BY Initially, Stepwise, PTL DEF Spec

(* A secret that was revoked or rotated away opens nothing ever again, and *)
(* one the demo route gave out opens a key that carries the demo mark      *)
(* (VirtualKeyService.revoke, rotate, patch; POST /public/demo-key).       *)
THEOREM RequestsInOrderHolds == Spec => []RequestsInOrder
  BY Invariance, SecretsSuffice, PTL

(* A log row stays unfinished only while a request is going to finish it,  *)
(* or because a failing query or a restart cut its request off             *)
(* (RequestLogger.start and finish).                                       *)
THEOREM PendingExplainedHolds == Spec => []PendingExplained
  BY Invariance, SecretsSuffice, PTL

-----------------------------------------------------------------------------
(* Quotas.  What a window lets through is a sum over ticks; a history      *)
(* counts a request at the tick it is made.                                *)
Ticks(from, to) == {t \in 0..MaxTime : from <= t /\ t <= to}
History == [0..MaxTime -> Nat]
OneMore(f, m) == [f EXCEPT ![m] = @ + 1]

LEMMA Sums ==
    ASSUME NEW f \in History, NEW from \in Int, NEW to \in Int
    PROVE  /\ Between(f, from, to) = SumOver(f, Ticks(from, to))
           /\ Between(f, from, to) \in Nat
           /\ IsFiniteSet(Ticks(from, to))
           /\ \A t \in Ticks(from, to) : f[t] \in Nat
<1>1. Between(f, from, to) = SumOver(f, Ticks(from, to))
  BY DEF Between, SumOver, Ticks, MapThenSumSet, MapThenFoldSet
<1>2. IsFiniteSet(Ticks(from, to))
  <2>1. IsFiniteSet(0..MaxTime)
    BY RateAssumption, FS_Interval
  <2> QED
    BY <2>1, FS_Subset DEF Ticks
<1>3. \A t \in Ticks(from, to) : f[t] \in Nat
  BY DEF Ticks, History
<1>4. SumOver(f, Ticks(from, to)) \in Nat
  BY <1>2, <1>3, SumType
<1> QED
  BY <1>1, <1>2, <1>3, <1>4

LEMMA SumWithin ==
    ASSUME NEW f \in History, NEW a \in Int, NEW b \in Int, NEW c \in Int, NEW d \in Int,
           a >= c, b <= d \/ d >= MaxTime
    PROVE  Between(f, a, b) <= Between(f, c, d)
<1>1. Ticks(a, b) \in SUBSET Ticks(c, d)
  BY RateAssumption DEF Ticks
<1> QED
  BY <1>1, Sums, SumSubset

LEMMA SumSplit ==
    ASSUME NEW f \in History, NEW a \in Int, NEW b \in Int, NEW c \in Int, a <= c, c - 1 <= b
    PROVE  Between(f, a, b) = Between(f, a, c - 1) + Between(f, c, b)
<1> DEFINE S == Ticks(a, b)
           T == Ticks(a, c - 1)
<1>1. T \in SUBSET S /\ S \ T = Ticks(c, b)
  BY RateAssumption DEF Ticks
<1>2. IsFiniteSet(S) /\ \A t \in S : f[t] \in Nat
  BY Sums
<1>3. SumOver(f, S) = SumOver(f, T) + SumOver(f, S \ T)
  <2> HIDE DEF S, T
  <2> QED
    BY <1>1, <1>2, SumUnion
<1>4. /\ Between(f, a, b) = SumOver(f, S) /\ Between(f, a, c - 1) = SumOver(f, T)
      /\ Between(f, c, b) = SumOver(f, Ticks(c, b))
  BY Sums
<1> QED
  BY <1>1, <1>3, <1>4

LEMMA SumOfNothing ==
    ASSUME NEW f \in History, NEW a \in Int, NEW b \in Int,
           \A t \in 0..MaxTime : a <= t /\ t <= b => f[t] = 0
    PROVE  Between(f, a, b) = 0
<1>1. \A t \in Ticks(a, b) : f[t] = 0
  BY DEF Ticks
<1> QED
  BY <1>1, Sums, SumZero

LEMMA SumOneMore ==
    ASSUME NEW f \in History, NEW m \in 0..MaxTime, NEW a \in Int, NEW b \in Int
    PROVE  /\ OneMore(f, m) \in History
           /\ Between(OneMore(f, m), a, b) =
                  Between(f, a, b) + (IF a <= m /\ m <= b THEN 1 ELSE 0)
<1>1. PICK g : g = OneMore(f, m)
  OBVIOUS
<1>2. /\ g \in History /\ f[m] \in Nat /\ g[m] = f[m] + 1
      /\ \A t \in (0..MaxTime) \ {m} : g[t] = f[t]
  BY <1>1 DEF OneMore, History
<1> DEFINE S == Ticks(a, b)
<1>3. IsFiniteSet(S) /\ (\A t \in S : f[t] \in Nat) /\ (\A t \in S : g[t] \in Nat)
  BY <1>2, Sums
<1>4. Between(f, a, b) = SumOver(f, S) /\ Between(g, a, b) = SumOver(g, S)
  BY <1>2, Sums
<1>5. CASE a <= m /\ m <= b
  <2>1. m \in S /\ \A t \in S \ {m} : g[t] = f[t]
    BY <1>2, <1>5 DEF Ticks
  <2>2. SumOver(f, S) = f[m] + SumOver(f, S \ {m}) /\ SumOver(g, S) = g[m] + SumOver(g, S \ {m})
    <3> HIDE DEF S
    <3> QED
      BY <1>3, <2>1, SumRemove
  <2> DEFINE R == S \ {m}
  <2>3. IsFiniteSet(R) /\ \A t \in R : f[t] \in Nat /\ g[t] = f[t]
    BY <1>3, <2>1, FS_Subset
  <2>4. SumOver(g, R) = SumOver(f, R) /\ SumOver(f, R) \in Nat
    <3> HIDE DEF R
    <3> QED
      BY <2>3, SumEqual, SumType
  <2>5. SumOver(g, S) = SumOver(f, S) + 1
    BY <1>2, <2>2, <2>4
  <2> QED
    BY <1>1, <1>2, <1>4, <1>5, <2>5
<1>6. CASE ~(a <= m /\ m <= b)
  <2>1. \A t \in S : g[t] = f[t]
    BY <1>2, <1>6 DEF Ticks
  <2>2. SumOver(g, S) = SumOver(f, S) /\ SumOver(f, S) \in Nat
    <3> HIDE DEF S
    <3> QED
      BY <1>3, <2>1, SumEqual, SumType
  <2> QED
    BY <1>1, <1>2, <1>4, <1>6, <2>2
<1> QED
  BY <1>5, <1>6

-----------------------------------------------------------------------------
(* A fixed window that began at s and let n through, at time m, with the   *)
(* ticks R at which it refused.  The two promises need the third: what may *)
(* still be let through in the stretches that begin before s is what the   *)
(* ticks before s leave of two limits.                                     *)
FixedWindow(f, R, s, n, span, m) ==
    /\ s <= m /\ n <= Limit
    /\ n = 0 => \A t \in 0..MaxTime : f[t] = 0
    /\ Between(f, s, MaxTime) = n
    /\ \A t \in 0..MaxTime : t > s + span \/ t > m => f[t] = 0
    /\ \A t \in 0..MaxTime : t >= s - span => Between(f, t, s - 1) <= Limit
    /\ AtMostTwice(f, span)
    /\ RefusedForCause(f, R, span)

LEMMA TwiceFromWindow ==
    ASSUME NEW f \in History, NEW s \in Int, NEW n \in Nat, NEW span \in Nat, NEW m \in 0..MaxTime,
           s <= m, n <= Limit, Between(f, s, MaxTime) = n,
           \A t \in 0..MaxTime : t >= s - span => Between(f, t, s - 1) <= Limit,
           NEW t \in 0..MaxTime, t >= m - span
    PROVE  Between(f, t, t + span) <= 2 * Limit
<1>0. Limit \in Nat /\ MaxTime \in Nat
  BY RateAssumption, WindowAssumption
<1>1. CASE s <= t
  <2>1. Between(f, t, t + span) <= Between(f, s, MaxTime)
    BY <1>0, <1>1, SumWithin
  <2>2. Between(f, t, t + span) \in Nat
    BY Sums
  <2> QED
    BY <1>0, <2>1, <2>2
<1>2. CASE t < s
  <2>1. Between(f, t, t + span) = Between(f, t, s - 1) + Between(f, s, t + span)
    BY <1>2, SumSplit
  <2>2. Between(f, s, t + span) <= Between(f, s, MaxTime)
    BY <1>0, SumWithin
  <2>3. Between(f, t, s - 1) <= Limit
    BY <1>2
  <2>4. Between(f, t, s - 1) \in Nat /\ Between(f, s, t + span) \in Nat
    BY Sums
  <2> QED
    BY <1>0, <2>1, <2>2, <2>3, <2>4
<1> QED
  BY <1>1, <1>2

(* One more at m keeps what the stretches without m and the refusals show. *)
LEMMA OneMoreKeeps ==
    ASSUME NEW f \in History, NEW R \in SUBSET (0..MaxTime), NEW span \in Nat, NEW m \in 0..MaxTime,
           AtMostTwice(f, span), RefusedForCause(f, R, span),
           \A t \in 0..MaxTime : t >= m - span => Between(OneMore(f, m), t, t + span) <= 2 * Limit
    PROVE  AtMostTwice(OneMore(f, m), span) /\ RefusedForCause(OneMore(f, m), R, span)
<1>0. Limit \in Nat /\ MaxTime \in Nat
  BY RateAssumption, WindowAssumption
<1>1. ASSUME NEW t \in 0..MaxTime, t < m - span
      PROVE  Between(OneMore(f, m), t, t + span) <= 2 * Limit
  <2>1. Between(OneMore(f, m), t, t + span) = Between(f, t, t + span)
    BY <1>0, <1>1, SumOneMore, Sums
  <2> QED
    BY <2>1 DEF AtMostTwice
<1>2. AtMostTwice(OneMore(f, m), span)
  BY <1>1 DEF AtMostTwice
<1>3. ASSUME NEW t \in R PROVE Between(OneMore(f, m), t - span, t) >= Limit
  <2>1. Between(OneMore(f, m), t - span, t) =
            Between(f, t - span, t) + (IF t - span <= m /\ m <= t THEN 1 ELSE 0)
    BY <1>0, SumOneMore
  <2>2. Between(f, t - span, t) \in Nat /\ Between(f, t - span, t) >= Limit
    BY <1>0, Sums DEF RefusedForCause
  <2> QED
    BY <1>0, <2>1, <2>2
<1> QED
  BY <1>2, <1>3 DEF RefusedForCause

(* The first request of a window: the last one is over, or there was none. *)
LEMMA WindowOpens ==
    ASSUME NEW f \in History, NEW R \in SUBSET (0..MaxTime), NEW s \in Int, NEW n \in Nat,
           NEW span \in Nat, NEW m \in 0..MaxTime, FixedWindow(f, R, s, n, span, m),
           n = 0 \/ m > s + span
    PROVE  FixedWindow(OneMore(f, m), R, m, 1, span, m)
<1>0. Limit \in Nat /\ Limit >= 1 /\ MaxTime \in Nat
  BY RateAssumption, WindowAssumption
<1>1. PICK g : g = OneMore(f, m)
  OBVIOUS
<1>2. g \in History /\ \A t \in 0..MaxTime : t # m => g[t] = f[t]
  BY <1>1 DEF OneMore, History
<1>3. \A t \in 0..MaxTime : t >= m => f[t] = 0
  BY <1>0 DEF FixedWindow
<1>4. Between(g, m, MaxTime) = 1
  <2>1. Between(f, m, MaxTime) = 0
    BY <1>0, <1>3, SumOfNothing
  <2> QED
    BY <1>0, <1>1, <2>1, SumOneMore
<1>5. \A t \in 0..MaxTime : t > m + span \/ t > m => g[t] = 0
  BY <1>2, <1>3
<1>6. ASSUME NEW t \in 0..MaxTime, t >= m - span PROVE Between(g, t, m - 1) <= Limit
  <2>1. Between(g, t, m - 1) = Between(f, t, m - 1)
    BY <1>0, <1>1, SumOneMore, Sums
  <2>2. CASE n = 0
    <3>1. Between(f, t, m - 1) = 0
      BY <2>2, SumOfNothing DEF FixedWindow
    <3> QED
      BY <1>0, <2>1, <3>1
  <2>3. CASE m > s + span
    <3>1. Between(f, t, m - 1) <= Between(f, s, MaxTime)
      BY <1>0, <1>6, <2>3, SumWithin
    <3>2. Between(f, t, m - 1) \in Nat /\ Between(f, s, MaxTime) = n /\ n <= Limit
      BY <1>0, Sums DEF FixedWindow
    <3> QED
      BY <1>0, <2>1, <3>1, <3>2
  <2> QED
    BY <2>2, <2>3
<1>7. ASSUME NEW t \in 0..MaxTime, t >= m - span PROVE Between(g, t, t + span) <= 2 * Limit
  <2>1. m \in Int /\ m <= m /\ 1 \in Nat /\ 1 <= Limit
    BY <1>0
  <2> QED
    BY <1>2, <1>4, <1>6, <1>7, <2>1, TwiceFromWindow
<1>8. AtMostTwice(g, span) /\ RefusedForCause(g, R, span)
  <2>1. AtMostTwice(f, span) /\ RefusedForCause(f, R, span)
    BY DEF FixedWindow
  <2> QED
    BY <1>1, <1>7, <2>1, OneMoreKeeps
<1>9. FixedWindow(g, R, m, 1, span, m)
  BY <1>0, <1>4, <1>5, <1>6, <1>8 DEF FixedWindow
<1> QED
  BY <1>1, <1>9

(* A further one within its limit.                                         *)
LEMMA WindowCounts ==
    ASSUME NEW f \in History, NEW R \in SUBSET (0..MaxTime), NEW s \in Int, NEW n \in Nat,
           NEW span \in Nat, NEW m \in 0..MaxTime, FixedWindow(f, R, s, n, span, m),
           m <= s + span, n < Limit
    PROVE  FixedWindow(OneMore(f, m), R, s, n + 1, span, m)
<1>0. Limit \in Nat /\ MaxTime \in Nat /\ s <= m
  BY RateAssumption, WindowAssumption DEF FixedWindow
<1>1. PICK g : g = OneMore(f, m)
  OBVIOUS
<1>2. g \in History /\ \A t \in 0..MaxTime : t # m => g[t] = f[t]
  BY <1>1 DEF OneMore, History
<1>4. Between(g, s, MaxTime) = n + 1
  <2>1. Between(f, s, MaxTime) = n
    BY DEF FixedWindow
  <2> QED
    BY <1>0, <1>1, <2>1, SumOneMore
<1>5. \A t \in 0..MaxTime : t > s + span \/ t > m => g[t] = 0
  BY <1>2 DEF FixedWindow
<1>6. ASSUME NEW t \in 0..MaxTime, t >= s - span PROVE Between(g, t, s - 1) <= Limit
  <2>1. Between(g, t, s - 1) = Between(f, t, s - 1)
    BY <1>0, <1>1, SumOneMore, Sums
  <2> QED
    BY <1>6, <2>1 DEF FixedWindow
<1>7. ASSUME NEW t \in 0..MaxTime, t >= m - span PROVE Between(g, t, t + span) <= 2 * Limit
  <2>1. n + 1 \in Nat /\ n + 1 <= Limit
    BY <1>0
  <2> QED
    BY <1>0, <1>2, <1>4, <1>6, <1>7, <2>1, TwiceFromWindow
<1>8. AtMostTwice(g, span) /\ RefusedForCause(g, R, span)
  <2>1. AtMostTwice(f, span) /\ RefusedForCause(f, R, span)
    BY DEF FixedWindow
  <2> QED
    BY <1>1, <1>7, <2>1, OneMoreKeeps
<1>9. FixedWindow(g, R, s, n + 1, span, m)
  <2>1. n + 1 <= Limit /\ n + 1 # 0
    BY <1>0
  <2> QED
    BY <1>0, <1>4, <1>5, <1>6, <1>8, <2>1 DEF FixedWindow
<1> QED
  BY <1>1, <1>9

(* A refusal.                                                              *)
LEMMA WindowRefuses ==
    ASSUME NEW f \in History, NEW R \in SUBSET (0..MaxTime), NEW s \in Int, NEW n \in Nat,
           NEW span \in Nat, NEW m \in 0..MaxTime, FixedWindow(f, R, s, n, span, m),
           m <= s + span, n = Limit
    PROVE  FixedWindow(f, R \cup {m}, s, n, span, m)
<1>0. Limit \in Nat /\ MaxTime \in Nat /\ s <= m /\ Between(f, s, MaxTime) = Limit
  BY RateAssumption, WindowAssumption DEF FixedWindow
<1>1. Between(f, m + 1, MaxTime) = 0
  <2>1. \A t \in 0..MaxTime : m + 1 <= t /\ t <= MaxTime => f[t] = 0
    BY <1>0 DEF FixedWindow
  <2> QED
    BY <1>0, <2>1, SumOfNothing
<1>2. Between(f, s, MaxTime) = Between(f, s, m) + Between(f, m + 1, MaxTime)
  <2>1. Between(f, s, MaxTime) = Between(f, s, (m + 1) - 1) + Between(f, m + 1, MaxTime)
    BY <1>0, SumSplit
  <2>2. (m + 1) - 1 = m
    OBVIOUS
  <2> QED
    BY <2>1, <2>2
<1>3. Between(f, s, m) <= Between(f, m - span, m)
  BY <1>0, SumWithin
<1>4. Between(f, m - span, m) >= Limit
  <2>1. Between(f, s, m) \in Nat /\ Between(f, m - span, m) \in Nat
    BY <1>0, Sums
  <2> QED
    BY <1>0, <1>1, <1>2, <1>3, <2>1
<1>5. RefusedForCause(f, R \cup {m}, span)
  BY <1>4 DEF RefusedForCause, FixedWindow
<1> QED
  BY <1>5 DEF FixedWindow

LEMMA WindowAges ==
    ASSUME NEW f, NEW R, NEW s \in Int, NEW n, NEW span, NEW m \in Nat, FixedWindow(f, R, s, n, span, m)
    PROVE  FixedWindow(f, R, s, n, span, m + 1)
<1>1. s <= m + 1 /\ \A t \in 0..MaxTime : t > m + 1 => t > m
  BY RateAssumption DEF FixedWindow
<1> QED
  BY <1>1 DEF FixedWindow

(* Before the first request.                                               *)
LEMMA WindowBegins ==
    ASSUME NEW f \in History, \A t \in 0..MaxTime : f[t] = 0, NEW s \in Int, s <= 0, NEW span \in Nat
    PROVE  FixedWindow(f, {}, s, 0, span, 0)
<1>0. Limit \in Nat /\ MaxTime \in Nat
  BY RateAssumption, WindowAssumption
<1>1. \A a \in Int, b \in Int : Between(f, a, b) = 0
  BY SumOfNothing
<1>2. AtMostTwice(f, span) /\ RefusedForCause(f, {}, span)
  BY <1>0, <1>1 DEF AtMostTwice, RefusedForCause
<1>3. /\ Between(f, s, MaxTime) = 0
      /\ \A t \in 0..MaxTime : Between(f, t, s - 1) <= Limit
  BY <1>0, <1>1
<1> QED
  BY <1>0, <1>2, <1>3 DEF FixedWindow

-----------------------------------------------------------------------------
(* What passed on a day.                                                   *)

LEMMA DaySums ==
    ASSUME NEW f \in History, NEW t \in Nat, NEW m \in 0..MaxTime
    PROVE  /\ OnDayOf(f, t) \in Nat
           /\ OnDayOf(OneMore(f, m), t) = OnDayOf(f, t) + (IF DayNo(m) = DayNo(t) THEN 1 ELSE 0)
           /\ DayNo(m) = DayNo(t) => OnDayOf(f, m) = OnDayOf(f, t)
<1> DEFINE a == DayNo(t) * Day
           b == DayNo(t) * Day + Day - 1
<1>1. m \in Nat /\ Day \in Nat /\ a \in Nat /\ b \in Int
  BY RateAssumption, Days
<1>2. \A g : OnDayOf(g, t) = Between(g, a, b)
  BY DEF OnDayOf, DayNo
<1>3. (a <= m /\ m <= b) <=> DayNo(m) = DayNo(t)
  BY <1>1, Days
<1>4. DayNo(m) = DayNo(t) => OnDayOf(f, m) = OnDayOf(f, t)
  BY DEF OnDayOf, DayNo
<1> HIDE DEF a, b
<1>5. Between(f, a, b) \in Nat
  BY <1>1, Sums
<1>6. Between(OneMore(f, m), a, b) = Between(f, a, b) + (IF a <= m /\ m <= b THEN 1 ELSE 0)
  BY <1>1, SumOneMore
<1> QED
  BY <1>2, <1>3, <1>4, <1>5, <1>6

(* The count n of the bucket of the given day, at time m, with the ticks R *)
(* at which it refused.                                                    *)
DayCount(f, R, day, n, m) ==
    /\ day <= 1 + DayNo(m) /\ n <= Limit
    /\ OnDayOf(f, m) = IF day = 1 + DayNo(m) THEN n ELSE 0
    /\ \A t \in 0..MaxTime : t > m => f[t] = 0
    /\ \A t \in R : t <= m
    /\ DailyLimitExact(f, R)

LEMMA DayCounts ==
    ASSUME NEW f \in History, NEW R \in SUBSET (0..MaxTime), NEW day \in Nat, NEW n \in Nat,
           NEW m \in 0..MaxTime, DayCount(f, R, day, n, m), NEW k \in Nat,
           k = IF day = 1 + DayNo(m) THEN n ELSE 0, k < Limit
    PROVE  DayCount(OneMore(f, m), R, 1 + DayNo(m), k + 1, m)
<1>0. Limit \in Nat /\ MaxTime \in Nat /\ m \in Nat /\ DayNo(m) \in Nat
  BY RateAssumption, WindowAssumption, Days
<1>1. PICK g : g = OneMore(f, m)
  OBVIOUS
<1>2. g \in History /\ \A t \in 0..MaxTime : t # m => g[t] = f[t]
  BY <1>1 DEF OneMore, History
<1>3. OnDayOf(f, m) = k
  BY DEF DayCount
<1>4. OnDayOf(g, m) = k + 1
  BY <1>0, <1>1, <1>3, DaySums
<1>5. ASSUME NEW t \in 0..MaxTime
      PROVE  OnDayOf(g, t) <= Limit /\ (t \in R => OnDayOf(g, t) = Limit)
  <2>1. OnDayOf(g, t) = OnDayOf(f, t) + (IF DayNo(m) = DayNo(t) THEN 1 ELSE 0)
    BY <1>0, <1>1, DaySums
  <2>2. DayNo(m) = DayNo(t) => OnDayOf(f, t) = k
    BY <1>0, <1>3, DaySums
  <2>3. OnDayOf(f, t) \in Nat /\ OnDayOf(f, t) <= Limit /\ (t \in R => OnDayOf(f, t) = Limit)
    BY <1>0, DaySums DEF DayCount, DailyLimitExact
  <2> QED
    BY <1>0, <2>1, <2>2, <2>3
<1>6. DailyLimitExact(g, R)
  BY <1>5 DEF DailyLimitExact
<1>7. DayCount(g, R, 1 + DayNo(m), k + 1, m)
  BY <1>0, <1>2, <1>4, <1>6 DEF DayCount
<1> QED
  BY <1>1, <1>7

LEMMA DayRefuses ==
    ASSUME NEW f \in History, NEW R \in SUBSET (0..MaxTime), NEW day \in Nat, NEW n \in Nat,
           NEW m \in 0..MaxTime, DayCount(f, R, day, n, m), day = 1 + DayNo(m), n = Limit
    PROVE  DayCount(f, R \cup {m}, day, n, m)
BY DEF DayCount, DailyLimitExact

(* Another field of the bucket, or the day's tokens, open the day.         *)
LEMMA DayOpens ==
    ASSUME NEW f, NEW R, NEW day \in Nat, NEW n \in Nat, NEW m \in Nat,
           DayCount(f, R, day, n, m), day # 1 + DayNo(m)
    PROVE  DayCount(f, R, 1 + DayNo(m), 0, m)
<1>1. Limit \in Nat /\ DayNo(m) \in Nat
  BY WindowAssumption, Days
<1> QED
  BY <1>1 DEF DayCount

LEMMA DayAges ==
    ASSUME NEW f \in History, NEW R \in SUBSET (0..MaxTime), NEW day \in Nat, NEW n \in Nat,
           NEW m \in 0..MaxTime, m < MaxTime, DayCount(f, R, day, n, m)
    PROVE  DayCount(f, R, day, n, m + 1)
<1>0. /\ MaxTime \in Nat /\ m \in Nat /\ m + 1 \in Nat /\ m + 1 \in 0..MaxTime
      /\ DayNo(m) \in Nat /\ DayNo(m + 1) \in Nat /\ DayNo(m) <= DayNo(m + 1)
  <2>1. MaxTime \in Nat /\ m \in Nat /\ m + 1 \in Nat /\ m + 1 \in 0..MaxTime /\ m <= m + 1
    BY RateAssumption
  <2> QED
    BY <2>1, Days
<1>1. \A t \in 0..MaxTime : t > m + 1 => f[t] = 0
  BY <1>0 DEF DayCount
<1>2. \A t \in R : t <= m + 1
  BY <1>0 DEF DayCount
<1>3. CASE DayNo(m + 1) = DayNo(m)
  <2>1. OnDayOf(f, m + 1) = OnDayOf(f, m)
    BY <1>0, <1>3, DaySums
  <2> QED
    BY <1>0, <1>1, <1>2, <1>3, <2>1 DEF DayCount
<1>4. CASE DayNo(m + 1) # DayNo(m)
  <2> DEFINE a == DayNo(m + 1) * Day
             b == a + Day - 1
  <2>1. a \in Nat /\ b \in Int /\ a <= m + 1 /\ m + 1 <= b /\ ~(a <= m /\ m <= b)
    <3>1. a \in Nat /\ Day \in Nat
      BY <1>0, RateAssumption, Days
    <3>2. a <= m + 1 /\ m + 1 <= b
      BY <1>0, Days
    <3>3. ~(a <= m /\ m <= b)
      BY <1>0, <1>4, Days
    <3> HIDE DEF a
    <3> QED
      BY <3>1, <3>2, <3>3
  <2>2. OnDayOf(f, m + 1) = Between(f, a, b)
    BY DEF OnDayOf, DayNo
  <2> HIDE DEF a, b
  <2>3. \A t \in 0..MaxTime : a <= t /\ t <= b => f[t] = 0
    BY <1>0, <2>1 DEF DayCount
  <2>4. OnDayOf(f, m + 1) = 0
    BY <2>1, <2>2, <2>3, SumOfNothing
  <2>5. day <= 1 + DayNo(m + 1) /\ day # 1 + DayNo(m + 1)
    BY <1>0, <1>4 DEF DayCount
  <2> QED
    BY <1>0, <1>1, <1>2, <2>4, <2>5 DEF DayCount
<1> QED
  BY <1>3, <1>4

LEMMA DayBegins ==
    ASSUME NEW f \in History, \A t \in 0..MaxTime : f[t] = 0
    PROVE  DayCount(f, {}, 0, 0, 0)
<1>0. Limit \in Nat /\ 0 \in Nat /\ MaxTime \in Nat /\ Day \in Nat /\ 0 \in 0..MaxTime
  BY RateAssumption, WindowAssumption
<1>1. \A a \in Int, b \in Int : Between(f, a, b) = 0
  BY SumOfNothing
<1>2. ASSUME NEW t \in 0..MaxTime PROVE OnDayOf(f, t) = 0
  <2>1. t \in Nat
    BY <1>0
  <2>2. DayNo(t) * Day \in Nat
    BY <2>1, Days
  <2>3. DayNo(t) * Day \in Int /\ DayNo(t) * Day + Day - 1 \in Int
    BY <1>0, <2>2
  <2> QED
    BY <1>1, <2>3 DEF OnDayOf, DayNo
<1>3. DayNo(0) \in Nat
  BY <1>0, Days
<1> QED
  BY <1>0, <1>2, <1>3 DEF DayCount, DailyLimitExact

-----------------------------------------------------------------------------
(* A key's bucket is its window; a counter's began a Minute before it      *)
(* expires and let through what it counted up to the limit.                *)
KeyWindow(f, R, b, m) == FixedWindow(f, R, b.windowStart, b.count, KeySpan, m)
CounterWindow(f, R, e, m) ==
    FixedWindow(f, R, e.expiresAt - Minute, IF e.value <= Limit THEN e.value ELSE Limit,
                CounterSpan, m)
KeyDay(f, R, b, field, m) == DayCount(f, R, b.day, b[field], m)

WindowInv ==
    /\ WindowTypeOK /\ kind # "none" /\ now \in 0..MaxTime
    /\ kind = "minute" => \A k \in Key : KeyWindow(passed[k], refused[k], rpmBuckets[k], now)
    /\ kind = "counter" => \A c \in Counter : CounterWindow(passed[c], refused[c], kv[c], now)
    /\ kind = "day" => \A k \in Key, field \in Field :
           KeyDay(passed[<<k, field>>], refused[<<k, field>>], dayBuckets[k], field, now)

LEMMA NoteEffect ==
    ASSUME WindowInv, NEW x \in Subject, NEW ok \in BOOLEAN, Note(x, ok)
    PROVE  /\ passed' \in [Subject -> History] /\ refused' \in [Subject -> SUBSET (0..MaxTime)]
           /\ kind' = kind
           /\ passed[x] \in History /\ refused[x] \in SUBSET (0..MaxTime)
           /\ passed'[x] = IF ok THEN OneMore(passed[x], now) ELSE passed[x]
           /\ refused'[x] = IF ok THEN refused[x] ELSE refused[x] \cup {now}
           /\ \A y \in Subject : y # x => passed'[y] = passed[y] /\ refused'[y] = refused[y]
<1>1. /\ passed \in [Subject -> History] /\ refused \in [Subject -> SUBSET (0..MaxTime)]
      /\ now \in 0..MaxTime
  BY DEF WindowInv, WindowTypeOK, History
<1>2. passed[x] \in History /\ refused[x] \in SUBSET (0..MaxTime)
  BY <1>1
<1>3. OneMore(passed[x], now) \in History
  BY <1>1, <1>2, RateAssumption, SumOneMore
<1>4. ok => passed' = [passed EXCEPT ![x] = OneMore(passed[x], now)] /\ refused' = refused
  BY <1>1, <1>2 DEF Note, OneMore
<1>5. ~ok => passed' = passed /\ refused' = [refused EXCEPT ![x] = refused[x] \cup {now}]
  BY DEF Note
<1>6. kind' = kind
  BY DEF Note
<1>7. CASE ok
  BY <1>1, <1>2, <1>3, <1>4, <1>6, <1>7
<1>8. CASE ~ok
  BY <1>1, <1>2, <1>5, <1>6, <1>8
<1> QED
  BY <1>7, <1>8

LEMMA WindowTypes ==
    WindowTypeOK <=> /\ now \in Nat
                     /\ rpmBuckets \in [Key -> RpmBucket]
                     /\ dayBuckets \in [Key -> DayBucket]
                     /\ kv \in [Counter -> Entry]
                     /\ kind \in {"minute", "day", "counter", "none"}
                     /\ passed \in [Subject -> History]
                     /\ refused \in [Subject -> SUBSET (0..MaxTime)]
BY DEF WindowTypeOK, RateTypeOK, RpmBucket, DayBucket, Entry, History

LEMMA KeyRequestStep ==
    ASSUME WindowInv, NEW k \in Key, KeyRequest(k) PROVE WindowInv'
<1>0. /\ WindowTypeOK /\ now \in 0..MaxTime /\ now \in Nat /\ rpmBuckets[k] \in RpmBucket
      /\ Limit \in Nat /\ Limit >= 1 /\ Minute \in Nat /\ MaxTime \in Nat /\ k \in Subject
      /\ rpmBuckets \in [Key -> RpmBucket] /\ KeySpan \in Nat
  BY WindowTypes, RateAssumption, WindowAssumption DEF WindowInv, Subject, KeySpan
<1>1. /\ kind = "minute" /\ UNCHANGED <<now, dayBuckets, kv>>
      /\ rpmBuckets' = [rpmBuckets EXCEPT ![k] = RpmAfter(rpmBuckets[k], now, Limit)]
      /\ Note(k, RpmAllows(rpmBuckets[k], now, Limit))
  BY DEF KeyRequest
<1> DEFINE b == rpmBuckets[k]
           s == b.windowStart
           n == b.count
           f == passed[k]
           R == refused[k]
           ok == RpmAllows(b, now, Limit)
<1>2. ok \in BOOLEAN
  BY DEF RpmAllows, Fresh
<1>3. /\ passed' \in [Subject -> History] /\ refused' \in [Subject -> SUBSET (0..MaxTime)]
      /\ kind' = kind /\ f \in History /\ R \in SUBSET (0..MaxTime)
      /\ passed'[k] = IF ok THEN OneMore(f, now) ELSE f
      /\ refused'[k] = IF ok THEN R ELSE R \cup {now}
      /\ \A y \in Subject : y # k => passed'[y] = passed[y] /\ refused'[y] = refused[y]
  BY <1>0, <1>1, <1>2, NoteEffect
<1>4. s \in Nat /\ s \in Int /\ n \in Nat /\ FixedWindow(f, R, s, n, KeySpan, now)
  BY <1>0, <1>1 DEF WindowInv, KeyWindow, RpmBucket
<1>5. (n = 0 \/ now > s + KeySpan) <=> Fresh(b, now)
  BY <1>0, <1>4 DEF Fresh, KeySpan
<1>6. /\ RpmAfter(b, now, Limit) \in RpmBucket
      /\ KeyWindow(passed'[k], refused'[k], RpmAfter(b, now, Limit), now)
  <2>1. CASE Fresh(b, now)
    <3>1. ok /\ RpmAfter(b, now, Limit) = [windowStart |-> now, count |-> 1]
      BY <1>0, <2>1 DEF RpmAllows, RpmAfter
    <3>2. FixedWindow(OneMore(f, now), R, now, 1, KeySpan, now)
      BY <1>0, <1>3, <1>4, <1>5, <2>1, WindowOpens
    <3> QED
      BY <1>0, <1>3, <3>1, <3>2 DEF KeyWindow, RpmBucket
  <2>2. CASE ~Fresh(b, now) /\ n < Limit
    <3>1. ok /\ RpmAfter(b, now, Limit) = [windowStart |-> s, count |-> n + 1]
      BY <1>0, <2>2 DEF RpmAllows, RpmAfter, RpmBucket
    <3>2. FixedWindow(OneMore(f, now), R, s, n + 1, KeySpan, now)
      <4>1. now <= s + KeySpan
        BY <1>0, <1>4, <1>5, <2>2
      <4> QED
        BY <1>0, <1>3, <1>4, <2>2, <4>1, WindowCounts
    <3> QED
      BY <1>0, <1>3, <1>4, <3>1, <3>2 DEF KeyWindow, RpmBucket
  <2>3. CASE ~Fresh(b, now) /\ ~(n < Limit)
    <3>1. ~ok /\ RpmAfter(b, now, Limit) = b
      BY <1>0, <2>3 DEF RpmAllows, RpmAfter
    <3>2. n = Limit /\ now <= s + KeySpan
      BY <1>0, <1>4, <1>5, <2>3 DEF FixedWindow
    <3>3. FixedWindow(f, R \cup {now}, s, n, KeySpan, now)
      BY <1>0, <1>3, <1>4, <3>2, WindowRefuses
    <3> QED
      BY <1>0, <1>3, <3>1, <3>3 DEF KeyWindow
  <2> QED
    BY <2>1, <2>2, <2>3
<1>7. rpmBuckets' \in [Key -> RpmBucket]
  BY <1>0, <1>1, <1>6
<1>8. WindowTypeOK'
  BY <1>0, <1>1, <1>3, <1>7, WindowTypes DEF WindowTypeOK, RateTypeOK, RpmBucket, History
<1>9. ASSUME NEW j \in Key PROVE KeyWindow(passed'[j], refused'[j], rpmBuckets'[j], now')
  <2>1. CASE j = k
    BY <1>0, <1>1, <1>6, <2>1
  <2>2. CASE j # k
    <3>1. KeyWindow(passed[j], refused[j], rpmBuckets[j], now)
      BY <1>1 DEF WindowInv
    <3>2. rpmBuckets'[j] = rpmBuckets[j] /\ passed'[j] = passed[j] /\ refused'[j] = refused[j]
      BY <1>0, <1>1, <1>3, <2>2 DEF Subject
    <3> QED
      BY <1>1, <3>1, <3>2
  <2> QED
    BY <2>1, <2>2
<1> QED
  BY <1>0, <1>1, <1>3, <1>8, <1>9 DEF WindowInv

LEMMA CounterRequestStep ==
    ASSUME WindowInv, NEW c \in Counter, CounterRequest(c) PROVE WindowInv'
<1>0. /\ WindowTypeOK /\ now \in 0..MaxTime /\ now \in Nat /\ kv[c] \in Entry
      /\ Limit \in Nat /\ Limit >= 1 /\ Minute \in Nat /\ Minute >= 1 /\ MaxTime \in Nat
      /\ c \in Subject /\ kv \in [Counter -> Entry] /\ CounterSpan \in Nat
  BY WindowTypes, RateAssumption, WindowAssumption DEF WindowInv, Subject, CounterSpan
<1> DEFINE e == kv[c]
           d == Incr(e, now, Minute)
           s == e.expiresAt - Minute
           n == IF e.value <= Limit THEN e.value ELSE Limit
           f == passed[c]
           R == refused[c]
           ok == d.value <= Limit
<1>1. /\ kind = "counter" /\ UNCHANGED <<now, rpmBuckets, dayBuckets>>
      /\ kv' = [kv EXCEPT ![c] = d] /\ kv'[c] = d
      /\ Note(c, ok)
  BY <1>0 DEF CounterRequest
<1>2. ok \in BOOLEAN
  OBVIOUS
<1>3. /\ passed' \in [Subject -> History] /\ refused' \in [Subject -> SUBSET (0..MaxTime)]
      /\ kind' = kind /\ f \in History /\ R \in SUBSET (0..MaxTime)
      /\ passed'[c] = IF ok THEN OneMore(f, now) ELSE f
      /\ refused'[c] = IF ok THEN R ELSE R \cup {now}
      /\ \A y \in Subject : y # c => passed'[y] = passed[y] /\ refused'[y] = refused[y]
  BY <1>0, <1>1, <1>2, NoteEffect
<1>4. /\ e.value \in Nat /\ e.expiresAt \in Nat /\ s \in Int /\ n \in Nat
      /\ FixedWindow(f, R, s, n, CounterSpan, now)
  BY <1>0, <1>1 DEF WindowInv, CounterWindow, Entry
<1>5. now > s + CounterSpan <=> Gone(e, now)
  BY <1>0, <1>4 DEF Gone, CounterSpan
<1>6. d \in Entry /\ CounterWindow(passed'[c], refused'[c], d, now)
  <2>1. CASE Gone(e, now)
    <3>1. d = [value |-> 1, expiresAt |-> now + Minute] /\ ok
      BY <1>0, <2>1 DEF Incr
    <3>2. FixedWindow(OneMore(f, now), R, now, 1, CounterSpan, now)
      BY <1>0, <1>3, <1>4, <1>5, <2>1, WindowOpens
    <3>3. d.expiresAt - Minute = now /\ d.value = 1 /\ d \in Entry
      BY <1>0, <3>1 DEF Entry
    <3> QED
      BY <1>0, <1>3, <3>1, <3>2, <3>3 DEF CounterWindow
  <2>2. CASE ~Gone(e, now) /\ e.value < Limit
    <3>1. d.value = n + 1 /\ d.expiresAt - Minute = s /\ d \in Entry /\ ok /\ n < Limit
      BY <1>0, <1>4, <2>2 DEF Incr, Entry
    <3>2. FixedWindow(OneMore(f, now), R, s, n + 1, CounterSpan, now)
      <4>1. now <= s + CounterSpan
        BY <1>0, <1>4, <1>5, <2>2
      <4> QED
        BY <1>0, <1>3, <1>4, <3>1, <4>1, WindowCounts
    <3>3. (IF d.value <= Limit THEN d.value ELSE Limit) = n + 1
      BY <3>1
    <3> QED
      BY <1>3, <3>1, <3>2, <3>3 DEF CounterWindow
  <2>3. CASE ~Gone(e, now) /\ ~(e.value < Limit)
    <3>1. d.value = e.value + 1 /\ d.expiresAt - Minute = s /\ d \in Entry /\ ~ok /\ n = Limit
      BY <1>0, <1>4, <2>3 DEF Incr, Entry
    <3>2. now <= s + CounterSpan
      BY <1>0, <1>4, <1>5, <2>3
    <3>3. FixedWindow(f, R \cup {now}, s, n, CounterSpan, now)
      BY <1>0, <1>3, <1>4, <3>1, <3>2, WindowRefuses
    <3>4. (IF d.value <= Limit THEN d.value ELSE Limit) = n
      BY <3>1
    <3> QED
      BY <1>3, <3>1, <3>3, <3>4 DEF CounterWindow
  <2> QED
    BY <2>1, <2>2, <2>3
<1>7. kv' \in [Counter -> Entry]
  BY <1>0, <1>1, <1>6
<1>8. WindowTypeOK'
  BY <1>0, <1>1, <1>3, <1>7, WindowTypes DEF WindowTypeOK, RateTypeOK, Entry, History
<1>9. ASSUME NEW j \in Counter PROVE CounterWindow(passed'[j], refused'[j], kv'[j], now')
  <2>1. CASE j = c
    BY <1>0, <1>1, <1>6, <2>1
  <2>2. CASE j # c
    <3>1. CounterWindow(passed[j], refused[j], kv[j], now)
      BY <1>1 DEF WindowInv
    <3>2. kv'[j] = kv[j] /\ passed'[j] = passed[j] /\ refused'[j] = refused[j]
      BY <1>0, <1>1, <1>3, <2>2 DEF Subject
    <3> QED
      BY <1>1, <3>1, <3>2
  <2> QED
    BY <2>1, <2>2
<1> QED
  BY <1>0, <1>1, <1>3, <1>8, <1>9 DEF WindowInv

(* What Of makes of a bucket for one of its fields.                        *)
LEMMA BucketOfDay ==
    ASSUME NEW b \in DayBucket, NEW m \in 0..MaxTime, NEW field \in Field
    PROVE  /\ Of(b, m) \in DayBucket /\ Of(b, m).day = 1 + DayNo(m)
           /\ Of(b, m)[field] = IF b.day = 1 + DayNo(m) THEN b[field] ELSE 0
           /\ Of(b, m)[field] \in Nat /\ b[field] \in Nat /\ b.day \in Nat
           /\ 1 + DayNo(m) \in Nat
<1>1. m \in Nat /\ DayNo(m) \in Nat /\ Today(m) = 1 + DayNo(m)
  BY RateAssumption, Days DEF Today, DayNo
<1>2. NoDay \in DayBucket
  BY DEF NoDay, DayBucket
<1> QED
  BY <1>1, <1>2 DEF Of, DayBucket, Field, NoDay

LEMMA KeyDayOpens ==
    ASSUME NEW f, NEW R, NEW b \in DayBucket, NEW m \in 0..MaxTime, NEW field \in Field,
           KeyDay(f, R, b, field, m)
    PROVE  DayCount(f, R, 1 + DayNo(m), Of(b, m)[field], m)
<1>1. m \in Nat
  BY RateAssumption
<1>2. CASE b.day = 1 + DayNo(m)
  BY <1>2, BucketOfDay DEF KeyDay
<1>3. CASE b.day # 1 + DayNo(m)
  <2>1. b.day \in Nat /\ b[field] \in Nat /\ Of(b, m)[field] = 0
    BY <1>3, BucketOfDay
  <2>2. DayCount(f, R, b.day, b[field], m)
    BY DEF KeyDay
  <2> QED
    BY <1>1, <1>3, <2>1, <2>2, DayOpens
<1> QED
  BY <1>2, <1>3

LEMMA DayRequestStep ==
    ASSUME WindowInv, NEW k \in Key, NEW field \in Field, DayRequest(k, field) PROVE WindowInv'
<1> DEFINE x == <<k, field>>
           b == dayBuckets[k]
           f == passed[x]
           R == refused[x]
           ok == DayAllows(b, now, field, Limit)
           d == DayAfter(b, now, field, Limit)
<1>0. /\ WindowTypeOK /\ now \in 0..MaxTime /\ b \in DayBucket
      /\ Limit \in Nat /\ Limit >= 1 /\ x \in Subject
      /\ dayBuckets \in [Key -> DayBucket] /\ now \in Nat /\ DayNo(now) \in Nat
      /\ Today(now) = 1 + DayNo(now)
  <2>1. WindowTypeOK /\ now \in 0..MaxTime
    BY DEF WindowInv
  <2>2. b \in DayBucket /\ dayBuckets \in [Key -> DayBucket] /\ now \in Nat
    BY <2>1, WindowTypes
  <2>3. DayNo(now) \in Nat /\ Today(now) = 1 + DayNo(now)
    BY <2>2, Days DEF Today, DayNo
  <2>4. x \in Subject
    BY DEF Subject
  <2> QED
    BY <2>1, <2>2, <2>3, <2>4, WindowAssumption
<1>1. /\ kind = "day" /\ UNCHANGED <<now, rpmBuckets, kv>>
      /\ dayBuckets' = [dayBuckets EXCEPT ![k] = d] /\ Note(x, ok)
  BY DEF DayRequest
<1>2. ok \in BOOLEAN
  BY DEF DayAllows
<1>3. /\ passed' \in [Subject -> History] /\ refused' \in [Subject -> SUBSET (0..MaxTime)]
      /\ kind' = kind /\ f \in History /\ R \in SUBSET (0..MaxTime)
      /\ passed'[x] = IF ok THEN OneMore(f, now) ELSE f
      /\ refused'[x] = IF ok THEN R ELSE R \cup {now}
      /\ \A y \in Subject : y # x => passed'[y] = passed[y] /\ refused'[y] = refused[y]
  <2> HIDE DEF x, ok
  <2> QED
    BY <1>0, <1>1, <1>2, NoteEffect DEF f, R
<1>4. \A g \in Field : KeyDay(passed[<<k, g>>], refused[<<k, g>>], b, g, now)
  BY <1>1 DEF WindowInv
<1>5. /\ Of(b, now) \in DayBucket /\ Of(b, now).day = 1 + DayNo(now)
      /\ b[field] \in Nat /\ b.day \in Nat
      /\ Of(b, now)[field] \in Nat
      /\ Of(b, now)[field] = IF b.day = 1 + DayNo(now) THEN b[field] ELSE 0
  BY <1>0, BucketOfDay
<1>6. b[field] <= Limit
  BY <1>4 DEF KeyDay, DayCount
<1>7. /\ d \in DayBucket
      /\ KeyDay(passed'[x], refused'[x], d, field, now)
      /\ \A g \in Field : g # field =>
             KeyDay(passed[<<k, g>>], refused[<<k, g>>], d, g, now)
  <2>1. CASE ok
    <3>1. d = [Of(b, now) EXCEPT ![field] = Of(b, now)[field] + 1]
      BY <1>0, <2>1 DEF DayAfter
    <3>2. /\ d \in DayBucket /\ d.day = 1 + DayNo(now) /\ d[field] = Of(b, now)[field] + 1
          /\ \A g \in Field : g # field => d[g] = Of(b, now)[g]
      BY <1>5, <3>1 DEF DayBucket, Field
    <3>3. Of(b, now)[field] < Limit
      BY <1>0, <1>5, <2>1 DEF DayAllows
    <3>4. DayCount(f, R, b.day, b[field], now)
      BY <1>4 DEF KeyDay
    <3>5. DayCount(OneMore(f, now), R, 1 + DayNo(now), Of(b, now)[field] + 1, now)
      BY <1>0, <1>3, <1>5, <3>3, <3>4, DayCounts
    <3>6. \A g \in Field : DayCount(passed[<<k, g>>], refused[<<k, g>>], 1 + DayNo(now),
                                    Of(b, now)[g], now)
      BY <1>0, <1>4, KeyDayOpens
    <3> QED
      BY <1>3, <2>1, <3>2, <3>5, <3>6 DEF KeyDay
  <2>2. CASE ~ok
    <3>1. d = b /\ b.day = 1 + DayNo(now) /\ b[field] = Limit
      BY <1>0, <1>5, <1>6, <2>2 DEF DayAfter, DayAllows
    <3>2. DayCount(f, R, b.day, b[field], now)
      BY <1>4 DEF KeyDay
    <3>3. DayCount(f, R \cup {now}, b.day, b[field], now)
      BY <1>0, <1>3, <1>5, <3>1, <3>2, DayRefuses
    <3> QED
      BY <1>0, <1>3, <1>4, <2>2, <3>1, <3>3 DEF KeyDay
  <2> QED
    BY <2>1, <2>2
<1>8. dayBuckets' \in [Key -> DayBucket]
  BY <1>0, <1>1, <1>7
<1>9. WindowTypeOK'
  BY <1>0, <1>1, <1>3, <1>8, WindowTypes DEF WindowTypeOK, RateTypeOK, DayBucket, History
<1>10. ASSUME NEW j \in Key, NEW g \in Field
       PROVE  KeyDay(passed'[<<j, g>>], refused'[<<j, g>>], dayBuckets'[j], g, now')
  <2>1. <<j, g>> \in Subject
    BY DEF Subject
  <2>2. KeyDay(passed[<<j, g>>], refused[<<j, g>>], dayBuckets[j], g, now)
    BY <1>1 DEF WindowInv
  <2>3. CASE j = k /\ g = field
    BY <1>0, <1>1, <1>7, <2>3
  <2>4. CASE j = k /\ g # field
    <3>1. passed'[<<j, g>>] = passed[<<j, g>>] /\ refused'[<<j, g>>] = refused[<<j, g>>]
      BY <1>3, <2>1, <2>4
    <3> QED
      BY <1>0, <1>1, <1>7, <2>4, <3>1
  <2>5. CASE j # k
    <3>1. passed'[<<j, g>>] = passed[<<j, g>>] /\ refused'[<<j, g>>] = refused[<<j, g>>]
      BY <1>3, <2>1, <2>5
    <3>2. dayBuckets'[j] = dayBuckets[j]
      BY <1>0, <1>1, <2>5
    <3> QED
      BY <1>1, <2>2, <3>1, <3>2
  <2> QED
    BY <2>3, <2>4, <2>5
<1> QED
  BY <1>0, <1>1, <1>3, <1>9, <1>10 DEF WindowInv

LEMMA DayTokensStep ==
    ASSUME WindowInv, NEW k \in Key, DayTokens(k) PROVE WindowInv'
<1> DEFINE b == dayBuckets[k]
           d == RecordTokens(b, now, 1)
<1>0. /\ WindowTypeOK /\ now \in 0..MaxTime /\ b \in DayBucket
      /\ dayBuckets \in [Key -> DayBucket]
  BY WindowTypes DEF WindowInv
<1>1. /\ kind = "day" /\ UNCHANGED <<now, rpmBuckets, kv, kind, passed, refused>>
      /\ dayBuckets' = [dayBuckets EXCEPT ![k] = d]
  BY DEF DayTokens
<1>2. \A g \in Field :
         /\ Of(b, now) \in DayBucket /\ Of(b, now).day = 1 + DayNo(now)
         /\ DayCount(passed[<<k, g>>], refused[<<k, g>>], 1 + DayNo(now), Of(b, now)[g], now)
  <2>1. \A g \in Field : KeyDay(passed[<<k, g>>], refused[<<k, g>>], b, g, now)
    BY <1>1 DEF WindowInv
  <2> QED
    BY <1>0, <2>1, BucketOfDay, KeyDayOpens
<1>3. /\ d \in DayBucket /\ d.day = Of(b, now).day
      /\ \A g \in Field : d[g] = Of(b, now)[g]
  <2>1. Of(b, now) \in DayBucket
    BY <1>2 DEF Field
  <2> QED
    BY <2>1 DEF RecordTokens, DayBucket, Field
<1>4. \A g \in Field : KeyDay(passed[<<k, g>>], refused[<<k, g>>], d, g, now)
  BY <1>2, <1>3 DEF KeyDay
<1>5. dayBuckets' \in [Key -> DayBucket]
  BY <1>0, <1>1, <1>3
<1>6. WindowTypeOK'
  BY <1>0, <1>1, <1>5 DEF WindowTypeOK, RateTypeOK, DayBucket
<1>7. ASSUME NEW j \in Key, NEW g \in Field
      PROVE  KeyDay(passed'[<<j, g>>], refused'[<<j, g>>], dayBuckets'[j], g, now')
  <2>1. CASE j = k
    BY <1>0, <1>1, <1>4, <2>1
  <2>2. CASE j # k
    <3>1. KeyDay(passed[<<j, g>>], refused[<<j, g>>], dayBuckets[j], g, now)
      BY <1>1 DEF WindowInv
    <3>2. dayBuckets'[j] = dayBuckets[j]
      BY <1>0, <1>1, <2>2
    <3> QED
      BY <1>1, <3>1, <3>2
  <2> QED
    BY <2>1, <2>2
<1> QED
  BY <1>0, <1>1, <1>6, <1>7 DEF WindowInv

LEMMA TickStep ==
    ASSUME WindowInv, Tick, UNCHANGED <<kind, passed, refused>> PROVE WindowInv'
<1>0. /\ WindowTypeOK /\ now \in 0..MaxTime /\ now \in Nat /\ MaxTime \in Nat /\ Minute \in Nat
      /\ rpmBuckets \in [Key -> RpmBucket] /\ dayBuckets \in [Key -> DayBucket]
      /\ kv \in [Counter -> Entry] /\ passed \in [Subject -> History]
      /\ refused \in [Subject -> SUBSET (0..MaxTime)]
  BY WindowTypes, RateAssumption DEF WindowInv
<1>1. /\ now < MaxTime /\ now' = now + 1
      /\ UNCHANGED <<rpmBuckets, dayBuckets, kv, kind, passed, refused>>
  BY DEF Tick
<1>2. now' \in 0..MaxTime /\ now' \in Nat
  BY <1>0, <1>1
<1>3. WindowTypeOK'
  BY <1>0, <1>1, <1>2 DEF WindowTypeOK, RateTypeOK
<1>4. ASSUME kind = "minute", NEW k \in Key
      PROVE  KeyWindow(passed[k], refused[k], rpmBuckets[k], now + 1)
  <2>1. FixedWindow(passed[k], refused[k], rpmBuckets[k].windowStart, rpmBuckets[k].count,
                    KeySpan, now)
    BY <1>4 DEF WindowInv, KeyWindow
  <2>2. rpmBuckets[k].windowStart \in Int
    BY <1>0 DEF RpmBucket
  <2> QED
    BY <1>0, <2>1, <2>2, WindowAges DEF KeyWindow
<1>5. ASSUME kind = "counter", NEW c \in Counter
      PROVE  CounterWindow(passed[c], refused[c], kv[c], now + 1)
  <2>1. kv[c].expiresAt - Minute \in Int
    BY <1>0 DEF Entry
  <2> QED
    BY <1>0, <1>5, <2>1, WindowAges DEF WindowInv, CounterWindow
<1>6. ASSUME kind = "day", NEW k \in Key, NEW g \in Field
      PROVE  KeyDay(passed[<<k, g>>], refused[<<k, g>>], dayBuckets[k], g, now + 1)
  <2>1. /\ passed[<<k, g>>] \in History /\ refused[<<k, g>>] \in SUBSET (0..MaxTime)
        /\ dayBuckets[k] \in DayBucket
    BY <1>0 DEF Subject
  <2>2. dayBuckets[k].day \in Nat /\ dayBuckets[k][g] \in Nat
    BY <1>0, <2>1, BucketOfDay
  <2>3. DayCount(passed[<<k, g>>], refused[<<k, g>>], dayBuckets[k].day, dayBuckets[k][g], now)
    BY <1>6 DEF WindowInv, KeyDay
  <2> QED
    BY <1>0, <1>1, <2>1, <2>2, <2>3, DayAges DEF KeyDay
<1> QED
  BY <1>1, <1>2, <1>3, <1>4, <1>5, <1>6 DEF WindowInv

LEMMA WindowInitial == ASSUME WindowInit PROVE WindowInv
<1>0. /\ MaxTime \in Nat /\ Minute \in Nat /\ Minute >= 1 /\ 0 \in 0..MaxTime
      /\ KeySpan \in Nat /\ CounterSpan \in Nat
  BY RateAssumption DEF KeySpan, CounterSpan
<1>1. /\ now = 0 /\ kind \in {"minute", "day", "counter"}
      /\ rpmBuckets = [k \in Key |-> NoBucket] /\ dayBuckets = [k \in Key |-> NoDay]
      /\ kv = [c \in Counter |-> NoEntry]
      /\ passed = [x \in Subject |-> [t \in 0..MaxTime |-> 0]]
      /\ refused = [x \in Subject |-> {}]
  BY DEF WindowInit, RateInit, NoBuckets
<1>2. WindowTypeOK
  BY <1>0, <1>1 DEF WindowTypeOK, RateTypeOK, NoBucket, NoDay, NoEntry
<1>3. \A x \in Subject : /\ passed[x] \in History /\ \A t \in 0..MaxTime : passed[x][t] = 0
                         /\ refused[x] = {}
  BY <1>0, <1>1 DEF History
<1>4. ASSUME NEW k \in Key PROVE KeyWindow(passed[k], refused[k], rpmBuckets[k], now)
  <2>1. FixedWindow(passed[k], {}, 0, 0, KeySpan, 0)
    BY <1>0, <1>3, WindowBegins DEF Subject
  <2> QED
    BY <1>1, <1>3, <2>1 DEF KeyWindow, NoBucket, Subject
<1>5. ASSUME NEW c \in Counter PROVE CounterWindow(passed[c], refused[c], kv[c], now)
  <2>1. FixedWindow(passed[c], {}, 0 - Minute, 0, CounterSpan, 0)
    <3>1. 0 - Minute \in Int /\ 0 - Minute <= 0
      BY <1>0
    <3> QED
      BY <1>0, <1>3, <3>1, WindowBegins DEF Subject
  <2>2. kv[c].value = 0 /\ kv[c].expiresAt = 0 /\ now = 0 /\ refused[c] = {} /\ 0 <= Limit
    BY <1>1, <1>3, WindowAssumption DEF NoEntry, Subject
  <2> QED
    BY <2>1, <2>2 DEF CounterWindow
<1>6. ASSUME NEW k \in Key, NEW g \in Field
      PROVE  KeyDay(passed[<<k, g>>], refused[<<k, g>>], dayBuckets[k], g, now)
  <2>1. <<k, g>> \in Subject
    BY DEF Subject
  <2>2. DayCount(passed[<<k, g>>], {}, 0, 0, 0)
    BY <1>3, <2>1, DayBegins
  <2>3. dayBuckets[k].day = 0 /\ dayBuckets[k][g] = 0
    BY <1>1 DEF NoDay, Field
  <2> QED
    BY <1>1, <1>3, <2>1, <2>2, <2>3 DEF KeyDay
<1> QED
  BY <1>0, <1>1, <1>2, <1>4, <1>5, <1>6 DEF WindowInv

(* Fixed windows let at most twice the limit through in any stretch of a   *)
(* window's length and refuse only who has had it, and daily limits are    *)
(* exact, whatever opens a bucket: enforceRpm, incrAndExpire,              *)
(* enforceDailyRequests, enforceDailyEmbeddings, recordTokenUsage.         *)
THEOREM QuotasAlwaysKept == WindowSpec => []QuotasKept
<1>1. WindowInit => WindowInv
  BY WindowInitial
<1>2. WindowInv /\ [WindowNext]_windowVars => WindowInv'
  <2> SUFFICES ASSUME WindowInv, [WindowNext]_windowVars PROVE WindowInv'
    OBVIOUS
  <2>1. CASE Tick /\ UNCHANGED <<kind, passed, refused>>
    BY <2>1, TickStep
  <2>2. ASSUME NEW k \in Key, KeyRequest(k) PROVE WindowInv'
    BY <2>2, KeyRequestStep
  <2>3. ASSUME NEW k \in Key, DayTokens(k) PROVE WindowInv'
    BY <2>3, DayTokensStep
  <2>4. ASSUME NEW k \in Key, NEW field \in Field, DayRequest(k, field) PROVE WindowInv'
    BY <2>4, DayRequestStep
  <2>5. ASSUME NEW c \in Counter, CounterRequest(c) PROVE WindowInv'
    BY <2>5, CounterRequestStep
  <2>6. CASE UNCHANGED windowVars
    BY <2>6 DEF windowVars, rateVars, WindowInv, WindowTypeOK, RateTypeOK
  <2> QED
    BY <2>1, <2>2, <2>3, <2>4, <2>5, <2>6 DEF WindowNext
<1>3. WindowInv => QuotasKept
  <2> SUFFICES ASSUME WindowInv PROVE QuotasKept
    OBVIOUS
  <2>1. kind = "minute" => \A k \in Key :
            AtMostTwice(passed[k], KeySpan) /\ RefusedForCause(passed[k], refused[k], KeySpan)
    BY DEF WindowInv, KeyWindow, FixedWindow
  <2>2. kind = "counter" => \A c \in Counter :
            /\ AtMostTwice(passed[c], CounterSpan)
            /\ RefusedForCause(passed[c], refused[c], CounterSpan)
    BY DEF WindowInv, CounterWindow, FixedWindow
  <2>3. kind = "day" => \A x \in Key \X Field : DailyLimitExact(passed[x], refused[x])
    <3> SUFFICES ASSUME kind = "day", NEW x \in Key \X Field
                 PROVE  DailyLimitExact(passed[x], refused[x])
      OBVIOUS
    <3>1. PICK k \in Key, g \in Field : x = <<k, g>>
      OBVIOUS
    <3> QED
      BY <3>1 DEF WindowInv, KeyDay, DayCount
  <2> QED
    BY <2>1, <2>2, <2>3 DEF WindowInv, QuotasKept
<1> QED
  BY <1>1, <1>2, <1>3, PTL DEF WindowSpec

-----------------------------------------------------------------------------
(* Tokens.  What the steps do to keys, buckets, and what is owed.          *)
RowKept(k) == (Exists(k)' <=> Exists(k)) /\ keys'[k].totalTokens = keys[k].totalTokens
RowCreated(k) == ~Exists(k) /\ Exists(k)' /\ keys'[k].totalTokens = 0
                 /\ keys'[k].limits \in Limits \cup {DemoLimits}
LimitsKept(k) == keys'[k].limits = keys[k].limits \/ (Exists(k) /\ keys'[k].limits \in Limits)

LEMMA RowChanges ==
    ASSUME TypeOK, KeyStep, NEW k \in Key
    PROVE  RowCreated(k) \/ (RowKept(k) /\ LimitsKept(k))
<1>0. keys \in [Key -> Row] /\ issued \in Nat
  BY DEF TypeOK, KeysTypeOK
<1>1. CASE UNCHANGED keys
  BY <1>1 DEF RowKept, LimitsKept, Exists
<1>2. ASSUME NEW l \in Key, NEW limits \in Limits \cup {DemoLimits}, NEW o, NewKey(l, limits, o)
      PROVE  RowCreated(k) \/ (RowKept(k) /\ LimitsKept(k))
  <2>1. CASE k = l
    BY <1>0, <1>2, <2>1 DEF NewKey, NoKey, RowCreated, Exists
  <2>2. CASE k # l
    BY <1>0, <1>2, <2>2 DEF NewKey, RowKept, LimitsKept, Exists
  <2> QED
    BY <2>1, <2>2
<1>3. ASSUME NEW l \in Key, DemoMark(l) \/ Patch(l) \/ Revoke(l) \/ Expires(l)
      PROVE  RowKept(k) /\ LimitsKept(k)
  <2>1. CASE k = l
    <3>1. keys[k] \in Row
      BY <1>0
    <3>2. ASSUME NEW b \in BOOLEAN,
                 \/ keys' = [keys EXCEPT ![k].enabled = b]
                 \/ keys' = [keys EXCEPT ![k].expired = b]
                 \/ keys' = [keys EXCEPT ![k].isDemo = b]
                 \/ keys' = [keys EXCEPT ![k].enabled = FALSE, ![k].revoked = TRUE]
          PROVE  RowKept(k) /\ LimitsKept(k)
      <4>1. /\ keys'[k].secret = keys[k].secret
            /\ keys'[k].limits = keys[k].limits /\ keys'[k].totalTokens = keys[k].totalTokens
        BY <1>0, <3>1, <3>2 DEF Row
      <4> QED
        BY <4>1 DEF RowKept, LimitsKept, Exists
    <3>3. ASSUME NEW limits \in Limits, NEW streaming \in BOOLEAN, Exists(k),
                 keys' = [keys EXCEPT ![k].limits = limits, ![k].streaming = streaming]
          PROVE  RowKept(k) /\ LimitsKept(k)
      BY <1>0, <3>1, <3>3 DEF RowKept, LimitsKept, Exists, Row
    <3> QED
      BY <1>3, <2>1, <3>2, <3>3 DEF DemoMark, Patch, Revoke, Expires
  <2>2. CASE k # l
    BY <1>0, <1>3, <2>2 DEF DemoMark, Patch, Revoke, Expires, RowKept, LimitsKept, Exists
  <2> QED
    BY <2>1, <2>2
<1>4. ASSUME NEW l \in Key, Rotate(l) PROVE RowKept(k) /\ LimitsKept(k)
  <2>1. CASE k = l
    BY <1>0, <1>4, <2>1 DEF Rotate, RowKept, LimitsKept, Exists, Row
  <2>2. CASE k # l
    BY <1>0, <1>4, <2>2 DEF Rotate, RowKept, LimitsKept, Exists
  <2> QED
    BY <2>1, <2>2
<1>5. ASSUME DemoRefused \/ \E l \in Key : DemoMarkFails(l) PROVE UNCHANGED keys
  BY <1>5 DEF DemoRefused, DemoMarkFails, keyVars
<1> QED
  BY <1>1, <1>2, <1>3, <1>4, <1>5 DEF KeyStep, CreateKey, DemoCreate

(* A request changes only its own record, and its key only when it starts. *)
LEMMA RequestMoves ==
    ASSUME TypeOK, NEW q \in Request, Resolve(q) \/ Progress(q) \/ Throws(q)
    PROVE  OneMoves(q)
<1>1. req \in [Request -> Req]
  BY DEF TypeOK
<1>2. (\E r : req' = [req EXCEPT ![q] = r]) => OneMoves(q)
  BY <1>1 DEF OneMoves
<1>3. Resolve(q) => \E r : req' = [req EXCEPT ![q] = r]
  BY DEF Resolve
<1>4. Answered(q) \/ (\E l \in Stage : Goto(q, l)) => OneMoves(q)
  BY Moved
<1>5. Admit(q) \/ OrgRpm(q) \/ DemoQuota(q) \/ StreamRefused(q) \/ ExecuteFailed(q) \/ TouchUsage(q)
      \/ FinishLog(q) \/ StartEmbedding(q) \/ Embed(q) \/ Throws(q)
      => Answered(q) \/ \E l \in Stage : Goto(q, l)
  BY DEF Admit, OrgRpm, DemoQuota, AfterAdmit, AfterOrg, StreamRefused, ExecuteFailed, TouchUsage,
         FinishLog, StartEmbedding, Embed, Throws, Stage
<1>6. StartLog(q) \/ ExecuteOk(q) \/ ExecuteStream(q) => OneMoves(q)
  BY <1>1 DEF StartLog, ExecuteOk, ExecuteStream, OneMoves
<1> QED
  BY <1>2, <1>3, <1>4, <1>5, <1>6 DEF Progress

(* Where a request is once its call has begun or answered.                 *)
LEMMA CallMoves ==
    ASSUME TypeOK, NEW q \in Request
    PROVE  /\ StartLog(q) => /\ req'[q].at = "execute" /\ req'[q].key = req[q].key
                             /\ req'[q].ok = req[q].ok
           /\ ExecuteOk(q) \/ ExecuteStream(q) => req'[q].at = "touch" /\ req'[q].key = req[q].key
<1>1. ASSUME NEW r \in Req, NEW i, NEW n
      PROVE  /\ [r EXCEPT !.at = "execute", !.id = i].at = "execute"
             /\ [r EXCEPT !.at = "execute", !.id = i].key = r.key
             /\ [r EXCEPT !.at = "execute", !.id = i].ok = r.ok
             /\ [r EXCEPT !.at = "touch", !.tokens = n, !.ok = TRUE].at = "touch"
             /\ [r EXCEPT !.at = "touch", !.tokens = n, !.ok = TRUE].key = r.key
             /\ [r EXCEPT !.at = "touch", !.ok = TRUE].at = "touch"
             /\ [r EXCEPT !.at = "touch", !.ok = TRUE].key = r.key
  BY DEF Req
<1>2. req \in [Request -> Req] /\ req[q] \in Req
  BY DEF TypeOK
<1>3. /\ StartLog(q) => \E i \in ReqId : req'[q] = [req[q] EXCEPT !.at = "execute", !.id = i]
      /\ ExecuteOk(q) =>
            \E n \in Answers : req'[q] = [req[q] EXCEPT !.at = "touch", !.tokens = n, !.ok = TRUE]
      /\ ExecuteStream(q) => req'[q] = [req[q] EXCEPT !.at = "touch", !.ok = TRUE]
  BY <1>2 DEF StartLog, ExecuteOk, ExecuteStream
<1>4. ASSUME StartLog(q)
      PROVE  req'[q].at = "execute" /\ req'[q].key = req[q].key /\ req'[q].ok = req[q].ok
  <2>1. PICK i \in ReqId : req'[q] = [req[q] EXCEPT !.at = "execute", !.id = i]
    BY <1>3, <1>4
  <2> QED
    BY <1>1, <1>2, <2>1
<1>5. ASSUME ExecuteOk(q) PROVE req'[q].at = "touch" /\ req'[q].key = req[q].key
  <2>1. PICK n \in Answers : req'[q] = [req[q] EXCEPT !.at = "touch", !.tokens = n, !.ok = TRUE]
    BY <1>3, <1>5
  <2> QED
    BY <1>1, <1>2, <2>1
<1>6. ASSUME ExecuteStream(q) PROVE req'[q].at = "touch" /\ req'[q].key = req[q].key
  <2>1. req'[q] = [req[q] EXCEPT !.at = "touch", !.ok = TRUE]
    BY <1>3, <1>6
  <2> QED
    BY <1>2, <2>1 DEF Req
<1> QED
  BY <1>4, <1>5, <1>6

-----------------------------------------------------------------------------
(* The log against the keys' totals.  What an answered request has added   *)
(* to its key's total and not yet written to its row is owed to the row.   *)
OwedBy(r) == IF r.at = "finish" /\ r.ok THEN r.tokens ELSE 0
OwedTokens == [q \in Request |-> OwedBy(req[q])]

Booked == SumOver(LogTokens, ReqId) + SumOver(OwedTokens, Request) <= SumOver(KeyTokens, Key)

(* Only an answer is ok; a key that does not exist was charged nothing, and*)
(* nobody asks for it.                                                     *)
Honest ==
    /\ \A q \in Request : /\ req[q].ok => req[q].at \in {"touch", "finish"}
                          /\ req[q].at # "idle" => Exists(req[q].key)
    /\ \A k \in Key : ~Exists(k) => keys[k].totalTokens = 0

LEMMA TokensTyped ==
    ASSUME TypeOK
    PROVE  /\ LogTokens \in [ReqId -> Nat] /\ KeyTokens \in [Key -> Nat]
           /\ OwedTokens \in [Request -> Nat]
           /\ SumOver(LogTokens, ReqId) \in Nat /\ SumOver(KeyTokens, Key) \in Nat
           /\ SumOver(OwedTokens, Request) \in Nat
           /\ IsFiniteSet(ReqId) /\ IsFiniteSet(Key) /\ IsFiniteSet(Request)
<1>1. /\ log \in [ReqId -> LogRow] /\ keys \in [Key -> Row] /\ req \in [Request -> Req]
  BY DEF TypeOK, KeysTypeOK
<1>2. LogTokens \in [ReqId -> Nat]
  BY <1>1 DEF LogTokens, LogRow
<1>3. KeyTokens \in [Key -> Nat]
  BY <1>1 DEF KeyTokens, Row
<1>4. OwedTokens \in [Request -> Nat]
  BY <1>1 DEF OwedTokens, OwedBy, Req
<1>5. IsFiniteSet(ReqId) /\ IsFiniteSet(Key) /\ IsFiniteSet(Request)
  BY RouteAssumption
<1> QED
  BY <1>2, <1>3, <1>4, <1>5, SumType

LEMMA TokensTypedNext ==
    ASSUME TypeOK'
    PROVE  /\ LogTokens' \in [ReqId -> Nat] /\ KeyTokens' \in [Key -> Nat]
           /\ OwedTokens' \in [Request -> Nat]
           /\ SumOver(LogTokens', ReqId) \in Nat /\ SumOver(KeyTokens', Key) \in Nat
           /\ SumOver(OwedTokens', Request) \in Nat
<1>1. /\ log' \in [ReqId -> LogRow] /\ keys' \in [Key -> Row] /\ req' \in [Request -> Req]
  BY DEF TypeOK, KeysTypeOK
<1>2. LogTokens' \in [ReqId -> Nat]
  BY <1>1 DEF LogTokens, LogRow
<1>3. KeyTokens' \in [Key -> Nat]
  BY <1>1 DEF KeyTokens, Row
<1>4. OwedTokens' \in [Request -> Nat]
  BY <1>1 DEF OwedTokens, OwedBy, Req
<1>5. IsFiniteSet(ReqId) /\ IsFiniteSet(Key) /\ IsFiniteSet(Request)
  BY RouteAssumption
<1> QED
  BY <1>2, <1>3, <1>4, <1>5, SumType

(* Nothing is written, and nothing new is owed.                            *)
LEMMA BookedStays ==
    ASSUME TypeOK, TypeOK', Booked, LogTokens' = LogTokens, KeyTokens' = KeyTokens,
           \A q \in Request : OwedBy(req'[q]) <= OwedBy(req[q])
    PROVE  Booked'
<1>1. \A q \in Request : OwedTokens[q] \in Nat /\ OwedTokens'[q] \in Nat
                         /\ OwedTokens'[q] <= OwedTokens[q]
  <2>1. \A q \in Request : OwedTokens[q] = OwedBy(req[q]) /\ OwedTokens'[q] = OwedBy(req'[q])
    BY DEF OwedTokens, OwedBy
  <2> QED
    BY <2>1, TokensTyped, TokensTypedNext
<1>2. SumOver(OwedTokens', Request) <= SumOver(OwedTokens, Request)
  BY <1>1, TokensTyped, SumMonotone
<1>3. /\ SumOver(OwedTokens', Request) \in Nat /\ SumOver(OwedTokens, Request) \in Nat
      /\ SumOver(LogTokens, ReqId) \in Nat /\ SumOver(KeyTokens, Key) \in Nat
  BY TokensTyped, TokensTypedNext
<1> QED
  BY <1>2, <1>3 DEF Booked

LEMMA HonestRequest ==
    ASSUME TypeOK, IdsTyped, Honest, NEW q \in Request, Resolve(q) \/ Progress(q) \/ Throws(q)
    PROVE  Honest'
<1>1. req \in [Request -> Req] /\ keys \in [Key -> Row] /\ known \subseteq 1..issued
      /\ req[q].key \in Key
  BY Holds DEF TypeOK, KeysTypeOK
<1>2. OneMoves(q)
  BY RequestMoves
<1>3. ASSUME NEW k \in Key
      PROVE  (Exists(k)' <=> Exists(k)) /\ (~Exists(k) => keys'[k].totalTokens = 0)
  <2>1. CASE UNCHANGED keys
    BY <2>1 DEF Exists, Honest
  <2>2. CASE TouchUsage(q)
    <3>1. Exists(req[q].key)
      BY <2>2 DEF Honest, TouchUsage, At
    <3> QED
      BY <1>1, <2>2, <3>1 DEF TouchUsage, Exists, Honest, Row
  <2> QED
    BY <2>1, <2>2 DEF Resolve, Progress, Throws, Admit, OrgRpm, DemoQuota, StartLog, StreamRefused,
       ExecuteOk, ExecuteStream, ExecuteFailed, FinishLog, StartEmbedding, Embed, keyVars
<1>4. /\ req'[q].ok => req'[q].at \in {"touch", "finish"}
      /\ req'[q].at # "idle" => req'[q].key \in Key /\ Exists(req'[q].key)
  <2>1. CASE Resolve(q)
    <3>1. PICK k \in Key :
             /\ keys[k].secret \in known
             /\ req' = [req EXCEPT ![q] = [Idle EXCEPT !.at = "resolved", !.key = k, !.row = Read(k)]]
      BY <2>1 DEF Resolve
    <3>2. req'[q].key = k /\ ~req'[q].ok
      BY <1>1, <3>1 DEF Idle
    <3>3. Exists(k)
      BY <1>1, <3>1 DEF Exists
    <3> QED
      BY <3>2, <3>3
  <2>2. Answered(q) => ~req'[q].ok /\ req'[q].at = "idle"
    BY <1>1 DEF Answered, Idle
  <2>3. ASSUME NEW l \in Stage, Goto(q, l), ~At(q, "idle"),
               l \in {"touch", "finish"} \/ At(q, "resolved") \/ At(q, "org") \/ At(q, "demo")
                  \/ At(q, "handler")
        PROVE  /\ req'[q].ok => req'[q].at \in {"touch", "finish"}
               /\ req'[q].key \in Key /\ Exists(req'[q].key)
    <3>1. req'[q].ok = req[q].ok /\ req'[q].at = l /\ req'[q].key = req[q].key
      BY <1>1, <2>3 DEF Goto
    <3>2. req[q].ok => req[q].at \in {"touch", "finish"}
      BY DEF Honest
    <3> QED
      BY <1>1, <2>3, <3>1, <3>2 DEF Honest, At
  <2>4. CASE Admit(q) \/ OrgRpm(q) \/ DemoQuota(q) \/ StreamRefused(q) \/ ExecuteFailed(q)
             \/ TouchUsage(q) \/ FinishLog(q) \/ StartEmbedding(q) \/ Embed(q) \/ Throws(q)
    <3>1. \/ Answered(q)
          \/ \E l \in Stage : /\ Goto(q, l) /\ ~At(q, "idle")
                              /\ l \in {"touch", "finish"} \/ At(q, "resolved") \/ At(q, "org")
                                    \/ At(q, "demo") \/ At(q, "handler")
      BY <2>4 DEF Admit, OrgRpm, DemoQuota, AfterAdmit, AfterOrg, StreamRefused, ExecuteFailed,
         TouchUsage, FinishLog, StartEmbedding, Embed, Throws, Stage, At
    <3> QED
      BY <2>2, <2>3, <3>1
  <2>5. CASE StartLog(q)
    <3>1. ~req[q].ok /\ Exists(req[q].key)
      BY <2>5 DEF StartLog, At, Honest
    <3>2. req'[q].ok = req[q].ok /\ req'[q].key = req[q].key
      BY <2>5, CallMoves
    <3> QED
      BY <1>1, <3>1, <3>2
  <2>6. CASE ExecuteOk(q) \/ ExecuteStream(q)
    <3>1. Exists(req[q].key)
      BY <2>6 DEF ExecuteOk, ExecuteStream, At, Honest
    <3>2. req'[q].at = "touch" /\ req'[q].key = req[q].key
      BY <2>6, CallMoves
    <3> QED
      BY <1>1, <3>1, <3>2
  <2> QED
    BY <2>1, <2>4, <2>5, <2>6 DEF Progress
<1>5. ASSUME NEW p \in Request
      PROVE  /\ req'[p].ok => req'[p].at \in {"touch", "finish"}
             /\ req'[p].at # "idle" => Exists(req[p].key)'
  <2>1. CASE p = q
    BY <1>3, <1>4, <2>1 DEF Exists
  <2>2. CASE p # q
    <3>1. req'[p] = req[p]
      BY <1>2, <2>2 DEF OneMoves
    <3>2. req[p].key \in Key
      BY Holds
    <3> QED
      BY <1>3, <3>1, <3>2 DEF Honest, Exists
  <2> QED
    BY <2>1, <2>2
<1>6. \A k \in Key : ~Exists(k)' => keys'[k].totalTokens = 0
  BY <1>3
<1> QED
  BY <1>5, <1>6 DEF Honest, Exists

LEMMA HonestKeys ==
    ASSUME TypeOK, Honest, KeyStep, UNCHANGED chatVars
    PROVE  Honest'
<1>1. req' = req
  BY DEF chatVars
<1>2. \A k \in Key : (Exists(k) => Exists(k)') /\ (~Exists(k)' => keys'[k].totalTokens = 0)
  <2> TAKE k \in Key
  <2>1. RowCreated(k) \/ RowKept(k)
    BY RowChanges
  <2> QED
    BY <2>1 DEF RowCreated, RowKept, Honest
<1>3. \A q \in Request : /\ req'[q].ok => req'[q].at \in {"touch", "finish"}
                         /\ req'[q].at # "idle" => Exists(req[q].key)'
  <2> TAKE q \in Request
  <2>1. req[q].key \in Key
    BY Holds
  <2>2. Exists(req[q].key) => keys'[req[q].key].secret # 0
    BY <1>2, <2>1 DEF Exists
  <2> QED
    BY <1>1, <2>2 DEF Honest, Exists
<1> QED
  BY <1>2, <1>3 DEF Honest, Exists

LEMMA HonestKept ==
    ASSUME TypeOK, IdsTyped, Honest, Next
    PROVE  Honest'
<1>1. ASSUME Tock \/ Restart PROVE Honest'
  <2>1. UNCHANGED keys /\ (UNCHANGED req \/ req' = [q \in Request |-> Idle])
    BY <1>1 DEF Tock, Restart, chatVars
  <2> QED
    BY <2>1 DEF Honest, Exists, Idle
<1> QED
  BY <1>1, HonestRequest, HonestKeys DEF Next

(* Every step but the two that write a total or a row.                     *)
LEMMA BookedQuiet ==
    ASSUME TypeOK, TypeOK', Honest, Booked, NEW q \in Request,
           \/ Resolve(q) \/ Admit(q) \/ OrgRpm(q) \/ DemoQuota(q) \/ StartLog(q)
           \/ StreamRefused(q) \/ ExecuteOk(q) \/ ExecuteStream(q) \/ ExecuteFailed(q)
           \/ StartEmbedding(q) \/ Embed(q) \/ Throws(q)
    PROVE  Booked'
<1>0. req \in [Request -> Req] /\ log \in [ReqId -> LogRow]
  BY DEF TypeOK
<1>1. KeyTokens' = KeyTokens
  <2>1. UNCHANGED keys
    BY DEF Resolve, Admit, OrgRpm, DemoQuota, StartLog, StreamRefused, ExecuteOk, ExecuteStream,
       ExecuteFailed, StartEmbedding, Embed, Throws, keyVars
  <2> QED
    BY <2>1 DEF KeyTokens
<1>2. LogTokens' = LogTokens
  <2>1. \/ UNCHANGED log
        \/ \E i \in ReqId : log' = [log EXCEPT ![i].exists = TRUE]
    BY DEF Resolve, Admit, OrgRpm, DemoQuota, StartLog, StreamRefused, ExecuteOk, ExecuteStream,
       ExecuteFailed, StartEmbedding, Embed, Throws
  <2>2. ASSUME NEW i \in ReqId, log' = [log EXCEPT ![i].exists = TRUE]
        PROVE  \A j \in ReqId : log'[j].tokens = log[j].tokens
    BY <1>0, <2>2 DEF LogRow
  <2> QED
    BY <2>1, <2>2 DEF LogTokens
<1>3. OneMoves(q)
  BY RequestMoves DEF Progress
<1>4. OwedBy(req'[q]) = 0
  <2>1. Answered(q) => OwedBy(req'[q]) = 0
    BY Moved DEF OwedBy
  <2>2. ASSUME NEW l \in Stage, Goto(q, l), ~At(q, "finish") /\ ~At(q, "touch")
        PROVE  OwedBy(req'[q]) = 0
    <3>1. req'[q].ok = req[q].ok
      BY <1>0, <2>2 DEF Goto
    <3>2. ~req[q].ok
      BY <2>2 DEF Honest, At
    <3> QED
      BY <3>1, <3>2 DEF OwedBy
  <2>3. CASE Admit(q) \/ OrgRpm(q) \/ DemoQuota(q) \/ StreamRefused(q) \/ ExecuteFailed(q)
             \/ StartEmbedding(q) \/ Embed(q) \/ Throws(q)
    <3>1. \/ Answered(q)
          \/ \E l \in Stage : Goto(q, l) /\ ~At(q, "finish") /\ ~At(q, "touch")
      BY <2>3 DEF Admit, OrgRpm, DemoQuota, AfterAdmit, AfterOrg, StreamRefused, ExecuteFailed,
         StartEmbedding, Embed, Throws, Stage, At
    <3> QED
      BY <2>1, <2>2, <3>1
  <2>4. CASE Resolve(q)
    BY <1>0, <2>4 DEF Resolve, Idle, OwedBy
  <2>5. CASE StartLog(q) \/ ExecuteOk(q) \/ ExecuteStream(q)
    <3>1. req'[q].at # "finish"
      BY <2>5, CallMoves
    <3> QED
      BY <3>1 DEF OwedBy
  <2> QED
    BY <2>3, <2>4, <2>5
<1>5. \A p \in Request : OwedBy(req'[p]) <= OwedBy(req[p])
  <2> TAKE p \in Request
  <2>1. OwedBy(req[p]) \in Nat
    BY <1>0 DEF OwedBy, Req
  <2>2. CASE p = q
    BY <1>4, <2>1, <2>2
  <2>3. CASE p # q
    <3>1. req'[p] = req[p]
      BY <1>3, <2>3 DEF OneMoves
    <3> QED
      BY <2>1, <3>1
  <2> QED
    BY <2>2, <2>3
<1> QED
  BY <1>1, <1>2, <1>5, BookedStays

(* The answer's tokens go to the total before they are owed.               *)
LEMMA BookedTouch ==
    ASSUME TypeOK, TypeOK', Honest, Booked, NEW q \in Request, TouchUsage(q)
    PROVE  Booked'
<1> DEFINE k == req[q].key
           n == req[q].tokens
<1>1. req \in [Request -> Req] /\ keys \in [Key -> Row] /\ k \in Key /\ n \in Nat
  BY Holds DEF TypeOK, KeysTypeOK, Req
<1>2. /\ keys' = [keys EXCEPT ![k].totalTokens = @ + n] /\ UNCHANGED log
      /\ Goto(q, "finish") /\ req[q].at = "touch"
  BY DEF TouchUsage, At
<1>3. req'[q].tokens = n /\ OneMoves(q)
  <2>1. req'[q].tokens = n
    BY <1>1, <1>2 DEF Goto
  <2> QED
    BY <1>2, <2>1, Moved
<1>4. LogTokens' = LogTokens
  BY <1>2 DEF LogTokens
<1>5. KeyTokens'[k] = KeyTokens[k] + n /\ \A l \in Key : l # k => KeyTokens'[l] = KeyTokens[l]
  BY <1>1, <1>2 DEF KeyTokens, Row
<1>6. OwedTokens[q] = 0 /\ OwedTokens'[q] <= n
  BY <1>1, <1>2, <1>3 DEF OwedTokens, OwedBy
<1>7. \A p \in Request : p # q => OwedTokens'[p] = OwedTokens[p]
  BY <1>3 DEF OwedTokens, OneMoves
<1> HIDE DEF k, n
<1>8. SumOver(KeyTokens', Key) + KeyTokens[k] = SumOver(KeyTokens, Key) + KeyTokens'[k]
  BY <1>1, <1>5, TokensTyped, TokensTypedNext, SumUpdate
<1>9. SumOver(OwedTokens', Request) + OwedTokens[q] = SumOver(OwedTokens, Request) + OwedTokens'[q]
  BY <1>7, TokensTyped, TokensTypedNext, SumUpdate
<1>10. /\ SumOver(OwedTokens', Request) \in Nat /\ SumOver(OwedTokens, Request) \in Nat
       /\ SumOver(KeyTokens', Key) \in Nat /\ SumOver(KeyTokens, Key) \in Nat
       /\ SumOver(LogTokens, ReqId) \in Nat /\ KeyTokens[k] \in Nat /\ OwedTokens'[q] \in Nat
  BY <1>1, TokensTyped, TokensTypedNext
<1>11. /\ SumOver(KeyTokens', Key) = SumOver(KeyTokens, Key) + n
       /\ SumOver(OwedTokens', Request) <= SumOver(OwedTokens, Request) + n
  BY <1>1, <1>5, <1>6, <1>8, <1>9, <1>10
<1> QED
  BY <1>1, <1>4, <1>10, <1>11 DEF Booked

(* What was owed is written, in the place of what the row said before.     *)
LEMMA BookedFinish ==
    ASSUME TypeOK, TypeOK', IdsTyped, Booked, NEW q \in Request, FinishLog(q)
    PROVE  Booked'
<1> DEFINE i == req[q].id
           n == IF req[q].ok THEN req[q].tokens ELSE log[i].tokens
<1>1. /\ req \in [Request -> Req] /\ log \in [ReqId -> LogRow] /\ i \in ReqId
      /\ req[q].tokens \in Nat /\ req[q].ok \in BOOLEAN
  BY Holds DEF TypeOK, IdsTyped, HasRow, FinishLog, At, Req
<1>2. log' = [log EXCEPT ![i].finished = TRUE, ![i].tokens = n]
      /\ UNCHANGED keys /\ Answered(q) /\ req[q].at = "finish"
  BY <1>1 DEF FinishLog, At, keyVars, LogRow
<1>3. OneMoves(q) /\ req'[q].at = "idle"
  BY <1>2, Moved
<1>4. KeyTokens' = KeyTokens
  BY <1>2 DEF KeyTokens
<1>5. LogTokens'[i] = n /\ \A j \in ReqId : j # i => LogTokens'[j] = LogTokens[j]
  BY <1>1, <1>2 DEF LogTokens, LogRow
<1>6. OwedTokens[q] = (IF req[q].ok THEN req[q].tokens ELSE 0) /\ OwedTokens'[q] = 0
  BY <1>1, <1>2, <1>3 DEF OwedTokens, OwedBy
<1>7. \A p \in Request : p # q => OwedTokens'[p] = OwedTokens[p]
  BY <1>3 DEF OwedTokens, OneMoves
<1>8. n <= LogTokens[i] + OwedTokens[q]
  BY <1>1, <1>6 DEF LogTokens, LogRow
<1> HIDE DEF i, n
<1>9. SumOver(LogTokens', ReqId) + LogTokens[i] = SumOver(LogTokens, ReqId) + LogTokens'[i]
  BY <1>1, <1>5, TokensTyped, TokensTypedNext, SumUpdate
<1>10. SumOver(OwedTokens', Request) + OwedTokens[q] = SumOver(OwedTokens, Request) + OwedTokens'[q]
  BY <1>7, TokensTyped, TokensTypedNext, SumUpdate
<1>11. /\ SumOver(OwedTokens', Request) \in Nat /\ SumOver(OwedTokens, Request) \in Nat
       /\ SumOver(LogTokens', ReqId) \in Nat /\ SumOver(LogTokens, ReqId) \in Nat
       /\ SumOver(KeyTokens, Key) \in Nat /\ LogTokens[i] \in Nat /\ OwedTokens[q] \in Nat
       /\ LogTokens'[i] \in Nat
  BY <1>1, TokensTyped, TokensTypedNext
<1>12. SumOver(LogTokens', ReqId) + SumOver(OwedTokens', Request)
          <= SumOver(LogTokens, ReqId) + SumOver(OwedTokens, Request)
  BY <1>5, <1>6, <1>8, <1>9, <1>10, <1>11
<1> QED
  BY <1>4, <1>11, <1>12 DEF Booked

LEMMA BookedKeys ==
    ASSUME TypeOK, TypeOK', Honest, Booked, KeyStep, UNCHANGED chatVars
    PROVE  Booked'
<1>1. req' = req /\ log' = log
  BY DEF chatVars
<1>2. KeyTokens' = KeyTokens
  <2>1. \A k \in Key : keys'[k].totalTokens = keys[k].totalTokens
    BY RowChanges DEF RowCreated, RowKept, Honest
  <2> QED
    BY <2>1 DEF KeyTokens
<1>3. LogTokens' = LogTokens /\ OwedTokens' = OwedTokens
  BY <1>1 DEF LogTokens, OwedTokens, OwedBy
<1> QED
  BY <1>2, <1>3 DEF Booked

LEMMA BookedKept ==
    ASSUME TypeOK, TypeOK', IdsTyped, Honest, Booked, Next
    PROVE  Booked'
<1>1. ASSUME Tock \/ Restart PROVE Booked'
  <2>1. UNCHANGED <<keys, log>> /\ (UNCHANGED req \/ req' = [q \in Request |-> Idle])
    BY <1>1 DEF Tock, Restart, chatVars
  <2>2. \A q \in Request : OwedBy(req[q]) \in Nat
    BY DEF TypeOK, OwedBy, Req
  <2>3. \A q \in Request : OwedBy(req'[q]) <= OwedBy(req[q])
    BY <2>1, <2>2 DEF OwedBy, Idle
  <2>4. LogTokens' = LogTokens /\ KeyTokens' = KeyTokens
    BY <2>1 DEF LogTokens, KeyTokens
  <2> QED
    BY <2>3, <2>4, BookedStays
<1> QED
  BY <1>1, BookedQuiet, BookedTouch, BookedFinish, BookedKeys DEF Next, Progress

(* The log never accounts for more tokens than the keys were charged       *)
(* (touchUsage and logger.finish), for any requests that share ids, any    *)
(* failing queries and restarts.                                           *)
THEOREM LogWithinUsageHolds == Spec => []LogWithinUsage
<1>1. Init => Honest /\ Booked
  <2> SUFFICES ASSUME Init PROVE Honest /\ Booked
    OBVIOUS
  <2>1. Honest
    BY DEF Init, KeysInit, Honest, Idle, NoKey
  <2>2. TypeOK
    BY InitTypes
  <2>3. (\A i \in ReqId : LogTokens[i] = 0) /\ \A q \in Request : OwedTokens[q] = 0
    BY DEF Init, NoLog, Idle, LogTokens, OwedTokens, OwedBy
  <2>4. SumOver(LogTokens, ReqId) = 0 /\ SumOver(OwedTokens, Request) = 0
    BY <2>2, <2>3, TokensTyped, SumZero
  <2>5. SumOver(KeyTokens, Key) \in Nat
    BY <2>2, TokensTyped
  <2> QED
    BY <2>1, <2>4, <2>5 DEF Booked
<1>2. Inv /\ Inv' /\ Honest /\ Booked /\ [Next]_vars => Honest' /\ Booked'
  <2> SUFFICES ASSUME Inv, Inv', Honest, Booked, [Next]_vars PROVE Honest' /\ Booked'
    OBVIOUS
  <2>1. CASE Next
    BY <2>1, HonestKept, BookedKept DEF Inv
  <2>2. CASE UNCHANGED vars
    <3>1. keys' = keys /\ req' = req /\ log' = log
      BY <2>2 DEF vars, keyVars, chatVars
    <3> QED
      BY <3>1 DEF Honest, Exists, Booked, LogTokens, KeyTokens, OwedTokens, OwedBy
  <2> QED
    BY <2>1, <2>2
<1>3. Inv /\ Booked => LogWithinUsage
  <2> SUFFICES ASSUME Inv, Booked PROVE LogWithinUsage
    OBVIOUS
  <2>1. SumOver(LogTokens, ReqId) <= SumOver(KeyTokens, Key)
    BY TokensTyped DEF Inv, Booked
  <2> QED
    BY <2>1 DEF LogWithinUsage, SumOver
<1> QED
  BY <1>1, <1>2, <1>3, Invariance, PTL DEF Spec

-----------------------------------------------------------------------------
(* A day's tokens.  Requests that have passed the check and have not been  *)
(* charged yet each may bring in as many tokens as an answer reports; what *)
(* they may is reserved in the bucket as soon as they pass.                *)
TokensOf(k) == keys[k].limits.tokens
Room(L) == L - 1 + Max(Answers) * Cardinality(Request)

Spending == {"org", "demo", "handler", "execute", "embed"}
SpendersIn(r, k) == {q \in Request : r[q].key = k /\ r[q].at \in Spending}
Spent(b, t) == IF b.day = Today(t) THEN b.tokens ELSE 0
Reserved(r, k) == Max(Answers) * Cardinality(SpendersIn(r, k))

BucketWithin(b, r, k, t, L) ==
    /\ b.day <= Today(t) /\ b.tokens <= Room(L)
    /\ Spent(b, t) + Reserved(r, k) <= Room(L)

(* A limit may be raised or taken away; 0 is none.                         *)
AsMuch(new, old) == new = 0 \/ (old # 0 /\ old <= new)

(* Nobody lowers the limit of a key that exists, or sets one where there   *)
(* was none; any limit may be set when a key is created.                   *)
NeverLowered == \A k \in Key : Exists(k) => AsMuch(keys'[k].limits.tokens, keys[k].limits.tokens)

(* A key that does not exist has spent nothing, and who is checked is      *)
(* checked with at most the limit its key has by now.                      *)
Guarded ==
    /\ \A k \in Key : ~Exists(k) => dayBuckets[k] = NoDay
    /\ \A q \in Request : At(q, "resolved") /\ req[q].row.usable
          => AsMuch(TokensOf(req[q].key), TheLimits(q).tokens)

BucketsWithin ==
    \A k \in Key : TokensOf(k) # 0 => BucketWithin(dayBuckets[k], req, k, now, TokensOf(k))

Within == Honest /\ Guarded /\ BucketsWithin

LEMMA Numbers ==
    /\ Max(Answers) \in Nat /\ \A n \in Answers : n \in Nat /\ n <= Max(Answers)
    /\ Cardinality(Request) \in Nat /\ Max(Answers) * Cardinality(Request) \in Nat
    /\ \A L \in Nat \ {0} : Room(L) \in Nat /\ Max(Answers) * Cardinality(Request) <= Room(L)
<1>2. Max(Answers) \in Answers /\ \A n \in Answers : n <= Max(Answers)
  BY RouteAssumption, MaxOfFinite
<1>3. Max(Answers) \in Nat /\ \A n \in Answers : n \in Nat
  BY <1>2, RouteAssumption
<1>4. Cardinality(Request) \in Nat
  BY RouteAssumption, FS_CardinalityType
<1> DEFINE m == Max(Answers)
           c == Cardinality(Request)
<1>5. m * c \in Nat
  BY <1>3, <1>4
<1>6. ASSUME NEW L \in Nat \ {0} PROVE Room(L) \in Nat /\ m * c <= Room(L)
  <2> DEFINE p == m * c
  <2>1. p \in Nat /\ Room(L) = L - 1 + p
    BY <1>5 DEF Room
  <2> HIDE DEF p, m, c
  <2>2. Room(L) \in Nat /\ p <= Room(L)
    BY <2>1
  <2> QED
    BY <2>2 DEF p
<1> QED
  BY <1>2, <1>3, <1>4, <1>5, <1>6

LEMMA TokenLimits ==
    ASSUME TypeOK
    PROVE  /\ \A k \in Key : TokensOf(k) \in Nat
           /\ \A q \in Request : TheLimits(q).tokens \in Nat
<1>1. keys \in [Key -> Row]
  BY DEF TypeOK, KeysTypeOK
<1>2. \A k \in Key : TokensOf(k) \in Nat
  BY <1>1 DEF TokensOf, Row, Quotas
<1>3. \A q \in Request : TheLimits(q) \in Quotas
  BY Holds
<1> QED
  BY <1>2, <1>3 DEF Quotas

LEMMA TokenLimitsNext ==
    ASSUME TypeOK'
    PROVE  \A k \in Key : keys'[k].limits.tokens \in Nat
<1>1. keys' \in [Key -> Row]
  BY DEF TypeOK, KeysTypeOK
<1> QED
  BY <1>1 DEF Row, Quotas

(* Fewer spenders reserve less, one less by an answer, all at most all.    *)
LEMMA Reservations ==
    ASSUME NEW r, NEW s, NEW k
    PROVE  /\ Reserved(r, k) \in Nat /\ Reserved(r, k) <= Max(Answers) * Cardinality(Request)
           /\ SpendersIn(s, k) \subseteq SpendersIn(r, k) => Reserved(s, k) <= Reserved(r, k)
           /\ \A q \in SpendersIn(r, k) : SpendersIn(s, k) \subseteq SpendersIn(r, k) \ {q}
                 => Reserved(s, k) + Max(Answers) <= Reserved(r, k)
           /\ SpendersIn(r, k) = {} => Reserved(r, k) = 0
<1> DEFINE m == Max(Answers)
           A == SpendersIn(r, k)
           B == SpendersIn(s, k)
<1>1. m \in Nat /\ IsFiniteSet(Request) /\ A \subseteq Request /\ B \subseteq Request
  BY Numbers, RouteAssumption DEF SpendersIn
<1>2. \A a, b \in Nat : a <= b => m * a <= m * b /\ m * a \in Nat
  BY <1>1
<1>3. ASSUME NEW S \in SUBSET Request, NEW T \in SUBSET S
      PROVE  Cardinality(S) \in Nat /\ Cardinality(T) \in Nat /\ Cardinality(T) <= Cardinality(S)
  BY <1>1, FS_Subset, FS_CardinalityType
<1>4. Cardinality(Request) \in Nat /\ Cardinality(A) \in Nat /\ Cardinality(A) <= Cardinality(Request)
  BY <1>1, <1>3
<1>5. m * Cardinality(A) \in Nat /\ m * Cardinality(A) <= m * Cardinality(Request)
  BY <1>2, <1>4
<1>6. B \subseteq A => m * Cardinality(B) <= m * Cardinality(A)
  BY <1>1, <1>2, <1>3
<1>7. ASSUME NEW q \in A, B \subseteq A \ {q} PROVE m * Cardinality(B) + m <= m * Cardinality(A)
  <2>1. IsFiniteSet(A)
    BY <1>1, FS_Subset
  <2>2. Cardinality(A \ {q}) = Cardinality(A) - 1
    BY <2>1, FS_RemoveElement
  <2>3. Cardinality(B) \in Nat /\ Cardinality(B) + 1 <= Cardinality(A)
    BY <1>1, <1>3, <1>4, <1>7, <2>2
  <2>4. m * (Cardinality(B) + 1) <= m * Cardinality(A)
    BY <1>2, <1>4, <2>3
  <2>5. m * (Cardinality(B) + 1) = m * Cardinality(B) + m
    BY <1>1, <2>3
  <2> QED
    BY <2>4, <2>5
<1>8. A = {} => m * Cardinality(A) = 0
  BY <1>1, FS_EmptySet
<1> HIDE DEF m
<1>9. Reserved(r, k) = m * Cardinality(A) /\ Reserved(s, k) = m * Cardinality(B)
  BY DEF Reserved, m
<1> QED
  BY <1>5, <1>6, <1>7, <1>8, <1>9 DEF m

(* What may happen to a bucket while requests come and go.                 *)
LEMMA Todays ==
    ASSUME NEW b \in DayBucket, NEW t \in Nat
    PROVE  /\ Today(t) \in Nat /\ b.day \in Nat /\ b.tokens \in Nat /\ Spent(b, t) \in Nat
           /\ Today(t) <= Today(t + 1)
<1>1. DayNo(t) \in Nat /\ DayNo(t + 1) \in Nat /\ DayNo(t) <= DayNo(t + 1)
  BY Days
<1>2. Today(t) = 1 + DayNo(t) /\ Today(t + 1) = 1 + DayNo(t + 1)
  BY DEF Today, DayNo
<1> QED
  BY <1>1, <1>2 DEF DayBucket, Spent

(* A charge of n tokens, or a request counted (n = 0).                     *)
SpendsOf(b, c, t, n) ==
    /\ Spent(c, t) = Spent(b, t) + n
    /\ c = b \/ (c.day = Today(t) /\ c.tokens = Spent(c, t))

LEMMA BucketSpends ==
    ASSUME NEW b \in DayBucket, NEW t \in Nat
    PROVE  /\ SpendsOf(b, b, t, 0)
           /\ \A limit \in Nat, field \in {"requests", "embeddings"} :
                 SpendsOf(b, DayAfter(b, t, field, limit), t, 0)
           /\ \A n \in Nat : SpendsOf(b, RecordTokens(b, t, n), t, n)
<1>1. Spent(b, t) \in Nat /\ Today(t) \in Nat
  BY Todays
<1>2. SpendsOf(b, b, t, 0)
  BY <1>1 DEF SpendsOf
<1>3. Of(b, t) \in DayBucket /\ Of(b, t).day = Today(t) /\ Of(b, t).tokens = Spent(b, t)
  <2>1. Of(b, t) \in DayBucket
    BY OfTyped
  <2> QED
    BY <2>1, <1>1 DEF Of, Spent, NoDay
<1>4. ASSUME NEW c \in DayBucket, c.day = Today(t), c.tokens = Spent(b, t), NEW n \in Nat
      PROVE  /\ SpendsOf(b, [c EXCEPT !["requests"] = @ + 1], t, 0)
             /\ SpendsOf(b, [c EXCEPT !["embeddings"] = @ + 1], t, 0)
             /\ SpendsOf(b, [c EXCEPT !.tokens = @ + n], t, n)
  <2>1. /\ [c EXCEPT !["requests"] = @ + 1].day = Today(t)
        /\ [c EXCEPT !["requests"] = @ + 1].tokens = Spent(b, t)
        /\ [c EXCEPT !["embeddings"] = @ + 1].day = Today(t)
        /\ [c EXCEPT !["embeddings"] = @ + 1].tokens = Spent(b, t)
    BY <1>4 DEF DayBucket
  <2>2. /\ [c EXCEPT !.tokens = @ + n].day = Today(t)
        /\ [c EXCEPT !.tokens = @ + n].tokens = Spent(b, t) + n
    BY <1>4 DEF DayBucket
  <2> QED
    BY <1>1, <2>1, <2>2 DEF SpendsOf, Spent
<1>5. ASSUME NEW limit \in Nat, NEW field \in {"requests", "embeddings"}
      PROVE  SpendsOf(b, DayAfter(b, t, field, limit), t, 0)
  <2>1. \/ DayAfter(b, t, field, limit) = b
        \/ DayAfter(b, t, field, limit) = [Of(b, t) EXCEPT ![field] = @ + 1]
    BY DEF DayAfter
  <2>2. SpendsOf(b, [Of(b, t) EXCEPT ![field] = @ + 1], t, 0)
    BY <1>3, <1>4, 0 \in Nat
  <2> QED
    BY <1>2, <2>1, <2>2
<1>6. \A n \in Nat : SpendsOf(b, RecordTokens(b, t, n), t, n)
  BY <1>3, <1>4 DEF RecordTokens
<1> QED
  BY <1>2, <1>5, <1>6

(* The room of a bucket through the ways a step may go about it.           *)
LEMMA RoomKept ==
    ASSUME NEW b \in DayBucket, NEW c \in DayBucket, NEW t \in Nat, NEW n \in Nat,
           NEW r, NEW s, NEW k, NEW L \in Nat \ {0}, BucketWithin(b, r, k, t, L), SpendsOf(b, c, t, n),
           \/ n = 0 /\ SpendersIn(s, k) \subseteq SpendersIn(r, k)
           \/ n = 0 /\ Spent(b, t) < L
           \/ n <= Max(Answers) /\ \E q \in SpendersIn(r, k) :
                                       SpendersIn(s, k) \subseteq SpendersIn(r, k) \ {q}
    PROVE  BucketWithin(c, s, k, t, L)
<1> DEFINE m == Max(Answers)
           p == Max(Answers) * Cardinality(Request)
           x == Reserved(r, k)
           y == Reserved(s, k)
           room == Room(L)
<1>1. m \in Nat /\ p \in Nat /\ room = L - 1 + p
  BY Numbers DEF Room
<1>2. x \in Nat /\ y \in Nat /\ x <= p /\ y <= p
  BY Reservations
<1>3. /\ SpendersIn(s, k) \subseteq SpendersIn(r, k) => y <= x
      /\ \A q \in SpendersIn(r, k) : SpendersIn(s, k) \subseteq SpendersIn(r, k) \ {q} => y + m <= x
  BY Reservations
<1>4. /\ Today(t) \in Nat /\ Spent(b, t) \in Nat /\ Spent(c, t) \in Nat
      /\ b.day \in Nat /\ b.tokens \in Nat /\ c.tokens \in Nat
  BY Todays
<1>5. b.day <= Today(t) /\ b.tokens <= room /\ Spent(b, t) + x <= room
  BY DEF BucketWithin
<1>6. Spent(c, t) = Spent(b, t) + n /\ (c = b \/ (c.day = Today(t) /\ c.tokens = Spent(c, t)))
  BY DEF SpendsOf
<1>7. (n = 0 /\ y <= x) \/ (n = 0 /\ Spent(b, t) < L) \/ (n <= m /\ y + m <= x)
  BY <1>3
<1> HIDE DEF m, p, x, y, room
<1>8. Spent(c, t) + y <= room
  BY <1>1, <1>2, <1>4, <1>5, <1>6, <1>7
<1>9. c.day <= Today(t) /\ c.tokens <= room
  BY <1>1, <1>2, <1>4, <1>5, <1>6, <1>8
<1> QED
  BY <1>8, <1>9 DEF BucketWithin, y, room

(* A key nobody has spent on is within any limit, and within a limit that  *)
(* is raised when it was within the one before.                            *)
LEMMA EmptyWithin ==
    ASSUME NEW r, NEW k, NEW t \in Nat, SpendersIn(r, k) = {}, NEW L \in Nat \ {0}
    PROVE  BucketWithin(NoDay, r, k, t, L)
<1>1. Reserved(r, k) = 0
  BY Reservations
<1>2. NoDay \in DayBucket
  BY DEF NoDay, DayBucket
<1>3. Room(L) \in Nat /\ Today(t) \in Nat
  BY <1>2, Numbers, Todays
<1> QED
  BY <1>1, <1>3 DEF BucketWithin, NoDay, Spent

LEMMA RaisedWithin ==
    ASSUME NEW b \in DayBucket, NEW r, NEW k, NEW t \in Nat, NEW L \in Nat \ {0}, NEW M \in Nat,
           L <= M, BucketWithin(b, r, k, t, L)
    PROVE  BucketWithin(b, r, k, t, M)
<1> DEFINE p == Max(Answers) * Cardinality(Request)
<1>1. p \in Nat /\ Room(L) = L - 1 + p /\ Room(M) = M - 1 + p
  BY Numbers DEF Room
<1>2. b.tokens \in Nat /\ Spent(b, t) \in Nat /\ Reserved(r, k) \in Nat
  BY Todays, Reservations
<1> HIDE DEF p
<1>3. Room(L) <= Room(M) /\ Room(L) \in Int /\ Room(M) \in Int
  BY <1>1
<1> QED
  BY <1>2, <1>3 DEF BucketWithin

(* Who spends after a request has moved.                                   *)
LEMMA SpendersMove ==
    ASSUME TypeOK, NEW q \in Request, OneMoves(q), NEW k \in Key
    PROVE  /\ req'[q].at \notin Spending => SpendersIn(req', k) \subseteq SpendersIn(req, k) \ {q}
           /\ req'[q].key = req[q].key /\ (req[q].at \in Spending \/ req[q].key # k)
                 => SpendersIn(req', k) \subseteq SpendersIn(req, k)
           /\ req[q].at \in Spending /\ req[q].key = k => q \in SpendersIn(req, k)
  BY DEF SpendersIn, OneMoves

LEMMA DayBuckets ==
    ASSUME TypeOK
    PROVE  now \in Nat /\ dayBuckets \in [Key -> DayBucket] /\ \A k \in Key : dayBuckets[k] \in DayBucket
  BY RateTypes DEF TypeOK

LEMMA DayBucketsNext ==
    ASSUME TypeOK'
    PROVE  \A k \in Key : dayBuckets'[k] \in DayBucket
<1>1. dayBuckets' \in [Key -> DayBucket]
  BY DEF TypeOK, RateTypeOK, DayBucket
<1> QED
  BY <1>1

(* What a request's step leaves of limits and of the buckets of others.    *)
LEMMA LimitsStay ==
    ASSUME TypeOK, NEW q \in Request, Resolve(q) \/ Progress(q) \/ Throws(q), NEW k \in Key
    PROVE  keys'[k].limits = keys[k].limits /\ keys'[k].secret = keys[k].secret
<1>1. keys \in [Key -> Row]
  BY DEF TypeOK, KeysTypeOK
<1>2. UNCHANGED keys \/ TouchUsage(q)
  BY DEF Resolve, Progress, Throws, Admit, OrgRpm, DemoQuota, StartLog, StreamRefused, ExecuteOk,
     ExecuteStream, ExecuteFailed, FinishLog, StartEmbedding, Embed, keyVars
<1>3. CASE TouchUsage(q)
  BY <1>1, <1>3 DEF TouchUsage, Row
<1> QED
  BY <1>2, <1>3

LEMMA OthersStay ==
    ASSUME TypeOK, Honest, NEW q \in Request, Resolve(q) \/ Progress(q) \/ Throws(q),
           NEW k \in Key, ~Exists(k)
    PROVE  dayBuckets'[k] = dayBuckets[k]
<1>1. CASE Resolve(q) \/ OrgRpm(q) \/ DemoQuota(q) \/ StartLog(q) \/ StreamRefused(q)
           \/ ExecuteFailed(q) \/ TouchUsage(q) \/ FinishLog(q) \/ Throws(q)
  BY <1>1 DEF Resolve, OrgRpm, DemoQuota, StartLog, StreamRefused, ExecuteFailed, TouchUsage,
     FinishLog, Throws, rateVars
<1>2. CASE Admit(q) \/ StartEmbedding(q) \/ ExecuteOk(q) \/ ExecuteStream(q) \/ Embed(q)
  <2>1. req[q].at # "idle"
    BY <1>2 DEF Admit, StartEmbedding, ExecuteOk, ExecuteStream, Embed, At
  <2>2. k # req[q].key
    BY <2>1 DEF Honest
  <2>3. dayBuckets \in [Key -> DayBucket]
    BY DayBuckets
  <2> QED
    BY <1>2, <2>2, <2>3 DEF Admit, StartEmbedding, ExecuteOk, ExecuteStream, Embed, Charge
<1> QED
  BY <1>1, <1>2 DEF Progress

LEMMA GuardedRequest ==
    ASSUME TypeOK, Honest, Guarded, NEW q \in Request, Resolve(q) \/ Progress(q) \/ Throws(q)
    PROVE  Guarded'
<1>0. req \in [Request -> Req] /\ keys \in [Key -> Row]
  BY DEF TypeOK, KeysTypeOK
<1>1. \A k \in Key : ~Exists(k)' => dayBuckets'[k] = NoDay
  BY LimitsStay, OthersStay DEF Guarded, Exists
<1>2. OneMoves(q)
  BY RequestMoves
<1>3. ASSUME req'[q].at = "resolved", req'[q].row.usable
      PROVE  AsMuch(keys'[req'[q].key].limits.tokens, req'[q].row.limits.tokens)
  <2>1. CASE Resolve(q)
    <3>1. PICK k \in Key : req' = [req EXCEPT ![q] = [Idle EXCEPT !.at = "resolved", !.key = k, !.row = Read(k)]]
      BY <2>1 DEF Resolve
    <3>2. req'[q].row = Read(k) /\ req'[q].key = k
      BY <1>0, <3>1 DEF Idle
    <3>3. Read(k).limits = keys[k].limits
      BY DEF Read
    <3>4. keys[k].limits.tokens \in Nat
      BY TokenLimits DEF TokensOf
    <3>5. keys'[k].limits = keys[k].limits
      BY LimitsStay
    <3> QED
      BY <3>2, <3>3, <3>4, <3>5 DEF AsMuch
  <2>2. CASE Progress(q) \/ Throws(q)
    <3>1. \/ Answered(q) \/ \E l \in Stage \ {"resolved"} : Goto(q, l)
          \/ StartLog(q) \/ ExecuteOk(q) \/ ExecuteStream(q)
      BY <2>2 DEF Progress, Throws, Admit, OrgRpm, DemoQuota, AfterAdmit, AfterOrg, StreamRefused,
         ExecuteFailed, TouchUsage, FinishLog, StartEmbedding, Embed, Stage
    <3>2. StartLog(q) \/ ExecuteOk(q) \/ ExecuteStream(q) => req'[q].at \in {"execute", "touch"}
      BY CallMoves
    <3>3. Answered(q) \/ (\E l \in Stage \ {"resolved"} : Goto(q, l)) => req'[q].at # "resolved"
      BY Moved
    <3> QED
      BY <1>3, <3>1, <3>2, <3>3
  <2> QED
    BY <2>1, <2>2
<1>4. ASSUME NEW p \in Request, req'[p].at = "resolved", req'[p].row.usable
      PROVE  AsMuch(keys'[req'[p].key].limits.tokens, req'[p].row.limits.tokens)
  <2>1. CASE p = q
    BY <1>3, <1>4, <2>1
  <2>2. CASE p # q
    <3>1. req'[p] = req[p] /\ req[p].key \in Key
      BY <1>2, <2>2, Holds DEF OneMoves
    <3>2. AsMuch(keys[req[p].key].limits.tokens, req[p].row.limits.tokens)
      BY <1>4, <3>1 DEF Guarded, At, TheLimits, TokensOf
    <3>3. keys'[req[p].key].limits = keys[req[p].key].limits
      BY <3>1, LimitsStay
    <3> QED
      BY <3>1, <3>2, <3>3
  <2> QED
    BY <2>1, <2>2
<1> QED
  BY <1>1, <1>4 DEF Guarded, Exists, At, TheLimits, TokensOf

(* Steps that charge nothing and let nobody in.                            *)
LEMMA WithinQuiet ==
    ASSUME TypeOK, TypeOK', BucketsWithin, NEW q \in Request,
           \/ Resolve(q) \/ OrgRpm(q) \/ DemoQuota(q) \/ StartLog(q) \/ StreamRefused(q)
           \/ ExecuteFailed(q) \/ TouchUsage(q) \/ FinishLog(q) \/ StartEmbedding(q) \/ Throws(q)
    PROVE  BucketsWithin'
<1>0. req \in [Request -> Req]
  BY DEF TypeOK
<1>1. OneMoves(q)
  BY RequestMoves DEF Progress
<1>2. req'[q].at \notin Spending \/ (req[q].at \in Spending /\ req'[q].key = req[q].key)
  <2>1. ASSUME NEW l \in Stage, Goto(q, l) PROVE req'[q].at = l /\ req'[q].key = req[q].key
    BY <1>0, <2>1 DEF Goto
  <2>2. CASE StartLog(q)
    <3>1. req'[q].key = req[q].key /\ req[q].at = "handler"
      BY <2>2, CallMoves DEF StartLog, At
    <3> QED
      BY <3>1 DEF Spending
  <2>3. CASE Resolve(q)
    BY <1>0, <2>3, ZenonT(30) DEF Resolve, Spending, Idle
  <2>4. Answered(q) => req'[q].at \notin Spending
    BY Moved DEF Spending
  <2>5. CASE OrgRpm(q) \/ DemoQuota(q) \/ StreamRefused(q) \/ ExecuteFailed(q) \/ TouchUsage(q)
             \/ FinishLog(q) \/ StartEmbedding(q) \/ Throws(q)
    <3>1. \/ Answered(q)
          \/ \E l \in Stage : Goto(q, l) /\ (l \notin Spending \/ req[q].at \in Spending)
      BY <2>5 DEF OrgRpm, DemoQuota, AfterOrg, StreamRefused, ExecuteFailed, TouchUsage, FinishLog,
         StartEmbedding, Throws, At, Spending, Stage
    <3> QED
      BY <2>1, <2>4, <3>1
  <2> QED
    BY <2>2, <2>3, <2>5
<1>3. ASSUME NEW k \in Key PROVE SpendsOf(dayBuckets[k], dayBuckets'[k], now, 0)
  <2>1. CASE UNCHANGED dayBuckets
    BY <2>1, DayBuckets, BucketSpends
  <2>2. CASE StartEmbedding(q)
    <3>1. \/ dayBuckets'[k] = dayBuckets[k]
          \/ dayBuckets'[k] = DayAfter(dayBuckets[k], now, "embeddings", TheLimits(q).embeddings)
      BY <2>2, DayBuckets, Holds DEF StartEmbedding
    <3>2. TheLimits(q).embeddings \in Nat
      BY Holds
    <3> QED
      BY <3>1, <3>2, DayBuckets, BucketSpends
  <2> QED
    BY <2>1, <2>2 DEF Resolve, OrgRpm, DemoQuota, StartLog, StreamRefused, ExecuteFailed, TouchUsage,
       FinishLog, Throws, rateVars
<1>4. UNCHANGED now
  BY DEF Resolve, OrgRpm, DemoQuota, StartLog, StreamRefused, ExecuteFailed, TouchUsage,
     FinishLog, StartEmbedding, Throws, rateVars
<1>5. ASSUME NEW k \in Key, TokensOf(k) # 0
      PROVE  BucketWithin(dayBuckets'[k], req', k, now, TokensOf(k))
  <2>1. SpendersIn(req', k) \subseteq SpendersIn(req, k)
    BY <1>1, <1>2, SpendersMove
  <2>2. BucketWithin(dayBuckets[k], req, k, now, TokensOf(k))
    BY <1>5 DEF BucketsWithin
  <2>3. 0 \in Nat /\ TokensOf(k) \in Nat \ {0}
    BY <1>5, TokenLimits
  <2> QED
    BY <1>3, <2>1, <2>2, <2>3, DayBuckets, DayBucketsNext, RoomKept
<1>6. \A k \in Key : TokensOf(k)' = TokensOf(k)
  BY LimitsStay DEF TokensOf, Progress
<1> QED
  BY <1>4, <1>5, <1>6 DEF BucketsWithin

(* Who passes finds less than the limit in the bucket.                     *)
LEMMA WithinAdmit ==
    ASSUME TypeOK, TypeOK', Guarded, BucketsWithin, NEW q \in Request, Admit(q)
    PROVE  BucketsWithin'
<1>0. req \in [Request -> Req]
  BY DEF TypeOK
<1>1. OneMoves(q)
  BY RequestMoves DEF Progress
<1>2. ASSUME NEW k \in Key PROVE SpendsOf(dayBuckets[k], dayBuckets'[k], now, 0)
  <2>1. \/ dayBuckets'[k] = dayBuckets[k]
        \/ dayBuckets'[k] = DayAfter(dayBuckets[k], now, "requests", TheLimits(q).requests)
    BY DayBuckets, Holds DEF Admit
  <2>2. TheLimits(q).requests \in Nat
    BY Holds
  <2> QED
    BY <2>1, <2>2, DayBuckets, BucketSpends
<1>3. UNCHANGED now
  BY DEF Admit
<1>4. ASSUME NEW k \in Key, TokensOf(k) # 0
      PROVE  BucketWithin(dayBuckets'[k], req', k, now, TokensOf(k))
  <2>1. \/ SpendersIn(req', k) \subseteq SpendersIn(req, k)
        \/ Spent(dayBuckets[k], now) < TokensOf(k)
    <3>1. CASE Answered(q)
      <4>1. req'[q].at \notin Spending
        BY <3>1, Moved DEF Spending
      <4> QED
        BY <1>1, <4>1, SpendersMove
    <3>2. CASE ~Answered(q)
      <4>1. req[q].row.usable /\ Tokens(q) /\ Goto(q, AfterAdmit(req[q].row)) /\ At(q, "resolved")
        BY <3>2 DEF Admit
      <4>2. CASE k # req[q].key
        <5>1. req'[q].key = req[q].key
          BY <1>0, <4>1 DEF Goto
        <5> QED
          BY <1>1, <4>2, <5>1, SpendersMove
      <4>3. CASE k = req[q].key
        <5> DEFINE old == TheLimits(q).tokens
        <5>1. old \in Nat /\ TokensOf(k) \in Nat \ {0}
          BY <1>4, TokenLimits
        <5>2. old # 0 /\ old <= TokensOf(k)
          BY <1>4, <4>1, <4>3 DEF Guarded, AsMuch
        <5>3. DayAllows(dayBuckets[k], now, "tokens", old)
          BY <4>1, <4>3 DEF Tokens
        <5>4. dayBuckets[k].tokens \in Nat
          BY DayBuckets DEF DayBucket
        <5> HIDE DEF old
        <5> QED
          BY <5>1, <5>2, <5>3, <5>4 DEF DayAllows, Spent
      <4> QED
        BY <4>2, <4>3
    <3> QED
      BY <3>1, <3>2
  <2>2. BucketWithin(dayBuckets[k], req, k, now, TokensOf(k))
    BY <1>4 DEF BucketsWithin
  <2>3. 0 \in Nat /\ TokensOf(k) \in Nat \ {0}
    BY <1>4, TokenLimits
  <2> QED
    BY <1>2, <2>1, <2>2, <2>3, DayBuckets, DayBucketsNext, RoomKept
<1>5. \A k \in Key : TokensOf(k)' = TokensOf(k)
  BY LimitsStay DEF TokensOf, Progress
<1> QED
  BY <1>3, <1>4, <1>5 DEF BucketsWithin

(* A charge is covered by what was reserved.                               *)
LEMMA WithinCharge ==
    ASSUME TypeOK, TypeOK', BucketsWithin, NEW q \in Request,
           ExecuteOk(q) \/ ExecuteStream(q) \/ Embed(q)
    PROVE  BucketsWithin'
<1> DEFINE l == req[q].key
<1>0. req \in [Request -> Req] /\ l \in Key
  BY Holds DEF TypeOK
<1>1. OneMoves(q)
  BY RequestMoves DEF Progress
<1>2. req[q].at \in Spending
  BY DEF ExecuteOk, ExecuteStream, Embed, At, Spending
<1>3. req'[q].at \notin Spending
  <2>1. Answered(q) => req'[q].at \notin Spending
    BY Moved DEF Spending
  <2>2. ExecuteOk(q) \/ ExecuteStream(q) => req'[q].at = "touch"
    BY CallMoves
  <2> QED
    BY <2>1, <2>2 DEF Embed, Spending
<1>4. UNCHANGED now
  BY DEF ExecuteOk, ExecuteStream, Embed
<1>5. UNCHANGED dayBuckets \/ \E n \in Nat : n <= Max(Answers) /\ Charge(l, n)
  <2>1. \A n \in Answers : n \in Nat /\ n <= Max(Answers)
    BY Numbers
  <2>2. 0 \in Nat /\ 0 <= Max(Answers)
    <3>1. Max(Answers) \in Nat
      BY Numbers
    <3> QED
      BY <3>1
  <2>3. UNCHANGED dayBuckets \/ Charge(l, 0) \/ \E n \in Answers : Charge(l, n)
    BY DEF ExecuteOk, ExecuteStream, Embed
  <2> QED
    BY <2>1, <2>2, <2>3
<1>6. \A k \in Key : SpendersIn(req', k) \subseteq SpendersIn(req, k) \ {q}
  BY <1>1, <1>3, SpendersMove
<1>7. q \in SpendersIn(req, l)
  BY <1>0, <1>2 DEF SpendersIn
<1>8. ASSUME NEW k \in Key, TokensOf(k) # 0
      PROVE  TokensOf(k) \in Nat \ {0} /\ BucketWithin(dayBuckets[k], req, k, now, TokensOf(k))
  BY <1>8, TokenLimits DEF BucketsWithin
<1> HIDE DEF l
<1>9. ASSUME NEW k \in Key, TokensOf(k) # 0, dayBuckets'[k] = dayBuckets[k]
      PROVE  BucketWithin(dayBuckets'[k], req', k, now, TokensOf(k))
  <2>1. SpendsOf(dayBuckets[k], dayBuckets'[k], now, 0)
    BY <1>9, DayBuckets, BucketSpends
  <2>2. SpendersIn(req', k) \subseteq SpendersIn(req, k) /\ 0 \in Nat
    BY <1>6
  <2> QED
    BY <1>8, <1>9, <2>1, <2>2, DayBuckets, DayBucketsNext, RoomKept
<1>10. ASSUME NEW k \in Key, TokensOf(k) # 0, NEW n \in Nat, n <= Max(Answers), Charge(l, n)
       PROVE  BucketWithin(dayBuckets'[k], req', k, now, TokensOf(k))
  <2>1. CASE k = l
    <3>1. dayBuckets'[k] = RecordTokens(dayBuckets[k], now, n)
      BY <1>10, <2>1, DayBuckets DEF Charge
    <3>2. SpendsOf(dayBuckets[k], dayBuckets'[k], now, n)
      BY <3>1, DayBuckets, BucketSpends
    <3>3. \E p \in SpendersIn(req, k) : SpendersIn(req', k) \subseteq SpendersIn(req, k) \ {p}
      BY <1>6, <1>7, <2>1
    <3> QED
      BY <1>8, <1>10, <3>2, <3>3, DayBuckets, DayBucketsNext, RoomKept
  <2>2. CASE k # l
    BY <1>9, <1>10, <2>2, DayBuckets DEF Charge
  <2> QED
    BY <2>1, <2>2
<1>11. \A k \in Key : TokensOf(k)' = TokensOf(k)
  BY LimitsStay DEF TokensOf, Progress
<1> QED
  BY <1>4, <1>5, <1>9, <1>10, <1>11 DEF BucketsWithin

(* Time passes, or the process starts again.                               *)
LEMMA WithinTime ==
    ASSUME TypeOK, TypeOK', BucketsWithin, Tock \/ Restart
    PROVE  BucketsWithin'
<1>0. \A k \in Key : TokensOf(k)' = TokensOf(k)
  BY DEF TokensOf, Tock, Restart
<1>1. SUFFICES ASSUME NEW k \in Key, TokensOf(k) # 0
               PROVE  BucketWithin(dayBuckets'[k], req', k, now', TokensOf(k))
  BY <1>0 DEF BucketsWithin
<1>2. /\ BucketWithin(dayBuckets[k], req, k, now, TokensOf(k))
      /\ dayBuckets[k] \in DayBucket /\ now \in Nat /\ TokensOf(k) \in Nat \ {0}
  BY <1>1, DayBuckets, TokenLimits DEF BucketsWithin
<1>3. CASE Tock
  <2>1. now' = now + 1 /\ dayBuckets' = dayBuckets /\ req' = req
    BY <1>3 DEF Tock, Tick, chatVars
  <2> DEFINE b == dayBuckets[k]
             x == Reserved(req, k)
             p == Max(Answers) * Cardinality(Request)
             room == Room(TokensOf(k))
  <2>2. /\ Today(now) \in Nat /\ Today(now + 1) \in Nat /\ Today(now) <= Today(now + 1)
        /\ b.day \in Nat /\ b.tokens \in Nat /\ Spent(b, now) \in Nat
    <3>1. now + 1 \in Nat
      BY <1>2
    <3> QED
      BY <1>2, <3>1, Todays
  <2>3. x \in Nat /\ x <= p
    BY Reservations
  <2>4. room \in Nat /\ p \in Nat /\ p <= room
    BY <1>2, Numbers
  <2>5. b.day <= Today(now) /\ b.tokens <= room /\ Spent(b, now) + x <= room
    BY <1>2 DEF BucketWithin
  <2> HIDE DEF x, p, b, room
  <2>6. Spent(b, now + 1) = Spent(b, now) \/ Spent(b, now + 1) = 0
    BY <2>2, <2>5 DEF Spent
  <2>7. b.day <= Today(now + 1) /\ Spent(b, now + 1) + x <= room
    BY <2>2, <2>3, <2>4, <2>5, <2>6
  <2> QED
    BY <2>1, <2>5, <2>7 DEF BucketWithin, b, x, room
<1>4. CASE Restart
  <2>1. now' = now /\ dayBuckets'[k] = NoDay /\ SpendersIn(req', k) = {}
    BY <1>4 DEF Restart, Idle, SpendersIn, Spending
  <2> QED
    BY <1>2, <2>1, EmptyWithin
<1> QED
  BY <1>3, <1>4

(* A key is created, or its row patched.                                   *)
LEMMA WithinKeys ==
    ASSUME TypeOK, TypeOK', Honest, Guarded, BucketsWithin, KeyStep, UNCHANGED chatVars, NeverLowered
    PROVE  Guarded' /\ BucketsWithin'
<1>1. req' = req /\ now' = now /\ dayBuckets' = dayBuckets
  BY DEF chatVars, KeyStep, DemoRefused, CreateKey, DemoCreate, DemoMark, DemoMarkFails, Patch,
     Revoke, Rotate, Expires, rateVars
<1>2. /\ \A k \in Key : TokensOf(k) \in Nat /\ keys'[k].limits.tokens \in Nat
      /\ \A q \in Request : TheLimits(q).tokens \in Nat
  BY TokenLimits, TokenLimitsNext
<1>3. \A k \in Key : Exists(k) => AsMuch(keys'[k].limits.tokens, TokensOf(k))
  BY DEF NeverLowered, TokensOf
<1>4. \A k \in Key : /\ Exists(k) => Exists(k)'
                     /\ ~Exists(k) => RowCreated(k) \/ keys'[k].limits = keys[k].limits
  BY RowChanges DEF RowCreated, RowKept, LimitsKept
<1>5. ASSUME NEW q \in Request, req[q].at = "resolved", req[q].row.usable
      PROVE  AsMuch(keys'[req[q].key].limits.tokens, TheLimits(q).tokens)
  <2>1. Exists(req[q].key) /\ req[q].key \in Key
    BY <1>5, Holds DEF Honest
  <2>2. AsMuch(TokensOf(req[q].key), TheLimits(q).tokens)
    BY <1>5 DEF Guarded, At
  <2> QED
    BY <1>2, <1>3, <2>1, <2>2 DEF AsMuch
<1>6. ASSUME NEW k \in Key, ~Exists(k)' PROVE dayBuckets[k] = NoDay
  BY <1>4, <1>6 DEF Guarded, Exists
<1>7. Guarded'
  BY <1>1, <1>5, <1>6 DEF Guarded, Exists, At, TheLimits, TokensOf
<1>8. ASSUME NEW k \in Key, keys'[k].limits.tokens # 0
      PROVE  BucketWithin(dayBuckets[k], req, k, now, keys'[k].limits.tokens)
  <2>0. dayBuckets[k] \in DayBucket /\ now \in Nat
    BY DayBuckets
  <2>1. CASE Exists(k)
    <3>1. TokensOf(k) # 0 /\ TokensOf(k) <= keys'[k].limits.tokens
      BY <1>3, <1>8, <2>1 DEF AsMuch
    <3>2. BucketWithin(dayBuckets[k], req, k, now, TokensOf(k))
      BY <3>1 DEF BucketsWithin
    <3> QED
      BY <1>2, <2>0, <3>1, <3>2, RaisedWithin
  <2>2. CASE ~Exists(k)
    <3>1. dayBuckets[k] = NoDay
      BY <2>2 DEF Guarded
    <3>2. SpendersIn(req, k) = {}
      BY <2>2 DEF SpendersIn, Spending, Honest
    <3>3. keys'[k].limits.tokens \in Nat \ {0}
      BY <1>2, <1>8
    <3> QED
      BY <2>0, <3>1, <3>2, <3>3, EmptyWithin
  <2> QED
    BY <2>1, <2>2
<1>9. BucketsWithin'
  BY <1>1, <1>8 DEF BucketsWithin, TokensOf
<1> QED
  BY <1>7, <1>9

LEMMA WithinKept ==
    ASSUME TypeOK, TypeOK', IdsTyped, Within, NeverLowered, Next
    PROVE  Within'
<1>0. Honest /\ Guarded /\ BucketsWithin
  BY DEF Within
<1>1. Honest'
  BY <1>0, HonestKept
<1>2. ASSUME NEW q \in Request, Resolve(q) \/ Progress(q) \/ Throws(q) PROVE Guarded' /\ BucketsWithin'
  <2>1. Guarded'
    BY <1>0, <1>2, GuardedRequest
  <2>2. BucketsWithin'
    BY <1>0, <1>2, WithinQuiet, WithinAdmit, WithinCharge DEF Progress
  <2> QED
    BY <2>1, <2>2
<1>3. ASSUME KeyStep, UNCHANGED chatVars PROVE Guarded' /\ BucketsWithin'
  BY <1>0, <1>3, WithinKeys
<1>4. ASSUME Tock \/ Restart PROVE Guarded' /\ BucketsWithin'
  <2>1. UNCHANGED keys /\ (UNCHANGED req \/ req' = [q \in Request |-> Idle])
        /\ (UNCHANGED dayBuckets \/ dayBuckets' = [k \in Key |-> NoDay])
    BY <1>4 DEF Tock, Tick, Restart, chatVars
  <2>2. Guarded'
    BY <1>0, <2>1 DEF Guarded, Exists, At, TheLimits, TokensOf, Idle
  <2> QED
    BY <1>0, <1>4, <2>2, WithinTime
<1> QED
  BY <1>1, <1>2, <1>3, <1>4 DEF Next, Within

(* A key's tokens of a day exceed its limit by at most what the requests   *)
(* in progress bring in, while the limits of keys that exist are only      *)
(* raised or taken away: for any limits, of any number of keys, and any    *)
(* requests, answers, restarts and days (enforceDailyTokens,               *)
(* recordTokenUsage).                                                      *)
THEOREM OvershootIsBounded == Spec /\ [][NeverLowered]_vars => []OvershootBounded
<1>1. Init => Within
  <2> SUFFICES ASSUME Init PROVE Within
    OBVIOUS
  <2>1. \A k \in Key : TokensOf(k) = 0 /\ dayBuckets[k] = NoDay
    BY DEF Init, KeysInit, RateInit, NoBuckets, NoKey, NoLimits, TokensOf
  <2>2. \A q \in Request : req[q].at = "idle" /\ ~req[q].ok
    BY DEF Init, Idle
  <2>3. Honest
    BY <2>2 DEF Init, KeysInit, Honest, NoKey
  <2> QED
    BY <2>1, <2>2, <2>3 DEF Within, Guarded, BucketsWithin, At
<1>2. Inv /\ Inv' /\ Within /\ [Next]_vars /\ [NeverLowered]_vars => Within'
  <2> SUFFICES ASSUME Inv, Inv', Within, [Next]_vars, [NeverLowered]_vars PROVE Within'
    OBVIOUS
  <2>1. CASE UNCHANGED vars
    <3>1. keys' = keys /\ req' = req /\ now' = now /\ dayBuckets' = dayBuckets
      BY <2>1 DEF vars, keyVars, chatVars, rateVars
    <3> QED
      BY <3>1 DEF Within, Honest, Guarded, BucketsWithin, Exists, At, TheLimits, TokensOf
  <2>2. CASE Next /\ NeverLowered
    BY <2>2, WithinKept DEF Inv
  <2> QED
    BY <2>1, <2>2
<1>3. Within => OvershootBounded
  BY DEF OvershootBounded, Within, BucketsWithin, BucketWithin, Room, TokensOf
<1> QED
  BY <1>1, <1>2, <1>3, Invariance, PTL DEF Spec

-----------------------------------------------------------------------------
(* The pieces of a sequence put together.                                  *)
IsFlat(f, q) == f = [i \in 1..Len(q) |-> IF i = 1 THEN q[i] ELSE f[i - 1] \o q[i]]

LEMMA FlatExists ==
    ASSUME NEW S, NEW q \in Seq(Seq(S))
    PROVE  \E f : IsFlat(f, q)
<1> DEFINE V(f, i) == IF i = 1 THEN q[i] ELSE f[i - 1] \o q[i]
           N == {n \in Nat : n <= Len(q) =>
                    \E f \in [1..n -> Seq(S)] : \A i \in 1..n : f[i] = V(f, i)}
<1>1. Len(q) \in Nat /\ \A i \in 1..Len(q) : q[i] \in Seq(S)
  OBVIOUS
<1>2. 0 \in N
  <2> DEFINE f == [i \in 1..0 |-> <<>>]
  <2>1. f \in [1..0 -> Seq(S)] /\ \A i \in 1..0 : f[i] = V(f, i)
    OBVIOUS
  <2> QED
    BY <2>1
<1>3. ASSUME NEW n \in N PROVE n + 1 \in N
  <2>0. n \in Nat /\ n + 1 \in Nat
    OBVIOUS
  <2> SUFFICES ASSUME n + 1 <= Len(q)
               PROVE  \E g \in [1..(n + 1) -> Seq(S)] : \A i \in 1..(n + 1) : g[i] = V(g, i)
    <3> HIDE DEF V
    <3> QED
      BY <2>0
  <2>1. PICK f \in [1..n -> Seq(S)] : \A i \in 1..n : f[i] = V(f, i)
    <3>1. n <= Len(q)
      BY <1>1, <2>0
    <3> HIDE DEF V
    <3> QED
      BY <3>1
  <2> DEFINE g == [i \in 1..(n + 1) |-> IF i = n + 1 THEN V(f, i) ELSE f[i]]
  <2>2. V(f, n + 1) \in Seq(S)
    <3>1. n + 1 \in 1..Len(q)
      BY <1>1
    <3>2. CASE n = 0
      BY <1>1, <3>1, <3>2
    <3>3. CASE n # 0
      <4>1. n \in 1..n /\ (n + 1) - 1 = n /\ n + 1 # 1
        BY <3>3
      <4>2. f[n] \in Seq(S) /\ q[n + 1] \in Seq(S)
        BY <1>1, <3>1, <4>1
      <4> QED
        BY <4>1, <4>2, ConcatProperties
    <3> QED
      BY <3>2, <3>3
  <2>3. g \in [1..(n + 1) -> Seq(S)]
    <3> HIDE DEF V
    <3> QED
      BY <2>2
  <2>4. \A i \in 1..(n + 1) : g[i] = V(g, i)
    <3> TAKE i \in 1..(n + 1)
    <3>1. i # 1 => i - 1 \in 1..n /\ g[i - 1] = f[i - 1]
      OBVIOUS
    <3>2. V(g, i) = V(f, i)
      BY <3>1
    <3>3. g[i] = V(f, i)
      <4> HIDE DEF V
      <4>1. CASE i = n + 1
        BY <4>1
      <4>2. CASE i # n + 1
        BY <2>1, <4>2
      <4> QED
        BY <4>1, <4>2
    <3> QED
      BY <3>2, <3>3
  <2> HIDE DEF g
  <2> QED
    BY <2>3, <2>4
<1>4. Len(q) \in N
  <2> HIDE DEF N
  <2>1. N \in SUBSET Nat
    BY DEF N
  <2> QED
    BY <1>1, <1>2, <1>3, <2>1, NatSetInduction
<1>5. PICK f \in [1..Len(q) -> Seq(S)] : \A i \in 1..Len(q) : f[i] = V(f, i)
  BY <1>4
<1>6. f = [i \in 1..Len(q) |-> V(f, i)]
  BY <1>5
<1> QED
  BY <1>6 DEF IsFlat

LEMMA FlatIs ==
    ASSUME NEW S, NEW q \in Seq(Seq(S)), q # <<>>
    PROVE  \E f : IsFlat(f, q) /\ FlattenSeq(q) = f[Len(q)]
<1> DEFINE f == CHOOSE f : IsFlat(f, q)
<1>1. IsFlat(f, q)
  BY FlatExists
<1>2. Len(q) # 0
  OBVIOUS
<1>3. FlattenSeq(q) = f[Len(q)]
  BY <1>2 DEF FlattenSeq, IsFlat
<1> QED
  BY <1>1, <1>3

(* What is put together of a sequence depends on no more than its pieces.  *)
LEMMA FlatAgree ==
    ASSUME NEW S, NEW q \in Seq(Seq(S)), NEW r \in Seq(Seq(S)), NEW f, NEW g,
           IsFlat(f, q), IsFlat(g, r), NEW m \in Nat, m <= Len(q), m <= Len(r),
           \A i \in 1..m : q[i] = r[i]
    PROVE  \A i \in 1..m : f[i] = g[i] /\ f[i] \in Seq(S)
<1> DEFINE N == {n \in Nat : n <= m => \A i \in 1..n : f[i] = g[i] /\ f[i] \in Seq(S)}
<1>1. /\ Len(q) \in Nat /\ Len(r) \in Nat
      /\ \A i \in 1..m : q[i] \in Seq(S) /\ i \in 1..Len(q) /\ i \in 1..Len(r)
  OBVIOUS
<1>2. \A i \in 1..m : /\ f[i] = IF i = 1 THEN q[i] ELSE f[i - 1] \o q[i]
                      /\ g[i] = IF i = 1 THEN r[i] ELSE g[i - 1] \o r[i]
  BY <1>1 DEF IsFlat
<1>3. 0 \in N
  OBVIOUS
<1>4. ASSUME NEW n \in N PROVE n + 1 \in N
  <2> SUFFICES ASSUME n + 1 <= m PROVE f[n + 1] = g[n + 1] /\ f[n + 1] \in Seq(S)
    <3>1. n \in Nat /\ n + 1 \in Nat /\ (n + 1 <= m => n <= m)
          /\ \A i \in 1..(n + 1) : i \in 1..n \/ i = n + 1
      OBVIOUS
    <3>2. n <= m => \A i \in 1..n : f[i] = g[i] /\ f[i] \in Seq(S)
      OBVIOUS
    <3> QED
      BY <3>1, <3>2
  <2>1. n + 1 \in 1..m /\ q[n + 1] = r[n + 1] /\ q[n + 1] \in Seq(S)
    BY <1>1
  <2>2. CASE n = 0
    BY <1>2, <2>1, <2>2
  <2>3. CASE n # 0
    <3>1. n \in 1..n /\ n <= m /\ (n + 1) - 1 = n /\ n + 1 # 1
      BY <2>3
    <3>2. f[n] = g[n] /\ f[n] \in Seq(S)
      BY <3>1
    <3>3. f[n + 1] = f[n] \o q[n + 1] /\ g[n + 1] = g[n] \o r[n + 1]
      BY <1>2, <2>1, <3>1
    <3> QED
      BY <2>1, <3>2, <3>3, ConcatProperties
  <2> QED
    BY <2>2, <2>3
<1>5. m \in N
  <2> HIDE DEF N
  <2>1. N \in SUBSET Nat
    BY DEF N
  <2> QED
    BY <1>3, <1>4, <2>1, NatSetInduction
<1> QED
  BY <1>5

LEMMA FlattenNone == FlattenSeq(<<>>) = <<>>
<1>1. Len(<<>>) = 0
  OBVIOUS
<1> QED
  BY <1>1 DEF FlattenSeq

LEMMA FlattenType ==
    ASSUME NEW S, NEW q \in Seq(Seq(S))
    PROVE  FlattenSeq(q) \in Seq(S)
<1>1. CASE q = <<>>
  BY <1>1, FlattenNone, EmptySeq
<1>2. CASE q # <<>>
  <2>1. PICK f : IsFlat(f, q) /\ FlattenSeq(q) = f[Len(q)]
    BY <1>2, FlatIs
  <2>2. Len(q) \in Nat /\ Len(q) \in 1..Len(q)
    BY <1>2
  <2> QED
    BY <2>1, <2>2, FlatAgree
<1> QED
  BY <1>1, <1>2

LEMMA FlattenAppend ==
    ASSUME NEW S, NEW q \in Seq(Seq(S)), NEW x \in Seq(S)
    PROVE  FlattenSeq(Append(q, x)) = FlattenSeq(q) \o x
<1> DEFINE r == Append(q, x)
<1>1. /\ r \in Seq(Seq(S)) /\ r # <<>> /\ Len(r) = Len(q) + 1 /\ Len(q) \in Nat
      /\ \A i \in 1..Len(q) : q[i] = r[i]
      /\ r[Len(q) + 1] = x
  BY AppendProperties
<1> HIDE DEF r
<1>2. PICK g : IsFlat(g, r) /\ FlattenSeq(r) = g[Len(r)]
  BY <1>1, FlatIs
<1>3. g[Len(r)] = IF Len(r) = 1 THEN r[Len(r)] ELSE g[Len(r) - 1] \o r[Len(r)]
  <2>1. Len(r) \in 1..Len(r)
    BY <1>1
  <2> QED
    BY <1>2, <2>1 DEF IsFlat
<1>4. CASE q = <<>>
  <2>1. Len(q) = 0
    BY <1>4
  <2> QED
    BY <1>1, <1>2, <1>3, <1>4, <2>1, FlattenNone, ConcatEmptySeq DEF r
<1>5. CASE q # <<>>
  <2>1. PICK f : IsFlat(f, q) /\ FlattenSeq(q) = f[Len(q)]
    BY <1>5, FlatIs
  <2>2. Len(q) \in 1..Len(q) /\ Len(r) # 1 /\ Len(r) - 1 = Len(q) /\ Len(q) <= Len(r)
    BY <1>1, <1>5
  <2>3. f[Len(q)] = g[Len(q)]
    <3> DEFINE m == Len(q)
    <3>1. /\ m \in Nat /\ m <= Len(q) /\ m <= Len(r) /\ m \in 1..m
          /\ \A i \in 1..m : q[i] = r[i]
      BY <1>1, <2>2
    <3>2. IsFlat(f, q) /\ IsFlat(g, r) /\ r \in Seq(Seq(S))
      BY <1>1, <1>2, <2>1
    <3> HIDE DEF m
    <3>3. \A i \in 1..m : f[i] = g[i] /\ f[i] \in Seq(S)
      BY <3>1, <3>2, FlatAgree
    <3> QED
      BY <3>1, <3>3 DEF m
  <2> QED
    BY <1>1, <1>2, <1>3, <2>1, <2>2, <2>3 DEF r
<1> QED
  BY <1>4, <1>5

LEMMA FlattenOne == ASSUME NEW S, NEW x \in Seq(S) PROVE FlattenSeq(<<x>>) = x
<1>1. <<x>> = Append(<<>>, x) /\ <<>> \in Seq(Seq(S))
  OBVIOUS
<1> QED
  <2>1. FlattenSeq(Append(<<>>, x)) = FlattenSeq(<<>>) \o x
    BY <1>1, FlattenAppend
  <2>2. <<>> \o x = x
    BY ConcatEmptySeq
  <2> QED
    BY <1>1, <2>1, <2>2, FlattenNone

LEMMA Associative ==
    ASSUME NEW S, NEW a \in Seq(S), NEW b \in Seq(S), NEW c \in Seq(S)
    PROVE  (a \o b) \o c = a \o (b \o c)
BY ConcatAssociative

LEMMA FlattenConcatStep ==
    ASSUME NEW S, NEW q \in Seq(Seq(S)), NEW v \in Seq(Seq(S)), NEW x \in Seq(S),
           FlattenSeq(q \o v) = FlattenSeq(q) \o FlattenSeq(v)
    PROVE  FlattenSeq(q \o Append(v, x)) = FlattenSeq(q) \o FlattenSeq(Append(v, x))
<1>1. q \o Append(v, x) = Append(q \o v, x) /\ q \o v \in Seq(Seq(S))
  BY ConcatProperties, SMTT(30)
<1>2. FlattenSeq(Append(q \o v, x)) = FlattenSeq(q \o v) \o x
  BY <1>1, FlattenAppend
<1>3. FlattenSeq(Append(v, x)) = FlattenSeq(v) \o x
  BY FlattenAppend
<1>4. FlattenSeq(q) \in Seq(S) /\ FlattenSeq(v) \in Seq(S)
  BY FlattenType
<1>5. (FlattenSeq(q) \o FlattenSeq(v)) \o x = FlattenSeq(q) \o (FlattenSeq(v) \o x)
  BY <1>4, Associative
<1> QED
  BY <1>1, <1>2, <1>3, <1>5

LEMMA FlattenConcat ==
    ASSUME NEW S, NEW q \in Seq(Seq(S)), NEW r \in Seq(Seq(S))
    PROVE  FlattenSeq(q \o r) = FlattenSeq(q) \o FlattenSeq(r)
<1> DEFINE N == {n \in Nat : \A u \in Seq(Seq(S)) : Len(u) = n =>
                    FlattenSeq(q \o u) = FlattenSeq(q) \o FlattenSeq(u)}
<1>1. 0 \in N
  <2> SUFFICES ASSUME NEW u \in Seq(Seq(S)), Len(u) = 0
               PROVE  FlattenSeq(q \o u) = FlattenSeq(q) \o FlattenSeq(u)
    OBVIOUS
  <2>1. u = <<>>
    OBVIOUS
  <2>2. q \o u = q /\ FlattenSeq(u) = <<>>
    BY <2>1, ConcatEmptySeq, FlattenNone
  <2> QED
    BY <2>2, FlattenType, ConcatEmptySeq
<1>2. ASSUME NEW n \in N PROVE n + 1 \in N
  <2> SUFFICES ASSUME NEW u \in Seq(Seq(S)), Len(u) = n + 1
               PROVE  FlattenSeq(q \o u) = FlattenSeq(q) \o FlattenSeq(u)
    OBVIOUS
  <2>1. PICK v \in Seq(Seq(S)), x \in Seq(S) : u = Append(v, x)
    <3>1. u # <<>>
      OBVIOUS
    <3> QED
      BY <3>1, SequenceEmptyOrAppend
  <2>2. Len(v) = n
    BY <2>1, AppendProperties
  <2>3. FlattenSeq(q \o v) = FlattenSeq(q) \o FlattenSeq(v)
    BY <2>2
  <2>4. FlattenSeq(q \o Append(v, x)) = FlattenSeq(q) \o FlattenSeq(Append(v, x))
    <3> HIDE DEF N
    <3> QED
      BY <2>3, FlattenConcatStep
  <2> QED
    BY <2>1, <2>4
<1>3. Len(r) \in N
  <2> HIDE DEF N
  <2>1. N \in SUBSET Nat /\ Len(r) \in Nat
    BY DEF N
  <2> QED
    BY <1>1, <1>2, <2>1, NatSetInduction
<1> QED
  BY <1>3

-----------------------------------------------------------------------------
(* Decoding.                                                               *)
Symbol == {"data", "json", "nl", "lead", "trail", "broken", "[DONE]", "char", "U+FFFD"}
Byte == [of : SUBSET (StreamId \X Nat), is : Symbol]
NotNl == {b \in Byte : b.is # "nl"}
Chars(q) == [j \in 1..Len(q) |-> Character(q, j)]

LEMMA CharacterType ==
    ASSUME NEW q \in Seq(Byte), NEW j \in 1..Len(q)
    PROVE  Character(q, j) \in Seq(Byte) /\ (q[j].is # "nl" => Character(q, j) \in Seq(NotNl))
<1>1. /\ DOMAIN q = 1..Len(q) /\ q[j] \in Byte /\ Len(q) \in Nat
      /\ \A i \in 1..Len(q) : q[i] \in Byte
  OBVIOUS
<1> DEFINE torn == [of |-> q[j].of, is |-> "U+FFFD"]
           both == [of |-> q[j].of \cup q[j + 1].of, is |-> "char"]
<1>2. torn \in NotNl /\ (IsAt(q, j + 1, "trail") => both \in NotNl)
  <2>1. \A b, d \in Byte : b.of \cup d.of \in SUBSET (StreamId \X Nat) /\ b.of \in SUBSET (StreamId \X Nat)
    BY DEF Byte
  <2>2. \A w \in SUBSET (StreamId \X Nat) :
           [of |-> w, is |-> "U+FFFD"] \in NotNl /\ [of |-> w, is |-> "char"] \in NotNl
    BY DEF Byte, NotNl, Symbol
  <2>3. IsAt(q, j + 1, "trail") => q[j + 1] \in Byte
    BY <1>1 DEF IsAt
  <2> QED
    BY <1>1, <2>1, <2>2, <2>3
<1>3. q[j].is # "nl" => q[j] \in NotNl
  BY <1>1 DEF NotNl
<1>4. \/ Character(q, j) = <<both>> /\ both \in NotNl
      \/ Character(q, j) = <<torn>>
      \/ Character(q, j) = <<>>
      \/ Character(q, j) = <<q[j]>>
  BY <1>2 DEF Character
<1>5. NotNl \subseteq Byte
  BY DEF NotNl
<1> HIDE DEF torn, both
<1>6. \A b \in NotNl : <<b>> \in Seq(NotNl) /\ <<b>> \in Seq(Byte)
  BY <1>5
<1>7. <<>> \in Seq(NotNl) /\ <<>> \in Seq(Byte) /\ <<q[j]>> \in Seq(Byte)
  BY <1>1
<1> QED
  BY <1>2, <1>3, <1>4, <1>6, <1>7

LEMMA DecodedType ==
    ASSUME NEW q \in Seq(Byte)
    PROVE  /\ Chars(q) \in Seq(Seq(Byte)) /\ Decoded(q) \in Seq(Byte) /\ Held(q) \in Seq(Byte)
           /\ Decoded(q) = FlattenSeq(Chars(q)) /\ Len(Chars(q)) = Len(q)
<1>1. Len(q) \in Nat /\ \A j \in 1..Len(q) : q[j] \in Byte /\ Character(q, j) \in Seq(Byte)
  BY CharacterType
<1>2. Chars(q) \in Seq(Seq(Byte)) /\ Len(Chars(q)) = Len(q)
  BY <1>1 DEF Chars
<1>3. Decoded(q) = FlattenSeq(Chars(q))
  BY DEF Decoded, Chars
<1>4. Held(q) \in Seq(Byte)
  BY <1>1 DEF Held, IsAt, Last
<1> QED
  BY <1>2, <1>3, <1>4, FlattenType

(* Of bytes without a newline, text without a newline.                     *)
LEMMA DecodedNoLine ==
    ASSUME NEW q \in Seq(NotNl)
    PROVE  ~HasLine(Decoded(q))
<1>1. q \in Seq(Byte) /\ Len(q) \in Nat /\ \A j \in 1..Len(q) : q[j].is # "nl"
  BY DEF NotNl
<1>2. \A j \in 1..Len(q) : Character(q, j) \in Seq(NotNl)
  BY <1>1, CharacterType
<1>3. Chars(q) \in Seq(Seq(NotNl))
  BY <1>1, <1>2 DEF Chars
<1>4. Decoded(q) \in Seq(NotNl)
  BY <1>1, <1>3, FlattenType, DecodedType
<1> QED
  BY <1>4 DEF HasLine, LineEnds, NotNl

LEMMA DecodedNone == Decoded(<<>>) = <<>> /\ Held(<<>>) = <<>>
<1>1. Chars(<<>>) = <<>> /\ <<>> \in Seq(Byte) /\ Len(<<>>) = 0
  BY DEF Chars
<1> QED
  <2>1. Decoded(<<>>) = <<>>
    BY <1>1, FlattenNone, DecodedType
  <2>2. DOMAIN <<>> = {}
    OBVIOUS
  <2> QED
    BY <1>1, <2>1, <2>2 DEF Held, IsAt

(* What follows decodes as if nothing was before it, but a trail its lead; *)
(* and what is before decodes as if nothing followed, but a lead.          *)
Begins(c, q, a, n) ==
    /\ Len(q) = a /\ Len(c) = n /\ a < n /\ DOMAIN c = 1..n /\ DOMAIN q = 1..a
    /\ \A i \in 1..a : c[i] = q[i]

LEMMA HeadCharacter ==
    ASSUME NEW c, NEW q, NEW a \in Nat, NEW n \in Nat, Begins(c, q, a, n),
           NEW j \in 1..a, ~(j = a /\ q[j].is = "lead")
    PROVE  Character(c, j) = Character(q, j)
<1> USE DEF Begins
<1>1. c[j] = q[j] /\ j # Len(c)
  OBVIOUS
<1>2. IsAt(c, j - 1, "lead") <=> IsAt(q, j - 1, "lead")
  <2>1. CASE j = 1
    BY <2>1 DEF IsAt
  <2>2. CASE j # 1
    <3>1. j - 1 \in 1..a /\ j - 1 \in 1..n
      BY <2>2
    <3> QED
      BY <3>1 DEF IsAt
  <2> QED
    BY <2>1, <2>2
<1>3. CASE j = a
  BY <1>1, <1>2, <1>3 DEF Character
<1>4. CASE j # a
  <2>1. j + 1 \in 1..a /\ j + 1 \in 1..n /\ j # Len(q)
    BY <1>4
  <2>2. (IsAt(c, j + 1, "trail") <=> IsAt(q, j + 1, "trail")) /\ c[j + 1] = q[j + 1]
    BY <2>1 DEF IsAt
  <2> QED
    BY <1>1, <1>2, <2>1, <2>2 DEF Character
<1> QED
  BY <1>3, <1>4

LEMMA Joined ==
    ASSUME NEW q \in Seq(Byte), NEW x \in Seq(Byte), NEW c, c = q \o x
    PROVE  /\ c \in Seq(Byte) /\ Len(c) = Len(q) + Len(x) /\ Len(q) \in Nat /\ Len(x) \in Nat
           /\ DOMAIN c = 1..(Len(q) + Len(x)) /\ DOMAIN q = 1..Len(q) /\ DOMAIN x = 1..Len(x)
           /\ \A i \in 1..Len(q) : c[i] = q[i]
           /\ \A i \in 1..Len(x) : c[Len(q) + i] = x[i]
OBVIOUS

NotTorn(c, x, a) == ~(IsAt(c, a, "lead") /\ IsAt(x, 1, "trail"))
HeadOf(c, a) == [j \in 1..a |-> Character(c, j)]

LEMMA TailDecoded ==
    ASSUME NEW q \in Seq(Byte), NEW x \in Seq(Byte), NEW c, c = q \o x,
           NotTorn(c, x, Len(q))
    PROVE  /\ HeadOf(c, Len(q)) \in Seq(Seq(Byte))
           /\ Decoded(c) = FlattenSeq(HeadOf(c, Len(q))) \o Decoded(x)
<1> DEFINE a == Len(q)  b == Len(x)  head == HeadOf(c, Len(q))
<1>1. /\ c \in Seq(Byte) /\ Len(c) = a + b /\ a \in Nat /\ b \in Nat
      /\ DOMAIN c = 1..(a + b) /\ DOMAIN x = 1..b
      /\ \A i \in 1..b : c[a + i] = x[i]
  BY Joined
<1>2. head = [j \in 1..a |-> Character(c, j)] /\ Len(x) = b
      /\ ~(IsAt(c, a, "lead") /\ IsAt(x, 1, "trail"))
  BY DEF NotTorn, HeadOf
<1> HIDE DEF a, b, head
<1>3. \A j \in 1..b : Character(c, a + j) = Character(x, j)
  <2> TAKE j \in 1..b
  <2> USE <1>1, <1>2
  <2>1. c[a + j] = x[j] /\ (a + j = Len(c) <=> j = Len(x))
    OBVIOUS
  <2>2. /\ IsAt(c, (a + j) + 1, "trail") <=> IsAt(x, j + 1, "trail")
        /\ IsAt(x, j + 1, "trail") => c[(a + j) + 1] = x[j + 1]
    <3>1. CASE j = b
      BY <3>1 DEF IsAt
    <3>2. CASE j # b
      <4>1. j + 1 \in 1..b /\ (a + j) + 1 = a + (j + 1) /\ a + (j + 1) \in 1..(a + b)
        BY <3>2
      <4> QED
        BY <4>1 DEF IsAt
    <3> QED
      BY <3>1, <3>2
  <2>3. x[j].is = "trail" => (IsAt(c, (a + j) - 1, "lead") <=> IsAt(x, j - 1, "lead"))
    <3>1. CASE j = 1
      <4>1. (a + j) - 1 = a /\ ~IsAt(x, j - 1, "lead")
        BY <3>1 DEF IsAt
      <4>2. x[j].is = "trail" => IsAt(x, 1, "trail")
        BY <3>1 DEF IsAt
      <4> QED
        BY <4>1, <4>2
    <3>2. CASE j # 1
      <4>1. j - 1 \in 1..b /\ (a + j) - 1 = a + (j - 1) /\ a + (j - 1) \in 1..(a + b)
        BY <3>2
      <4> QED
        BY <4>1 DEF IsAt
    <3> QED
      BY <3>1, <3>2
  <2> QED
    BY <2>1, <2>2, <2>3 DEF Character
<1>4. \A j \in 1..a : Character(c, j) \in Seq(Byte)
  <2>1. \A j \in 1..Len(c) : Character(c, j) \in Seq(Byte)
    BY <1>1, CharacterType
  <2>2. \A j \in 1..a : j \in 1..Len(c)
    BY <1>1
  <2> QED
    BY <2>1, <2>2
<1>5. head \in Seq(Seq(Byte)) /\ Len(head) = a
  BY <1>1, <1>2, <1>4
<1>6. /\ Chars(c) \in Seq(Seq(Byte)) /\ Chars(x) \in Seq(Seq(Byte))
      /\ Len(Chars(c)) = a + b /\ Len(Chars(x)) = b
  BY <1>1, <1>2, DecodedType
<1>7. /\ head \o Chars(x) \in Seq(Seq(Byte)) /\ Len(head \o Chars(x)) = a + b
      /\ \A i \in 1..(a + b) : (head \o Chars(x))[i] = IF i <= a THEN head[i] ELSE Chars(x)[i - a]
  <2> DEFINE u == Chars(x)
  <2>1. head \in Seq(Seq(Byte)) /\ u \in Seq(Seq(Byte)) /\ Len(head) = a /\ Len(u) = b
    BY <1>5, <1>6
  <2> HIDE DEF u
  <2>2. /\ head \o u \in Seq(Seq(Byte)) /\ Len(head \o u) = Len(head) + Len(u)
        /\ \A i \in 1..(Len(head) + Len(u)) :
              (head \o u)[i] = IF i <= Len(head) THEN head[i] ELSE u[i - Len(head)]
    BY <2>1, ConcatProperties
  <2> QED
    BY <2>1, <2>2 DEF u
<1>8. ASSUME NEW i \in 1..(a + b) PROVE Chars(c)[i] = (head \o Chars(x))[i]
  <2>0. Chars(c)[i] = Character(c, i)
    BY <1>1 DEF Chars
  <2>1. CASE i <= a
    <3>1. i \in 1..a
      BY <1>1, <2>1
    <3> QED
      BY <1>2, <1>7, <2>0, <2>1, <3>1
  <2>2. CASE ~(i <= a)
    <3>1. i - a \in 1..b /\ a + (i - a) = i
      BY <1>1, <2>2
    <3>2. Character(c, i) = Character(x, i - a)
      BY <1>3, <3>1
    <3>3. Chars(x)[i - a] = Character(x, i - a)
      BY <1>2, <3>1 DEF Chars
    <3> QED
      BY <1>7, <2>0, <2>2, <3>2, <3>3
  <2> QED
    BY <2>1, <2>2
<1>9. Chars(c) = head \o Chars(x)
  BY <1>6, <1>7, <1>8, SeqEqual
<1>10. Decoded(c) = FlattenSeq(Chars(c)) /\ Decoded(x) = FlattenSeq(Chars(x))
  BY <1>1, DecodedType
<1>11. FlattenSeq(head \o Chars(x)) = FlattenSeq(head) \o FlattenSeq(Chars(x))
  BY <1>5, <1>6, FlattenConcat
<1> QED
  BY <1>5, <1>9, <1>10, <1>11 DEF head, a

(* A decoder that holds a lead back decodes piece by piece what it would   *)
(* decode at once.                                                         *)
LEMMA DecodedConcat ==
    ASSUME NEW q \in Seq(Byte), NEW x \in Seq(Byte), x # <<>>
    PROVE  /\ Decoded(q \o x) = Decoded(q) \o Decoded(Held(q) \o x)
           /\ Held(q \o x) = Held(Held(q) \o x)
<1> DEFINE c == q \o x
<1>1. /\ c \in Seq(Byte) /\ Len(c) = Len(q) + Len(x) /\ Len(q) \in Nat /\ Len(x) \in Nat
      /\ DOMAIN c = 1..(Len(q) + Len(x)) /\ DOMAIN q = 1..Len(q) /\ DOMAIN x = 1..Len(x)
      /\ \A i \in 1..Len(q) : c[i] = q[i]
      /\ \A i \in 1..Len(x) : c[Len(q) + i] = x[i]
  BY Joined
<1>2. Len(x) > 0 /\ c = q \o x
  OBVIOUS
<1> HIDE DEF c
<1>3. CASE ~IsAt(q, Len(q), "lead")
  <2>1. Held(q) = <<>> /\ Held(q) \o x = x
    BY <1>3 DEF Held
  <2>2. ~IsAt(c, Len(q), "lead")
    BY <1>1, <1>3 DEF IsAt
  <2>3. \A j \in 1..Len(q) : Character(c, j) = Character(q, j)
    <3> TAKE j \in 1..Len(q)
    <3>1. ~(j = Len(q) /\ q[j].is = "lead")
      BY <1>1, <1>3 DEF IsAt
    <3>2. Begins(c, q, Len(q), Len(c)) /\ Len(c) \in Nat
      BY <1>1, <1>2 DEF Begins
    <3>3. Len(q) \in Nat
      BY <1>1
    <3> QED
      BY <3>1, <3>2, <3>3, HeadCharacter
  <2>4. HeadOf(c, Len(q)) = Chars(q)
    BY <2>3 DEF Chars, HeadOf
  <2>5. Decoded(c) = FlattenSeq(Chars(q)) \o Decoded(x)
    <3>1. NotTorn(c, x, Len(q))
      BY <2>2 DEF NotTorn
    <3>2. Decoded(c) = FlattenSeq(HeadOf(c, Len(q))) \o Decoded(x)
      BY <1>2, <3>1, TailDecoded
    <3> QED
      BY <2>4, <3>2
  <2>6. Held(c) = Held(x)
    <3>1. c[Len(c)] = x[Len(x)]
      BY <1>1, <1>2
    <3> QED
      BY <1>1, <1>2, <3>1 DEF Held, IsAt, Last
  <2> QED
    BY <1>2, <2>1, <2>5, <2>6, DecodedType
<1>4. CASE IsAt(q, Len(q), "lead")
  <2> DEFINE p == SubSeq(q, 1, Len(q) - 1)  lead == q[Len(q)]  y == <<lead>> \o x
  <2>1. /\ p \in Seq(Byte) /\ lead \in Byte /\ lead.is = "lead" /\ q = Append(p, lead)
        /\ Len(p) = Len(q) - 1 /\ Held(q) = <<lead>> /\ Len(q) > 0
    BY <1>1, <1>4 DEF IsAt, Held, Last
  <2>2. y \in Seq(Byte) /\ y[1] = lead /\ Len(y) = Len(x) + 1 /\ y[Len(y)] = x[Len(x)]
    BY <1>1, <1>2, <2>1
  <2>3. c = p \o y
    <3> HIDE DEF p, lead
    <3> DEFINE l == <<lead>>
    <3>1. Append(p, lead) = p \o l
      BY <2>1, AppendIsConcat
    <3>2. l \in Seq(Byte)
      BY <2>1
    <3> HIDE DEF l
    <3>3. (p \o l) \o x = p \o (l \o x)
      BY <2>1, <3>2, Associative, SMTT(30)
    <3> QED
      BY <1>2, <2>1, <3>1, <3>3 DEF l
  <2>4. Held(q) \o x = y
    BY <2>1
  <2> HIDE DEF p, lead, y
  <2>5. ~IsAt(y, 1, "trail")
    BY <2>1, <2>2 DEF IsAt
  <2> DEFINE head == HeadOf(c, Len(p))
  <2>6. head \in Seq(Seq(Byte)) /\ Decoded(c) = FlattenSeq(head) \o Decoded(y)
    <3>1. NotTorn(c, y, Len(p)) /\ p \in Seq(Byte) /\ y \in Seq(Byte) /\ c = p \o y
      BY <2>1, <2>2, <2>3, <2>5 DEF NotTorn
    <3> QED
      BY <3>1, TailDecoded
  <2>7. Chars(q) = Append(head, <<>>)
    <3>1. Len(p) \in Nat /\ Len(q) = Len(p) + 1 /\ Len(head) = Len(p)
      BY <1>1, <2>1 DEF HeadOf
    <3>2. Character(q, Len(q)) = <<>>
      <4>1. ~IsAt(q, Len(q) + 1, "trail") /\ q[Len(q)].is = "lead"
        BY <1>1, <1>4 DEF IsAt
      <4> QED
        BY <4>1 DEF Character
    <3>3. ASSUME NEW j \in 1..Len(p) PROVE Character(c, j) = Character(q, j)
      <4>1. j \in 1..Len(q) /\ j # Len(q)
        BY <1>1, <3>1
      <4>2. Begins(c, q, Len(q), Len(c)) /\ Len(c) \in Nat
        BY <1>1, <1>2 DEF Begins
      <4> QED
        BY <1>1, <4>1, <4>2, HeadCharacter, ZenonT(30)
    <3>4. /\ Chars(q) \in Seq(Seq(Byte)) /\ Len(Chars(q)) = Len(q)
          /\ \A j \in 1..Len(q) : Chars(q)[j] = Character(q, j)
      BY DecodedType DEF Chars
    <3>5. /\ Append(head, <<>>) \in Seq(Seq(Byte)) /\ Len(Append(head, <<>>)) = Len(q)
          /\ \A j \in 1..Len(p) : Append(head, <<>>)[j] = Character(c, j)
          /\ Append(head, <<>>)[Len(q)] = <<>>
      <4>1. <<>> \in Seq(Byte)
        OBVIOUS
      <4>2. \A j \in 1..Len(p) : head[j] = Character(c, j)
        BY DEF HeadOf
      <4> HIDE DEF head
      <4> QED
        BY <2>6, <3>1, <4>1, <4>2, AppendProperties
    <3> HIDE DEF head
    <3>6. \A j \in 1..Len(q) : Chars(q)[j] = Append(head, <<>>)[j]
      <4> TAKE j \in 1..Len(q)
      <4>1. j \in 1..Len(p) \/ j = Len(q)
        BY <3>1
      <4> QED
        BY <3>2, <3>3, <3>4, <3>5, <4>1
    <3> QED
      BY <3>4, <3>5, <3>6, SeqEqual
  <2>8. Decoded(q) = FlattenSeq(head)
    <3> HIDE DEF head
    <3>1. <<>> \in Seq(Byte) /\ FlattenSeq(head) \in Seq(Byte)
      BY <2>6, FlattenType
    <3>2. FlattenSeq(Append(head, <<>>)) = FlattenSeq(head) \o <<>>
      BY <2>6, <3>1, FlattenAppend
    <3> QED
      BY <2>7, <3>1, <3>2, DecodedType, ConcatEmptySeq
  <2>9. Held(c) = Held(y)
    <3>1. /\ c[Len(c)] = y[Len(y)] /\ Len(c) \in DOMAIN c /\ Len(y) \in DOMAIN y
      BY <1>1, <1>2, <2>2
    <3> QED
      BY <3>1 DEF Held, IsAt, Last
  <2> QED
    BY <1>2, <2>4, <2>6, <2>8, <2>9
<1> QED
  BY <1>3, <1>4

-----------------------------------------------------------------------------
(* Lines.                                                                  *)
Starts(q, w, e, r) ==
    w \in Seq(NotNl) /\ e \in Byte /\ e.is = "nl" /\ r \in Seq(Byte) /\ q = Append(w, e) \o r

LEMMA FirstLineIs ==
    ASSUME NEW q, NEW w, NEW e, NEW r, Starts(q, w, e, r)
    PROVE  HasLine(q) /\ FirstLine(q) = w /\ AfterLine(q) = r
<1>0. w \in Seq(NotNl) /\ e \in Byte /\ e.is = "nl" /\ r \in Seq(Byte) /\ q = Append(w, e) \o r
  BY DEF Starts
<1> DEFINE n == Len(w)  m == Len(r)
<1>1. /\ w \in Seq(Byte) /\ n \in Nat /\ m \in Nat /\ \A i \in 1..n : w[i].is # "nl" /\ w[i] \in Byte
      /\ \A i \in 1..m : r[i] \in Byte
  BY <1>0 DEF NotNl
<1>2. /\ q \in Seq(Byte) /\ Len(q) = (n + 1) + m
      /\ \A i \in 1..n : q[i] = w[i]
      /\ q[n + 1] = e
      /\ \A i \in 1..m : q[(n + 1) + i] = r[i]
  BY <1>0, <1>1
<1> HIDE DEF n, m
<1>3. n + 1 \in LineEnds(q) /\ \A l \in LineEnds(q) : n + 1 <= l
  <2>1. q[n + 1].is = "nl" /\ \A i \in 1..n : q[i].is # "nl"
    BY <1>0, <1>1, <1>2
  <2> QED
    BY <1>1, <1>2, <2>1 DEF LineEnds
<1>4. LineEnd(q) = n + 1
  <2>1. \A l \in LineEnds(q) : l \in Int
    BY <1>1, <1>2 DEF LineEnds
  <2>2. \A l \in LineEnds(q) : (\A k \in LineEnds(q) : l <= k) => l = n + 1
    BY <1>1, <1>3, <2>1
  <2> QED
    BY <1>3, <2>2 DEF LineEnd
<1>5. FirstLine(q) = SubSeq(q, 1, n) /\ AfterLine(q) = SubSeq(q, n + 2, Len(q))
  <2>1. (n + 1) - 1 = n /\ (n + 1) + 1 = n + 2
    BY <1>1
  <2> QED
    BY <1>4, <2>1 DEF FirstLine, AfterLine
<1>6. SubSeq(q, 1, n) = w
  <2>1. \A i \in 1..n : q[i] \in Byte
    BY <1>1, <1>2
  <2>2. /\ SubSeq(q, 1, n) \in Seq(Byte) /\ Len(SubSeq(q, 1, n)) = n
        /\ \A i \in 1..n : SubSeq(q, 1, n)[i] = q[i]
    BY <1>1, <1>2, <2>1
  <2> QED
    BY <1>0, <1>1, <1>2, <2>2, SeqEqual DEF n
<1>7. SubSeq(q, n + 2, Len(q)) = r
  <2>1. /\ SubSeq(q, n + 2, Len(q)) \in Seq(Byte) /\ Len(SubSeq(q, n + 2, Len(q))) = m
        /\ \A i \in 1..m : SubSeq(q, n + 2, Len(q))[i] = q[(n + 1) + i]
    BY <1>1, <1>2
  <2> QED
    BY <1>0, <1>2, <2>1, SeqEqual, SMTT(30) DEF m
<1> QED
  BY <1>3, <1>5, <1>6, <1>7 DEF HasLine

LEMMA FlattenTwo ==
    ASSUME NEW S, NEW x \in Seq(S), NEW y \in Seq(S)
    PROVE  FlattenSeq(<<x, y>>) = x \o y
<1>1. <<x, y>> = Append(<<x>>, y) /\ <<x>> \in Seq(Seq(S))
  OBVIOUS
<1>2. FlattenSeq(Append(<<x>>, y)) = FlattenSeq(<<x>>) \o y
  BY <1>1, FlattenAppend
<1> QED
  BY <1>1, <1>2, FlattenOne

Three(x, y, z) == (x \o y) \o z
Four(x, y, z, u) == Three(x, y, z) \o u

LEMMA FlattenThree ==
    ASSUME NEW S, NEW x \in Seq(S), NEW y \in Seq(S), NEW z \in Seq(S)
    PROVE  FlattenSeq(<<x, y, z>>) = Three(x, y, z)
<1>1. <<x, y, z>> = Append(<<x, y>>, z) /\ <<x, y>> \in Seq(Seq(S))
  OBVIOUS
<1>2. FlattenSeq(Append(<<x, y>>, z)) = FlattenSeq(<<x, y>>) \o z
  BY <1>1, FlattenAppend
<1> QED
  BY <1>1, <1>2, FlattenTwo DEF Three

LEMMA FlattenFour ==
    ASSUME NEW S, NEW x \in Seq(S), NEW y \in Seq(S), NEW z \in Seq(S), NEW u \in Seq(S)
    PROVE  FlattenSeq(<<x, y, z, u>>) = Four(x, y, z, u)
<1>1. <<x, y, z, u>> = Append(<<x, y, z>>, u) /\ <<x, y, z>> \in Seq(Seq(S))
  OBVIOUS
<1>2. FlattenSeq(Append(<<x, y, z>>, u)) = FlattenSeq(<<x, y, z>>) \o u
  BY <1>1, FlattenAppend
<1>3. FlattenSeq(<<x, y, z>>) = Three(x, y, z)
  BY FlattenThree
<1> QED
  BY <1>1, <1>2, <1>3 DEF Four

Mark(s, n, x) == [of |-> {<<s, n>>}, is |-> x]

LEMMA MarkType ==
    ASSUME NEW s \in StreamId, NEW n \in Nat, NEW x \in Symbol
    PROVE  /\ Mark(s, n, x) \in Byte /\ Mark(s, n, x).is = x /\ Mark(s, n, x).of = {<<s, n>>}
           /\ x # "nl" => Mark(s, n, x) \in NotNl
BY DEF Mark, Byte, NotNl

(* The lines of each kind.                                                *)
LEMMA LineIs ==
    ASSUME NEW t \in Seq(DOMAIN Symbols), NEW s \in StreamId, NEW n \in 1..Len(t)
    PROVE  LET m(x) == Mark(s, n, x) IN
           /\ t[n] \in {"plain", "wide", "comment", "bad", "done", "unended"}
           /\ t[n] = "plain" => Line(t, s, n) = <<m("data"), m("json"), m("nl")>>
           /\ t[n] = "wide" => Line(t, s, n) = <<m("data"), m("lead"), m("trail"), m("nl")>>
           /\ t[n] = "comment" => Line(t, s, n) = <<m("lead"), m("trail"), m("nl")>>
           /\ t[n] = "bad" => Line(t, s, n) = <<m("data"), m("broken"), m("nl")>>
           /\ t[n] = "done" => Line(t, s, n) = <<m("data"), m("[DONE]"), m("nl")>>
           /\ t[n] = "unended" => Line(t, s, n) = <<m("data"), m("json")>>
<1>1. t[n] \in {"plain", "wide", "comment", "bad", "done", "unended"}
  BY DEF Symbols
<1> DEFINE q == Symbols[t[n]]
<1>2. Line(t, s, n) = [j \in 1..Len(q) |-> Mark(s, n, q[j])]
  BY DEF Line, Mark
<1>3. /\ t[n] = "plain" => q = <<"data", "json", "nl">>
      /\ t[n] = "wide" => q = <<"data", "lead", "trail", "nl">>
      /\ t[n] = "comment" => q = <<"lead", "trail", "nl">>
      /\ t[n] = "bad" => q = <<"data", "broken", "nl">>
      /\ t[n] = "done" => q = <<"data", "[DONE]", "nl">>
      /\ t[n] = "unended" => q = <<"data", "json">>
  <2>1. /\ Symbols["plain"] = <<"data", "json", "nl">>
        /\ Symbols["wide"] = <<"data", "lead", "trail", "nl">>
        /\ Symbols["comment"] = <<"lead", "trail", "nl">>
        /\ Symbols["bad"] = <<"data", "broken", "nl">>
        /\ Symbols["done"] = <<"data", "[DONE]", "nl">>
        /\ Symbols["unended"] = <<"data", "json">>
    BY DEF Symbols
  <2> QED
    BY <2>1
<1> HIDE DEF q
<1>4. \A a, b : q = <<a, b>> => [j \in 1..Len(q) |-> Mark(s, n, q[j])] = <<Mark(s, n, a), Mark(s, n, b)>>
  OBVIOUS
<1>5. \A a, b, c : q = <<a, b, c>> =>
         [j \in 1..Len(q) |-> Mark(s, n, q[j])] = <<Mark(s, n, a), Mark(s, n, b), Mark(s, n, c)>>
  OBVIOUS
<1>6. \A a, b, c, d : q = <<a, b, c, d>> =>
         [j \in 1..Len(q) |-> Mark(s, n, q[j])] =
             <<Mark(s, n, a), Mark(s, n, b), Mark(s, n, c), Mark(s, n, d)>>
  OBVIOUS
<1> QED
  BY <1>1, <1>2, <1>3, <1>4, <1>5, <1>6

LEMMA OneCharacter ==
    ASSUME NEW q, NEW j \in DOMAIN q, q[j].is \notin {"lead", "trail"}
    PROVE  Character(q, j) = <<q[j]>>
BY DEF Character

(* A line of three bytes, none of which needs another.                     *)
LEMMA PlainDecoded ==
    ASSUME NEW a \in Byte, NEW b \in Byte, NEW c \in Byte,
           {a.is, b.is, c.is} \cap {"lead", "trail"} = {}
    PROVE  Decoded(<<a, b, c>>) = Append(<<a, b>>, c) /\ Held(<<a, b, c>>) = <<>>
<1> DEFINE q == <<a, b, c>>
<1>1. q \in Seq(Byte) /\ Len(q) = 3 /\ q[1] = a /\ q[2] = b /\ q[3] = c /\ DOMAIN q = 1..3
  OBVIOUS
<1> HIDE DEF q
<1>2. Character(q, 1) = <<a>> /\ Character(q, 2) = <<b>> /\ Character(q, 3) = <<c>>
  <2>1. 1 \in DOMAIN q /\ 2 \in DOMAIN q /\ 3 \in DOMAIN q
    BY <1>1
  <2> QED
    BY <1>1, <2>1, OneCharacter
<1>3. Chars(q) = <<<<a>>, <<b>>, <<c>>>>
  <2>1. [j \in 1..3 |-> Character(q, j)] = <<Character(q, 1), Character(q, 2), Character(q, 3)>>
    OBVIOUS
  <2> QED
    BY <1>1, <1>2, <2>1 DEF Chars
<1>4. <<a>> \in Seq(Byte) /\ <<b>> \in Seq(Byte) /\ <<c>> \in Seq(Byte)
  OBVIOUS
<1>5. FlattenSeq(<<<<a>>, <<b>>, <<c>>>>) = Three(<<a>>, <<b>>, <<c>>)
  BY <1>4, FlattenThree
<1>6. Three(<<a>>, <<b>>, <<c>>) = Append(<<a, b>>, c)
  BY DEF Three
<1>7. Held(q) = <<>>
  BY <1>1 DEF Held, IsAt
<1> QED
  BY <1>1, <1>3, <1>5, <1>6, <1>7, DecodedType DEF q

(* Lines with a character of two bytes.                                    *)
LEMMA WideDecoded ==
    ASSUME NEW a \in Byte, a.is = "data", NEW b \in Byte, b.is = "lead",
           NEW c \in Byte, c.is = "trail", NEW d \in Byte, d.is = "nl"
    PROVE  /\ Decoded(<<a, b, c, d>>) = Append(<<a, [of |-> b.of \cup c.of, is |-> "char"]>>, d)
           /\ Held(<<a, b, c, d>>) = <<>>
<1> DEFINE q == <<a, b, c, d>>  m == [of |-> b.of \cup c.of, is |-> "char"]
<1>1. /\ q \in Seq(Byte) /\ Len(q) = 4 /\ q[1] = a /\ q[2] = b /\ q[3] = c /\ q[4] = d
      /\ DOMAIN q = 1..4
  OBVIOUS
<1> HIDE DEF q
<1>2. Character(q, 1) = <<a>> /\ Character(q, 2) = <<m>> /\ Character(q, 3) = <<>>
      /\ Character(q, 4) = <<d>>
  <2>1. 1 \in DOMAIN q /\ 4 \in DOMAIN q
    BY <1>1
  <2>2. Character(q, 1) = <<a>> /\ Character(q, 4) = <<d>>
    BY <1>1, <2>1, OneCharacter
  <2>3. IsAt(q, 3, "trail") /\ IsAt(q, 2, "lead")
    BY <1>1 DEF IsAt
  <2>4. Character(q, 2) = <<m>> /\ Character(q, 3) = <<>>
    <3>1. 2 + 1 = 3 /\ 3 - 1 = 2
      OBVIOUS
    <3> QED
      BY <1>1, <2>3, <3>1 DEF Character
  <2> QED
    BY <2>2, <2>4
<1> HIDE DEF m
<1>3. Chars(q) = <<<<a>>, <<m>>, <<>>, <<d>>>>
  <2>1. [j \in 1..4 |-> Character(q, j)] =
            <<Character(q, 1), Character(q, 2), Character(q, 3), Character(q, 4)>>
    OBVIOUS
  <2> QED
    BY <1>1, <1>2, <2>1 DEF Chars
<1>4. <<a>> \in Seq(Byte) /\ <<m>> \in Seq(Byte) /\ <<>> \in Seq(Byte) /\ <<d>> \in Seq(Byte)
  <2>1. m \in Byte
    <3>1. b.of \cup c.of \in SUBSET (StreamId \X Nat)
      BY DEF Byte
    <3> QED
      BY <3>1 DEF Byte, Symbol, m
  <2> QED
    BY <2>1
<1>5. FlattenSeq(<<<<a>>, <<m>>, <<>>, <<d>>>>) = Four(<<a>>, <<m>>, <<>>, <<d>>)
  <2> DEFINE w == <<a>>  x == <<m>>  y == <<>>  z == <<d>>
  <2>1. w \in Seq(Byte) /\ x \in Seq(Byte) /\ y \in Seq(Byte) /\ z \in Seq(Byte)
    BY <1>4
  <2> HIDE DEF w, x, y, z
  <2>2. FlattenSeq(<<w, x, y, z>>) = Four(w, x, y, z)
    BY ONLY <2>1, FlattenFour
  <2> QED
    BY <2>2 DEF w, x, y, z
<1>6. Four(<<a>>, <<m>>, <<>>, <<d>>) = Append(<<a, m>>, d)
  BY DEF Four, Three
<1>7. Held(q) = <<>>
  BY <1>1 DEF Held, IsAt
<1> QED
  BY <1>1, <1>3, <1>5, <1>6, <1>7, DecodedType DEF q, m

LEMMA CommentDecoded ==
    ASSUME NEW b \in Byte, b.is = "lead", NEW c \in Byte, c.is = "trail", NEW d \in Byte, d.is = "nl"
    PROVE  /\ Decoded(<<b, c, d>>) = Append(<<[of |-> b.of \cup c.of, is |-> "char"]>>, d)
           /\ Held(<<b, c, d>>) = <<>>
<1> DEFINE q == <<b, c, d>>  m == [of |-> b.of \cup c.of, is |-> "char"]
<1>1. q \in Seq(Byte) /\ Len(q) = 3 /\ q[1] = b /\ q[2] = c /\ q[3] = d /\ DOMAIN q = 1..3
  OBVIOUS
<1> HIDE DEF q
<1>2. Character(q, 1) = <<m>> /\ Character(q, 2) = <<>> /\ Character(q, 3) = <<d>>
  <2>1. 3 \in DOMAIN q
    BY <1>1
  <2>2. Character(q, 3) = <<d>>
    BY <1>1, <2>1, OneCharacter
  <2>3. IsAt(q, 2, "trail") /\ IsAt(q, 1, "lead")
    BY <1>1 DEF IsAt
  <2>4. Character(q, 1) = <<m>> /\ Character(q, 2) = <<>>
    <3>1. 1 + 1 = 2 /\ 2 - 1 = 1
      OBVIOUS
    <3> QED
      BY <1>1, <2>3, <3>1 DEF Character
  <2> QED
    BY <2>2, <2>4
<1> HIDE DEF m
<1>3. Chars(q) = <<<<m>>, <<>>, <<d>>>>
  <2>1. [j \in 1..3 |-> Character(q, j)] = <<Character(q, 1), Character(q, 2), Character(q, 3)>>
    OBVIOUS
  <2> QED
    BY <1>1, <1>2, <2>1 DEF Chars
<1>4. <<m>> \in Seq(Byte) /\ <<>> \in Seq(Byte) /\ <<d>> \in Seq(Byte)
  <2>1. m \in Byte
    <3>1. b.of \cup c.of \in SUBSET (StreamId \X Nat)
      BY DEF Byte
    <3> QED
      BY <3>1 DEF Byte, Symbol, m
  <2> QED
    BY <2>1
<1>5. FlattenSeq(<<<<m>>, <<>>, <<d>>>>) = Three(<<m>>, <<>>, <<d>>)
  BY <1>4, FlattenThree
<1>6. Three(<<m>>, <<>>, <<d>>) = Append(<<m>>, d)
  BY DEF Three
<1>7. Held(q) = <<>>
  BY <1>1 DEF Held, IsAt
<1> QED
  BY <1>1, <1>3, <1>5, <1>6, <1>7, DecodedType DEF q, m

(* What a whole line is once it is decoded by itself.                      *)
Kinds == {"plain", "wide", "comment", "bad", "done", "unended"}

Decodes(tag, line, w, e) ==
    /\ w \in Seq(NotNl) /\ e \in Byte /\ e.is = "nl"
    /\ Decoded(line) = Append(w, e) /\ Held(line) = <<>>
    /\ IsData(w) <=> tag # "comment"
    /\ Says(w, "[DONE]") <=> tag = "done"
    /\ Says(w, "broken") <=> tag = "bad"
    /\ tag \in {"plain", "wide"} => Payload(w) \in Seq(Byte) /\ Payload(w) # Done

(* What a line is before that: its only newline is its last byte.          *)
Ends(line, v, e) == v \in Seq(NotNl) /\ e \in Byte /\ e.is = "nl" /\ line = Append(v, e)

LEMMA ThreeBytes ==
    ASSUME NEW tag, NEW a \in NotNl, NEW b \in NotNl, NEW e \in Byte, e.is = "nl",
           NEW line, line = <<a, b, e>>, a.is = "data", b.is \in {"json", "broken", "[DONE]"},
           tag = "plain" <=> b.is = "json", tag = "bad" <=> b.is = "broken",
           tag = "done" <=> b.is = "[DONE]", tag \in {"plain", "bad", "done"}, b.of # {}
    PROVE  Decodes(tag, line, <<a, b>>, e) /\ Ends(line, <<a, b>>, e)
<1> DEFINE w == <<a, b>>
<1>1. a \in Byte /\ b \in Byte
  BY DEF NotNl
<1>2. w \in Seq(NotNl) /\ line = Append(w, e) /\ Len(w) = 2 /\ w[1] = a /\ w[2] = b /\ w # <<>>
  OBVIOUS
<1>3. Decoded(line) = Append(w, e) /\ Held(line) = <<>>
  <2>1. {a.is, b.is, e.is} \cap {"lead", "trail"} = {}
    OBVIOUS
  <2> QED
    BY <1>1, <2>1, PlainDecoded
<1>4. Payload(w) = <<b>> /\ <<b>> \in Seq(Byte)
  BY <1>1 DEF Payload
<1>5. <<b>> # Done
  <2>1. <<b>>[1].of # {} /\ Done[1].of = {}
    BY DEF Done
  <2> QED
    BY <2>1
<1> HIDE DEF w
<1>6. IsData(w)
  BY <1>2 DEF IsData
<1>7. \A x : Says(w, x) <=> x = a.is \/ x = b.is
  <2>1. 1 \in 1..Len(w) /\ 2 \in 1..Len(w) /\ \A j \in 1..Len(w) : j = 1 \/ j = 2
    BY <1>2
  <2> QED
    BY <1>2, <2>1 DEF Says
<1>8. (Says(w, "[DONE]") <=> tag = "done") /\ (Says(w, "broken") <=> tag = "bad")
  BY <1>7
<1> QED
  BY <1>2, <1>3, <1>4, <1>5, <1>6, <1>8 DEF Decodes, Ends, w

LEMMA WideLine ==
    ASSUME NEW s \in StreamId, NEW n \in Nat, NEW line,
           line = <<Mark(s, n, "data"), Mark(s, n, "lead"), Mark(s, n, "trail"), Mark(s, n, "nl")>>
    PROVE  /\ \E w, e : Decodes("wide", line, w, e)
           /\ \E v, e : Ends(line, v, e)
<1> DEFINE a == Mark(s, n, "data")  b == Mark(s, n, "lead")
           c == Mark(s, n, "trail")  e == Mark(s, n, "nl")
           m == [of |-> b.of \cup c.of, is |-> "char"]
           w == <<a, m>>  v == <<a, b, c>>
<1>1. /\ a \in NotNl /\ b \in NotNl /\ c \in NotNl /\ e \in Byte
      /\ a.is = "data" /\ b.is = "lead" /\ c.is = "trail" /\ e.is = "nl"
      /\ b.of = {<<s, n>>} /\ c.of = {<<s, n>>}
  BY MarkType DEF Symbol
<1> HIDE DEF a, b, c, e
<1>2. m \in NotNl /\ m.is = "char" /\ m \in Byte /\ a \in Byte /\ b \in Byte /\ c \in Byte
  <2>1. b.of \cup c.of \in SUBSET (StreamId \X Nat)
    BY <1>1
  <2> QED
    BY <1>1, <2>1 DEF Byte, Symbol, NotNl
<1>3. v \in Seq(NotNl) /\ line = Append(v, e)
  BY <1>1 DEF a, b, c, e
<1>4. Decoded(line) = Append(w, e) /\ Held(line) = <<>>
  <2>1. line = <<a, b, c, e>>
    BY DEF a, b, c, e
  <2> QED
    BY <1>1, <1>2, <2>1, WideDecoded
<1> HIDE DEF m
<1>5. w \in Seq(NotNl) /\ Len(w) = 2 /\ w[1] = a /\ w[2] = m /\ w # <<>>
  BY <1>1, <1>2
<1>6. Payload(w) = <<m>> /\ <<m>> \in Seq(Byte)
  BY <1>2 DEF Payload
<1>7. <<m>> # Done
  <2>1. <<m>>[1].is # "[DONE]" /\ Done[1].is = "[DONE]"
    BY <1>2 DEF Done
  <2> QED
    BY <2>1
<1> HIDE DEF w, v
<1>8. IsData(w)
  BY <1>1, <1>5 DEF IsData
<1>9. ~Says(w, "[DONE]") /\ ~Says(w, "broken")
  <2>1. \A j \in 1..Len(w) : j = 1 \/ j = 2
    BY <1>5
  <2> QED
    BY <1>1, <1>2, <1>5, <2>1 DEF Says
<1> QED
  BY <1>1, <1>3, <1>4, <1>5, <1>6, <1>7, <1>8, <1>9 DEF Decodes, Ends

LEMMA CommentLine ==
    ASSUME NEW s \in StreamId, NEW n \in Nat, NEW line,
           line = <<Mark(s, n, "lead"), Mark(s, n, "trail"), Mark(s, n, "nl")>>
    PROVE  /\ \E w, e : Decodes("comment", line, w, e)
           /\ \E v, e : Ends(line, v, e)
<1> DEFINE b == Mark(s, n, "lead")  c == Mark(s, n, "trail")  e == Mark(s, n, "nl")
           m == [of |-> b.of \cup c.of, is |-> "char"]
           w == <<m>>  v == <<b, c>>
<1>1. /\ b \in NotNl /\ c \in NotNl /\ e \in Byte
      /\ b.is = "lead" /\ c.is = "trail" /\ e.is = "nl"
      /\ b.of = {<<s, n>>} /\ c.of = {<<s, n>>}
  BY MarkType DEF Symbol
<1> HIDE DEF b, c, e
<1>2. m \in NotNl /\ m.is = "char" /\ b \in Byte /\ c \in Byte
  <2>1. b.of \cup c.of \in SUBSET (StreamId \X Nat)
    BY <1>1
  <2> QED
    BY <1>1, <2>1 DEF Byte, Symbol, NotNl
<1>3. v \in Seq(NotNl) /\ line = Append(v, e)
  BY <1>1 DEF b, c, e
<1>4. Decoded(line) = Append(w, e) /\ Held(line) = <<>>
  <2>1. line = <<b, c, e>>
    BY DEF b, c, e
  <2> QED
    BY <1>1, <1>2, <2>1, CommentDecoded
<1> HIDE DEF m
<1>5. w \in Seq(NotNl) /\ Len(w) = 1 /\ w[1] = m
  BY <1>2
<1> HIDE DEF w, v
<1>6. ~IsData(w)
  BY <1>2, <1>5 DEF IsData
<1>7. ~Says(w, "[DONE]") /\ ~Says(w, "broken")
  <2>1. \A j \in 1..Len(w) : j = 1
    BY <1>5
  <2> QED
    BY <1>2, <1>5, <2>1 DEF Says
<1> QED
  BY <1>1, <1>3, <1>4, <1>5, <1>6, <1>7 DEF Decodes, Ends

LEMMA LineDecoded ==
    ASSUME NEW t \in Seq(DOMAIN Symbols), NEW s \in StreamId, NEW n \in 1..Len(t)
    PROVE  /\ Line(t, s, n) \in Seq(Byte) /\ t[n] \in Kinds
           /\ IF t[n] = "unended" THEN Line(t, s, n) \in Seq(NotNl)
              ELSE /\ \E w, e : Decodes(t[n], Line(t, s, n), w, e)
                   /\ \E v, e : Ends(Line(t, s, n), v, e)
<1> DEFINE m(x) == Mark(s, n, x)  line == Line(t, s, n)
<1>1. n \in Nat /\ Len(t) \in Nat
  OBVIOUS
<1>2. /\ t[n] \in Kinds
      /\ t[n] = "plain" => line = <<m("data"), m("json"), m("nl")>>
      /\ t[n] = "wide" => line = <<m("data"), m("lead"), m("trail"), m("nl")>>
      /\ t[n] = "comment" => line = <<m("lead"), m("trail"), m("nl")>>
      /\ t[n] = "bad" => line = <<m("data"), m("broken"), m("nl")>>
      /\ t[n] = "done" => line = <<m("data"), m("[DONE]"), m("nl")>>
      /\ t[n] = "unended" => line = <<m("data"), m("json")>>
  BY LineIs DEF Kinds
<1>3. \A x \in Symbol : m(x) \in Byte /\ m(x).is = x /\ m(x).of # {} /\ (x # "nl" => m(x) \in NotNl)
  <2> TAKE x \in Symbol
  <2>1. m(x) \in Byte /\ m(x).is = x /\ m(x).of = {<<s, n>>} /\ (x # "nl" => m(x) \in NotNl)
    BY <1>1, MarkType
  <2> QED
    BY <2>1
<1> DEFINE a == m("data")  e == m("nl")
<1>4. a \in NotNl /\ a.is = "data" /\ e \in Byte /\ e.is = "nl" /\ a \in Byte
  BY <1>3 DEF Symbol
<1>5. CASE t[n] = "unended"
  <2>1. m("json") \in NotNl /\ m("json") \in Byte
    BY <1>3 DEF Symbol
  <2>2. \A x, y \in NotNl : <<x, y>> \in Seq(NotNl)
    OBVIOUS
  <2>3. \A x, y \in Byte : <<x, y>> \in Seq(Byte)
    OBVIOUS
  <2> QED
    BY <1>2, <1>4, <1>5, <2>1, <2>2, <2>3
<1>6. \A v, x : Ends(line, v, x) => line \in Seq(Byte)
  <2> SUFFICES ASSUME NEW v, NEW x, Ends(line, v, x) PROVE line \in Seq(Byte)
    OBVIOUS
  <2>1. v \in Seq(Byte) /\ x \in Byte /\ line = Append(v, x)
    BY DEF Ends, NotNl
  <2> QED
    BY <2>1, AppendProperties
<1>7. ASSUME NEW x \in {"json", "broken", "[DONE]"}, NEW tag \in {"plain", "bad", "done"},
             line = <<a, m(x), e>>, t[n] = tag,
             tag = "plain" <=> x = "json", tag = "bad" <=> x = "broken", tag = "done" <=> x = "[DONE]"
      PROVE  Decodes(tag, line, <<a, m(x)>>, e) /\ Ends(line, <<a, m(x)>>, e)
  <2> DEFINE b == m(x)
  <2>1. b \in NotNl /\ b.is = x /\ b.of # {}
    BY <1>3 DEF Symbol
  <2> HIDE DEF a, e, b, line
  <2>2. line = <<a, b, e>>
    BY <1>7 DEF b
  <2> QED
    BY <1>4, <1>7, <2>1, <2>2, ThreeBytes DEF b
<1>8. CASE t[n] = "plain"
  <2>1. "json" \in {"json", "broken", "[DONE]"} /\ "plain" \in {"plain", "bad", "done"}
    OBVIOUS
  <2>2. line = <<a, m("json"), e>>
    BY <1>2, <1>8
  <2> HIDE DEF a, e, line, m
  <2>3. Decodes("plain", line, <<a, m("json")>>, e) /\ Ends(line, <<a, m("json")>>, e)
    BY <1>7, <1>8, <2>1, <2>2
  <2> QED
    BY <1>2, <1>6, <1>8, <2>3 DEF line
<1>9. CASE t[n] = "bad"
  <2>1. "broken" \in {"json", "broken", "[DONE]"} /\ "bad" \in {"plain", "bad", "done"}
    OBVIOUS
  <2>2. line = <<a, m("broken"), e>>
    BY <1>2, <1>9
  <2> HIDE DEF a, e, line, m
  <2>3. Decodes("bad", line, <<a, m("broken")>>, e) /\ Ends(line, <<a, m("broken")>>, e)
    BY <1>7, <1>9, <2>1, <2>2
  <2> QED
    BY <1>2, <1>6, <1>9, <2>3 DEF line
<1>10. CASE t[n] = "done"
  <2>1. "[DONE]" \in {"json", "broken", "[DONE]"} /\ "done" \in {"plain", "bad", "done"}
    OBVIOUS
  <2>2. line = <<a, m("[DONE]"), e>>
    BY <1>2, <1>10
  <2> HIDE DEF a, e, line, m
  <2>3. Decodes("done", line, <<a, m("[DONE]")>>, e) /\ Ends(line, <<a, m("[DONE]")>>, e)
    BY <1>7, <1>10, <2>1, <2>2
  <2> QED
    BY <1>2, <1>6, <1>10, <2>3 DEF line
<1>11. CASE t[n] = "wide"
  BY <1>1, <1>2, <1>6, <1>11, WideLine
<1>12. CASE t[n] = "comment"
  BY <1>1, <1>2, <1>6, <1>12, CommentLine
<1> QED
  BY <1>2, <1>5, <1>8, <1>9, <1>10, <1>11, <1>12 DEF Kinds

-----------------------------------------------------------------------------
(* What is left of a text after its first lines, and what those tell.      *)
Lines(t, s) == [n \in 1..Len(t) |-> Line(t, s, n)]
Rest(t, s, n) == FlattenSeq(SubSeq(Lines(t, s), n + 1, Len(t)))
Tolds(t, s) == [n \in 1..Len(t) |-> Told(t, s, n)]
DueUpTo(t, s, n) == FlattenSeq(SubSeq(Tolds(t, s), 1, n))
DueFrom(t, s, n) == FlattenSeq(SubSeq(Tolds(t, s), n + 1, Len(t)))

(* A sequence cut in two, and what a part gains by an element.             *)
LEMMA Parts ==
    ASSUME NEW X, NEW q \in Seq(X), NEW n \in 0..Len(q)
    PROVE  /\ SubSeq(q, 1, n) \in Seq(X) /\ SubSeq(q, n + 1, Len(q)) \in Seq(X)
           /\ Len(SubSeq(q, 1, n)) = n /\ Len(SubSeq(q, n + 1, Len(q))) = Len(q) - n
           /\ \A i \in 1..n : SubSeq(q, 1, n)[i] = q[i]
           /\ \A i \in 1..(Len(q) - n) : SubSeq(q, n + 1, Len(q))[i] = q[n + i]
           /\ q = SubSeq(q, 1, n) \o SubSeq(q, n + 1, Len(q))
<1>1. Len(q) \in Nat /\ n \in Nat /\ n <= Len(q) /\ \A i \in 1..Len(q) : q[i] \in X
  OBVIOUS
<1>2. /\ SubSeq(q, 1, n) \in Seq(X) /\ SubSeq(q, n + 1, Len(q)) \in Seq(X)
      /\ Len(SubSeq(q, 1, n)) = n /\ Len(SubSeq(q, n + 1, Len(q))) = Len(q) - n
      /\ \A i \in 1..n : SubSeq(q, 1, n)[i] = q[i]
      /\ \A i \in 1..(Len(q) - n) : SubSeq(q, n + 1, Len(q))[i] = q[n + i]
  BY <1>1
<1>3. q = SubSeq(q, 1, n) \o SubSeq(q, n + 1, Len(q))
  <2>1. 1 \in 1..(Len(q) + 1) /\ n \in (1 - 1)..Len(q) /\ Len(q) \in n..Len(q)
    BY <1>1
  <2>2. SubSeq(q, 1, n) \o SubSeq(q, n + 1, Len(q)) = SubSeq(q, 1, Len(q))
    BY <2>1, ConcatAdjacentSubSeq
  <2> QED
    BY <2>2, SubSeqFull
<1> QED
  BY <1>2, <1>3

LEMMA CutBehind ==
    ASSUME NEW X, NEW q \in Seq(X), NEW n \in 1..Len(q)
    PROVE  /\ SubSeq(q, 1, n) \in Seq(X) /\ SubSeq(q, n + 1, Len(q)) \in Seq(X)
           /\ SubSeq(q, 1, n) # <<>>
           /\ q = SubSeq(q, 1, n) \o SubSeq(q, n + 1, Len(q))
<1> DEFINE x == SubSeq(q, 1, n)
           y == SubSeq(q, n + 1, Len(q))
<1>1. n \in 0..Len(q) /\ n > 0
  OBVIOUS
<1>2. x \in Seq(X) /\ y \in Seq(X)
  BY <1>1, Parts
<1>3. Len(x) = n
  BY <1>1, Parts
<1>4. q = x \o y
  BY <1>1, Parts
<1> HIDE DEF x
<1>5. x # <<>>
  BY <1>1, <1>3
<1> QED
  BY <1>2, <1>4, <1>5 DEF x

LEMMA PartsGrow ==
    ASSUME NEW X, NEW q \in Seq(X), NEW n \in Nat, n + 1 \in 0..Len(q)
    PROVE  /\ q[n + 1] \in X
           /\ SubSeq(q, 1, n + 1) = Append(SubSeq(q, 1, n), q[n + 1])
           /\ SubSeq(q, n + 1, Len(q)) = <<q[n + 1]>> \o SubSeq(q, n + 2, Len(q))
<1>1. Len(q) \in Nat /\ n + 1 \in 1..Len(q) /\ Len(q) \in (n + 1)..Len(q) /\ 1 \in 1..Len(q)
      /\ n + 1 \in 1..Len(q) /\ n \in 0..Len(q) /\ (n + 1) - 1 = n /\ (n + 1) + 1 = n + 2
  OBVIOUS
<1>2. q[n + 1] \in X
  BY <1>1
<1>3. SubSeq(q, n + 1, Len(q)) = <<q[n + 1]>> \o SubSeq(q, n + 2, Len(q))
  BY <1>1, SubSeqRecursiveFirst
<1>4. SubSeq(q, 1, n + 1) = SubSeq(q, 1, n) \o <<q[n + 1]>>
  BY <1>1, SubSeqRecursiveSecond
<1>5. SubSeq(q, 1, n) \in Seq(X)
  BY <1>1, Parts
<1>6. SubSeq(q, 1, n) \o <<q[n + 1]>> = Append(SubSeq(q, 1, n), q[n + 1])
  BY <1>2, <1>5, AppendIsConcat
<1> QED
  BY <1>2, <1>3, <1>4, <1>6

LEMMA FlattenRest ==
    ASSUME NEW S, NEW q \in Seq(Seq(S)), NEW n \in Nat, n + 1 \in 0..Len(q)
    PROVE  FlattenSeq(SubSeq(q, n + 1, Len(q))) = q[n + 1] \o FlattenSeq(SubSeq(q, n + 2, Len(q)))
<1> DEFINE b == SubSeq(q, n + 2, Len(q))  x == q[n + 1]  l == <<x>>
<1>1. x \in Seq(S) /\ SubSeq(q, n + 1, Len(q)) = l \o b
  BY PartsGrow
<1>2. b \in Seq(Seq(S))
  <2>1. (n + 1) + 1 = n + 2
    OBVIOUS
  <2> QED
    BY <2>1, Parts
<1> HIDE DEF b, x
<1>3. l \in Seq(Seq(S)) /\ FlattenSeq(l) = x
  <2>1. FlattenSeq(<<x>>) = x
    BY <1>1, FlattenOne
  <2> QED
    BY <1>1, <2>1
<1> HIDE DEF l
<1>4. FlattenSeq(l \o b) = FlattenSeq(l) \o FlattenSeq(b)
  BY <1>2, <1>3, FlattenConcat
<1> QED
  BY <1>1, <1>3, <1>4 DEF b, x

LEMMA FlattenFirst ==
    ASSUME NEW S, NEW q \in Seq(Seq(S)), NEW n \in Nat, n + 1 \in 0..Len(q)
    PROVE  FlattenSeq(SubSeq(q, 1, n + 1)) = FlattenSeq(SubSeq(q, 1, n)) \o q[n + 1]
<1> DEFINE b == SubSeq(q, 1, n)  x == q[n + 1]
<1>1. x \in Seq(S) /\ SubSeq(q, 1, n + 1) = Append(b, x)
  BY PartsGrow
<1>2. b \in Seq(Seq(S))
  <2>1. n \in 0..Len(q)
    OBVIOUS
  <2> QED
    BY <2>1, Parts
<1> HIDE DEF b, x
<1>3. FlattenSeq(Append(b, x)) = FlattenSeq(b) \o x
  BY <1>1, <1>2, FlattenAppend
<1> QED
  BY <1>1, <1>3 DEF b, x

LEMMA FlattenCut ==
    ASSUME NEW S, NEW q \in Seq(Seq(S)), NEW n \in 0..Len(q)
    PROVE  FlattenSeq(q) = FlattenSeq(SubSeq(q, 1, n)) \o FlattenSeq(SubSeq(q, n + 1, Len(q)))
<1> DEFINE a == SubSeq(q, 1, n)  b == SubSeq(q, n + 1, Len(q))
<1>1. a \in Seq(Seq(S)) /\ b \in Seq(Seq(S)) /\ q = a \o b
  BY Parts
<1> HIDE DEF a, b
<1>2. FlattenSeq(a \o b) = FlattenSeq(a) \o FlattenSeq(b)
  BY <1>1, FlattenConcat
<1> QED
  BY <1>1, <1>2 DEF a, b

LEMMA Retyped ==
    ASSUME NEW X, NEW Y, NEW q \in Seq(X), \A i \in 1..Len(q) : q[i] \in Y
    PROVE  q \in Seq(Y)
OBVIOUS

LEMMA FlattenEmpty ==
    ASSUME NEW S, NEW q \in Seq(Seq(S)), \A i \in 1..Len(q) : q[i] = <<>>
    PROVE  FlattenSeq(q) = <<>>
<1>1. <<>> \in Seq({})
  OBVIOUS
<1>2. q \in Seq(Seq({}))
  <2> DEFINE X == Seq(S)  Y == Seq({})
  <2>1. q \in Seq(X) /\ \A i \in 1..Len(q) : q[i] \in Y
    BY <1>1
  <2> HIDE DEF X, Y
  <2>2. q \in Seq(Y)
    BY <2>1, Retyped
  <2> QED
    BY <2>2 DEF Y
<1>3. FlattenSeq(q) \in Seq({})
  BY <1>2, FlattenType
<1>4. \A f \in Seq({}) : f = <<>>
  <2> SUFFICES ASSUME NEW f \in Seq({}) PROVE f = <<>>
    OBVIOUS
  <2>1. Len(f) = 0
    <3> SUFFICES ASSUME Len(f) # 0 PROVE FALSE
      OBVIOUS
    <3>1. Len(f) \in Nat /\ 1 \in 1..Len(f)
      OBVIOUS
    <3> QED
      BY <3>1
  <2> QED
    BY <2>1
<1> QED
  BY <1>3, <1>4

LEMMA RestIs ==
    ASSUME NEW t \in Seq(DOMAIN Symbols), NEW s \in StreamId, NEW n \in 0..Len(t)
    PROVE  /\ Rest(t, s, n) \in Seq(Byte)
           /\ Rest(t, s, 0) = Bytes(t, s)
           /\ n = Len(t) => Rest(t, s, n) = <<>>
           /\ n # Len(t) => /\ Rest(t, s, n + 1) \in Seq(Byte)
                            /\ Rest(t, s, n) = Line(t, s, n + 1) \o Rest(t, s, n + 1)
<1> DEFINE q == Lines(t, s)
<1>1. Len(t) \in Nat /\ n \in Nat /\ \A j \in 1..Len(t) : Line(t, s, j) \in Seq(Byte)
  BY LineDecoded
<1>2. q \in Seq(Seq(Byte)) /\ Len(q) = Len(t) /\ \A j \in 1..Len(t) : q[j] = Line(t, s, j)
  <2> DEFINE X == Seq(Byte)
  <2> HIDE DEF X
  <2>1. \A j \in 1..Len(t) : Line(t, s, j) \in X
    BY <1>1 DEF X
  <2>2. q \in Seq(X) /\ Len(q) = Len(t) /\ \A j \in 1..Len(t) : q[j] = Line(t, s, j)
    BY <1>1, <2>1 DEF Lines
  <2> QED
    BY <2>2 DEF X
<1>3. \A j \in 0..Len(t) : Rest(t, s, j) = FlattenSeq(SubSeq(q, j + 1, Len(q)))
  BY <1>2 DEF Rest
<1>4. Bytes(t, s) = FlattenSeq(q)
  BY DEF Bytes, Lines
<1> HIDE DEF q
<1>5. \A j \in 0..Len(t) : Rest(t, s, j) \in Seq(Byte)
  <2> TAKE j \in 0..Len(t)
  <2>1. SubSeq(q, j + 1, Len(q)) \in Seq(Seq(Byte))
    BY <1>2, Parts
  <2>2. FlattenSeq(SubSeq(q, j + 1, Len(q))) \in Seq(Byte)
    BY <2>1, FlattenType
  <2> QED
    BY <1>3, <2>2
<1>6. Rest(t, s, 0) = Bytes(t, s)
  <2>1. SubSeq(q, 0 + 1, Len(q)) = q
    BY <1>2, SubSeqFull
  <2>2. 0 \in 0..Len(t)
    BY <1>1
  <2> QED
    BY <1>3, <1>4, <2>1, <2>2
<1>7. CASE n = Len(t)
  <2>1. SubSeq(q, n + 1, Len(q)) = <<>>
    BY <1>1, <1>2, <1>7, SubSeqEmpty
  <2> QED
    BY <1>3, <1>5, <1>6, <1>7, <2>1, FlattenNone
<1>8. CASE n # Len(t)
  <2>1. n + 1 \in 0..Len(q) /\ n + 1 \in 0..Len(t) /\ (n + 1) + 1 = n + 2 /\ n + 1 \in 1..Len(t)
    BY <1>1, <1>2, <1>8
  <2>2. FlattenSeq(SubSeq(q, n + 1, Len(q))) = q[n + 1] \o FlattenSeq(SubSeq(q, n + 2, Len(q)))
    BY <1>1, <1>2, <2>1, FlattenRest
  <2>3. Rest(t, s, n) = q[n + 1] \o Rest(t, s, n + 1)
    BY <1>3, <2>1, <2>2
  <2> QED
    BY <1>2, <1>5, <1>6, <1>8, <2>1, <2>3
<1> QED
  BY <1>7, <1>8

LEMMA FirstOfDecoded ==
    ASSUME NEW w \in Seq(NotNl), NEW e \in Byte, e.is = "nl"
    PROVE  FirstLine(Append(w, e)) = w
<1>1. Append(w, e) \in Seq(Byte) /\ <<>> \in Seq(Byte)
  BY DEF NotNl
<1>2. Append(w, e) \o <<>> = Append(w, e)
  BY <1>1, ConcatEmptySeq
<1> DEFINE q == Append(w, e)
<1>3. Starts(q, w, e, <<>>)
  BY <1>1, <1>2 DEF Starts
<1> HIDE DEF q
<1>4. FirstLine(q) = w
  BY <1>3, FirstLineIs
<1> QED
  BY <1>4 DEF q

LEMMA ToldIs ==
    ASSUME NEW t \in Seq(DOMAIN Symbols), NEW s \in StreamId, NEW n \in 1..Len(t)
    PROVE  /\ Told(t, s, n) \in Seq(Seq(Byte))
           /\ ~Readable(t, n) \/ t[n] = "comment" => Told(t, s, n) = <<>>
           /\ \A w, e : Decodes(t[n], Line(t, s, n), w, e) /\ Readable(t, n) /\ t[n] # "comment"
                 => Told(t, s, n) = <<Payload(w)>>
<1>1. \A w, e : Decodes(t[n], Line(t, s, n), w, e) => FirstLine(Decoded(Line(t, s, n))) = w
  BY FirstOfDecoded DEF Decodes
<1>2. \A w, e : Decodes(t[n], Line(t, s, n), w, e) /\ Readable(t, n) /\ t[n] # "comment"
           => Told(t, s, n) = <<Payload(w)>>
  BY <1>1 DEF Told
<1>3. ~Readable(t, n) \/ t[n] = "comment" => Told(t, s, n) = <<>>
  BY DEF Told
<1>4. <<>> \in Seq(Seq(Byte))
  OBVIOUS
<1>5. CASE Readable(t, n) /\ t[n] # "comment"
  <2>1. n \in 1..n
    OBVIOUS
  <2>2. t[n] \in Kinds /\ t[n] \notin {"done", "bad", "unended"}
    BY <1>5, <2>1, LineDecoded DEF Readable
  <2>3. t[n] \in {"plain", "wide"}
    BY <1>5, <2>2 DEF Kinds
  <2>4. PICK w, e : Decodes(t[n], Line(t, s, n), w, e)
    BY <2>2, LineDecoded
  <2>5. Payload(w) \in Seq(Byte)
    BY <2>3, <2>4 DEF Decodes
  <2>6. <<Payload(w)>> \in Seq(Seq(Byte))
    BY <2>5
  <2> QED
    BY <1>2, <1>3, <1>5, <2>4, <2>6
<1> QED
  BY <1>2, <1>3, <1>4, <1>5

LEMMA PrefixConcat ==
    ASSUME NEW X, NEW a \in Seq(X), NEW b \in Seq(X)
    PROVE  IsPrefix(a, a \o b)
<1>1. Len(a) <= Len(a \o b) /\ Len(a) \in Nat /\ Len(b) \in Nat
  OBVIOUS
<1>2. SubSeq(a, 1, Len(a)) = SubSeq(a \o b, 1, Len(a))
  <2>1. CASE a = <<>>
    BY <2>1
  <2>2. CASE a # <<>>
    <3>1. 1 \in 1..Len(a) /\ Len(a) \in 1..Len(a)
      BY <2>2
    <3> QED
      BY <3>1, SubSeqOfConcat1
  <2> QED
    BY <2>1, <2>2
<1> QED
  BY <1>1, <1>2 DEF IsPrefix

LEMMA DueIs ==
    ASSUME NEW t \in Seq(DOMAIN Symbols), NEW s \in StreamId, NEW n \in 0..Len(t)
    PROVE  LET all == FlattenSeq(Tolds(t, s)) IN
           /\ DueUpTo(t, s, n) \in Seq(Seq(Byte)) /\ all \in Seq(Seq(Byte))
           /\ DueUpTo(t, s, 0) = <<>>
           /\ n # Len(t) => DueUpTo(t, s, n + 1) = DueUpTo(t, s, n) \o Told(t, s, n + 1)
           /\ IsPrefix(DueUpTo(t, s, n), all)
           /\ (\A k \in (n + 1)..Len(t) : Told(t, s, k) = <<>>) => all = DueUpTo(t, s, n)
<1> DEFINE q == Tolds(t, s)  X == Seq(Byte)
<1> HIDE DEF X
<1>1. Len(t) \in Nat /\ n \in Nat /\ \A j \in 1..Len(t) : Told(t, s, j) \in Seq(X)
  BY ToldIs DEF X
<1>2. q \in Seq(Seq(X)) /\ Len(q) = Len(t) /\ \A j \in 1..Len(t) : q[j] = Told(t, s, j)
  <2> DEFINE Y == Seq(X)
  <2> HIDE DEF Y
  <2>1. \A j \in 1..Len(t) : Told(t, s, j) \in Y
    BY <1>1 DEF Y
  <2>2. q \in Seq(Y) /\ Len(q) = Len(t) /\ \A j \in 1..Len(t) : q[j] = Told(t, s, j)
    BY <1>1, <2>1 DEF Tolds
  <2> QED
    BY <2>2 DEF Y
<1>3. \A j \in 0..Len(t) : DueUpTo(t, s, j) = FlattenSeq(SubSeq(q, 1, j))
  BY DEF DueUpTo
<1> HIDE DEF q
<1> DEFINE a == SubSeq(q, 1, n)  b == SubSeq(q, n + 1, Len(q))
<1>4. /\ a \in Seq(Seq(X)) /\ b \in Seq(Seq(X)) /\ Len(b) = Len(q) - n
      /\ \A i \in 1..(Len(q) - n) : b[i] = q[n + i]
  BY <1>2, Parts
<1>5. FlattenSeq(q) = FlattenSeq(a) \o FlattenSeq(b)
  BY <1>2, FlattenCut
<1>6. DueUpTo(t, s, n) = FlattenSeq(a)
  BY <1>3
<1> HIDE DEF a, b
<1>7. FlattenSeq(a) \in Seq(X) /\ FlattenSeq(b) \in Seq(X) /\ FlattenSeq(q) \in Seq(X)
  BY <1>2, <1>4, FlattenType
<1>8. IsPrefix(FlattenSeq(a), FlattenSeq(q))
  BY <1>5, <1>7, PrefixConcat
<1>9. (\A k \in (n + 1)..Len(t) : Told(t, s, k) = <<>>) => FlattenSeq(q) = FlattenSeq(a)
  <2> SUFFICES ASSUME \A k \in (n + 1)..Len(t) : Told(t, s, k) = <<>>
               PROVE  FlattenSeq(q) = FlattenSeq(a)
    OBVIOUS
  <2>1. \A i \in 1..Len(b) : b[i] = <<>>
    <3> TAKE i \in 1..Len(b)
    <3>1. n + i \in (n + 1)..Len(t) /\ n + i \in 1..Len(t) /\ i \in 1..(Len(q) - n)
      BY <1>1, <1>2, <1>4
    <3> QED
      BY <1>2, <1>4, <3>1
  <2>2. FlattenSeq(b) = <<>>
    BY <1>4, <2>1, FlattenEmpty
  <2> QED
    BY <1>5, <1>7, <2>2, ConcatEmptySeq
<1>10. DueUpTo(t, s, 0) = <<>>
  <2>1. SubSeq(q, 1, 0) = <<>>
    BY SubSeqEmpty
  <2>2. 0 \in 0..Len(t)
    BY <1>1
  <2> QED
    BY <1>3, <2>1, <2>2, FlattenNone
<1>11. ASSUME n # Len(t) PROVE DueUpTo(t, s, n + 1) = DueUpTo(t, s, n) \o Told(t, s, n + 1)
  <2>1. n + 1 \in 0..Len(q) /\ n + 1 \in 0..Len(t) /\ n + 1 \in 1..Len(t)
    BY <1>1, <1>2, <1>11
  <2>2. FlattenSeq(SubSeq(q, 1, n + 1)) = FlattenSeq(SubSeq(q, 1, n)) \o q[n + 1]
    BY <1>1, <1>2, <2>1, FlattenFirst
  <2> QED
    BY <1>2, <1>3, <2>1, <2>2
<1> QED
  BY <1>6, <1>7, <1>8, <1>9, <1>10, <1>11 DEF q, X

(* What a client has got, when it gets one frame more.                     *)
ChunksOf(f) == FlattenSeq([j \in 1..Len(f) |-> ButDone(f[j])])

LEMMA ChunksAppend ==
    ASSUME NEW f \in Seq(Seq(Byte)), NEW x \in Seq(Byte)
    PROVE  /\ ChunksOf(f) \in Seq(Seq(Byte))
           /\ ChunksOf(Append(f, x)) = ChunksOf(f) \o ButDone(x)
           /\ ChunksOf(<<>>) = <<>>
<1> DEFINE X == Seq(Byte)  Y == Seq(X)
<1>1. \A y \in X : ButDone(y) \in Y
  <2> HIDE DEF X
  <2>1. <<>> \in Seq(X)
    OBVIOUS
  <2> QED
    BY <2>1 DEF ButDone
<1> DEFINE g == [j \in 1..Len(f) |-> ButDone(f[j])]
           h == [j \in 1..Len(Append(f, x)) |-> ButDone(Append(f, x)[j])]
<1>2. /\ Len(f) \in Nat /\ \A j \in 1..Len(f) : f[j] \in X
      /\ Len(Append(f, x)) = Len(f) + 1 /\ Append(f, x)[Len(f) + 1] = x /\ x \in X
      /\ \A j \in 1..Len(f) : Append(f, x)[j] = f[j]
  <2> HIDE DEF X
  <2>1. f \in Seq(X) /\ x \in X
    BY DEF X
  <2> QED
    BY <2>1
<1>3. /\ g \in Seq(Y) /\ ButDone(x) \in Y /\ h \in Seq(Y) /\ h = Append(g, ButDone(x))
  <2> HIDE DEF X, Y
  <2>1. g \in Seq(Y) /\ Len(g) = Len(f) /\ ButDone(x) \in Y
    BY <1>1, <1>2
  <2>2. h \in Seq(Y) /\ Len(h) = Len(f) + 1 /\ \A j \in 1..Len(f) : h[j] = g[j]
    <3>1. \A j \in 1..(Len(f) + 1) : ButDone(Append(f, x)[j]) \in Y
      BY <1>1, <1>2
    <3> QED
      BY <1>2, <3>1
  <2>3. h[Len(f) + 1] = ButDone(x)
    BY <1>2
  <2> HIDE DEF g, h
  <2>4. /\ Append(g, ButDone(x)) \in Seq(Y) /\ Len(Append(g, ButDone(x))) = Len(f) + 1
        /\ \A j \in 1..Len(f) : Append(g, ButDone(x))[j] = g[j]
        /\ Append(g, ButDone(x))[Len(f) + 1] = ButDone(x)
    BY <1>2, <2>1, AppendProperties
  <2>5. \A j \in 1..Len(h) : h[j] = Append(g, ButDone(x))[j]
    <3> TAKE j \in 1..Len(h)
    <3>1. j \in 1..Len(f) \/ j = Len(f) + 1
      BY <1>2, <2>2
    <3> QED
      BY <2>2, <2>3, <2>4, <3>1
  <2> QED
    BY <2>1, <2>2, <2>4, <2>5, SeqEqual
<1>4. ChunksOf(f) = FlattenSeq(g) /\ ChunksOf(Append(f, x)) = FlattenSeq(h)
  BY DEF ChunksOf
<1>5. ChunksOf(<<>>) = <<>>
  <2>1. [j \in 1..Len(<<>>) |-> ButDone(<<>>[j])] = <<>>
    OBVIOUS
  <2> QED
    BY <2>1, FlattenNone DEF ChunksOf
<1> HIDE DEF g, h, X
<1>6. FlattenSeq(Append(g, ButDone(x))) = FlattenSeq(g) \o ButDone(x) /\ FlattenSeq(g) \in Y
  BY <1>3, FlattenAppend, FlattenType
<1> QED
  BY <1>3, <1>4, <1>5, <1>6 DEF X

-----------------------------------------------------------------------------
(* A whole line and what has come of the next ones, in the buffer.         *)
LineAndRest(q, w, r) ==
    /\ HasLine(Decoded(q)) /\ FirstLine(Decoded(q)) = w
    /\ AfterLine(Decoded(q)) = Decoded(r) /\ Held(q) = Held(r)

LEMMA LineThenRest ==
    ASSUME NEW tag, NEW line \in Seq(Byte), NEW w, NEW e, Decodes(tag, line, w, e),
           NEW r \in Seq(Byte), NEW q, q = line \o r
    PROVE  LineAndRest(q, w, r)
<1>1. /\ w \in Seq(NotNl) /\ e \in Byte /\ e.is = "nl"
      /\ Decoded(line) = Append(w, e) /\ Held(line) = <<>>
  BY DEF Decodes
<1>2. Decoded(r) \in Seq(Byte) /\ Append(w, e) \in Seq(Byte)
  BY <1>1, DecodedType DEF NotNl
<1>3. Decoded(q) = Append(w, e) \o Decoded(r) /\ Held(q) = Held(r)
  <2>1. CASE r = <<>>
    <3>1. q = line
      BY <2>1, ConcatEmptySeq
    <3>2. Decoded(r) = <<>> /\ Held(r) = <<>>
      BY <2>1, DecodedNone
    <3> QED
      BY <1>1, <1>2, <3>1, <3>2, ConcatEmptySeq
  <2>2. CASE r # <<>>
    <3>1. <<>> \o r = r
      BY ConcatEmptySeq
    <3>2. /\ Decoded(line \o r) = Decoded(line) \o Decoded(Held(line) \o r)
          /\ Held(line \o r) = Held(Held(line) \o r)
      BY <2>2, DecodedConcat
    <3> QED
      BY <1>1, <3>1, <3>2
  <2> QED
    BY <2>1, <2>2
<1> DEFINE d == Decoded(q)  x == Decoded(r)
<1>4. Starts(d, w, e, x)
  BY <1>1, <1>2, <1>3 DEF Starts
<1> HIDE DEF d, x
<1>5. HasLine(d) /\ FirstLine(d) = w /\ AfterLine(d) = x
  BY <1>4, FirstLineIs
<1> QED
  BY <1>3, <1>5 DEF LineAndRest, d, x

Opening(a, b, v) == Len(a) <= Len(v) /\ \A i \in 1..Len(v) : (a \o b)[i] = v[i]
Covers(a, b, line, c) == a \o b = line \o c /\ Len(line) <= Len(a)
SplitOff(X, a, b, line, c) == \E r \in Seq(X) : a = line \o r /\ r \o b = c

LEMMA Shorter ==
    ASSUME NEW a \in Seq(Byte), NEW b \in Seq(Byte), NEW v \in Seq(NotNl), Opening(a, b, v)
    PROVE  a \in Seq(NotNl)
<1>1. /\ Len(a) \in Nat /\ Len(v) \in Nat /\ Len(a) <= Len(v)
      /\ \A i \in 1..Len(a) : (a \o b)[i] = a[i]
      /\ \A i \in 1..Len(v) : (a \o b)[i] = v[i] /\ v[i] \in NotNl
  <2>1. Len(a) <= Len(v) /\ \A i \in 1..Len(v) : (a \o b)[i] = v[i]
    BY DEF Opening
  <2>2. \A i \in 1..Len(a) : (a \o b)[i] = a[i]
    OBVIOUS
  <2>3. Len(a) \in Nat /\ Len(v) \in Nat /\ \A i \in 1..Len(v) : v[i] \in NotNl
    OBVIOUS
  <2> QED
    BY <2>1, <2>2, <2>3
<1>2. \A i \in 1..Len(a) : a[i] \in NotNl
  <2> TAKE i \in 1..Len(a)
  <2>1. i \in 1..Len(v)
    BY <1>1
  <2> QED
    BY <1>1, <2>1
<1> QED
  BY <1>2, Retyped

LEMMA Longer ==
    ASSUME NEW X, NEW a \in Seq(X), NEW b \in Seq(X), NEW line \in Seq(X), NEW c \in Seq(X),
           Covers(a, b, line, c)
    PROVE  SplitOff(X, a, b, line, c)
<1> DEFINE m == Len(line)  q == a \o b  r == SubSeq(a, m + 1, Len(a))  p == SubSeq(a, 1, m)
<1>1. m \in 0..Len(a) /\ Len(a) \in Nat /\ Len(b) \in Nat /\ m \in Nat /\ q = line \o c
  BY DEF Covers
<1>2. \A i \in 1..m : a[i] = line[i]
  <2>1. \A i \in 1..m : (line \o c)[i] = line[i]
    OBVIOUS
  <2>2. \A i \in 1..Len(a) : q[i] = a[i]
    OBVIOUS
  <2>3. \A i \in 1..m : i \in 1..Len(a)
    BY <1>1
  <2> QED
    BY <1>1, <2>1, <2>2, <2>3
<1>3. m = Len(line)
  OBVIOUS
<1> HIDE DEF m
<1>4. p \in Seq(X) /\ Len(p) = m /\ (\A i \in 1..m : p[i] = a[i]) /\ r \in Seq(X) /\ a = p \o r
  <2>1. a \in Seq(X) /\ m \in 0..Len(a)
    BY <1>1
  <2>2. SubSeq(a, 1, m) \in Seq(X) /\ Len(SubSeq(a, 1, m)) = m
    BY ONLY <2>1, Parts
  <2>3. (\A i \in 1..m : SubSeq(a, 1, m)[i] = a[i]) /\ SubSeq(a, m + 1, Len(a)) \in Seq(X)
    BY ONLY <2>1, Parts
  <2>4. a = SubSeq(a, 1, m) \o SubSeq(a, m + 1, Len(a))
    BY ONLY <2>1, Parts
  <2> QED
    BY ONLY <2>2, <2>3, <2>4 DEF p, r
<1> HIDE DEF p, r
<1>5. p = line
  <2>1. Len(p) = Len(line) /\ \A i \in 1..Len(p) : p[i] = line[i]
    BY <1>1, <1>2, <1>3, <1>4
  <2> QED
    BY <1>4, <2>1, SeqEqual
<1>6. line \o (r \o b) = line \o c /\ r \o b \in Seq(X)
  <2>1. (line \o r) \o b = line \o (r \o b)
    <3>1. line \in Seq(X) /\ r \in Seq(X) /\ b \in Seq(X)
      BY <1>4
    <3> QED
      BY ONLY <3>1, Associative, SMTT(30)
  <2>2. r \o b \in Seq(X)
    BY <1>4
  <2> QED
    BY <1>1, <1>4, <1>5, <2>1, <2>2
<1>7. r \o b = c
  BY <1>6, ConcatSimplifications
<1> QED
  BY <1>4, <1>5, <1>7 DEF SplitOff

(* Where a reader is that has the bytes raw since the last line it cut.    *)
Stops(t, n) == n # Len(t) /\ t[n + 1] \in {"done", "bad", "unended"}
UnendedLast(t) == \A n \in 1..Len(t) : t[n] = "unended" => n = Len(t)

HasNext(t, s, n, raw, rest) ==
    /\ n + 1 \in 1..Len(t) /\ t[n + 1] # "unended"
    /\ \E r \in Seq(Byte) : raw = Line(t, s, n + 1) \o r /\ r \o rest = Rest(t, s, n + 1)

LEMMA BufferHasLine ==
    ASSUME NEW t \in Seq(DOMAIN Symbols), UnendedLast(t), NEW s \in StreamId, NEW n \in 0..Len(t),
           NEW raw \in Seq(Byte), NEW rest \in Seq(Byte), raw \o rest = Rest(t, s, n),
           HasLine(Decoded(raw))
    PROVE  HasNext(t, s, n, raw, rest)
<1>1. n \in Nat /\ Len(t) \in Nat
  OBVIOUS
<1>2. n # Len(t)
  <2> SUFFICES ASSUME n = Len(t) PROVE FALSE
    OBVIOUS
  <2>1. raw \o rest = <<>>
    BY RestIs
  <2>2. raw = <<>>
    BY <2>1, ConcatSimplifications
  <2>3. ~HasLine(<<>>)
    BY DEF HasLine, LineEnds
  <2> QED
    BY <2>2, <2>3, DecodedNone
<1>3. n + 1 \in 1..Len(t) /\ n + 1 \in 0..Len(t)
  BY <1>1, <1>2
<1> DEFINE line == Line(t, s, n + 1)  c == Rest(t, s, n + 1)
<1>4. line \in Seq(Byte) /\ c \in Seq(Byte) /\ raw \o rest = line \o c
  BY <1>2, <1>3, LineDecoded, RestIs
<1>5. /\ t[n + 1] = "unended" => line \in Seq(NotNl)
      /\ t[n + 1] # "unended" => \E v, e : Ends(line, v, e)
  BY <1>3, LineDecoded
<1>6. t[n + 1] = "unended" => c = <<>>
  <2> SUFFICES ASSUME t[n + 1] = "unended" PROVE c = <<>>
    OBVIOUS
  <2>1. n + 1 = Len(t)
    BY <1>3 DEF UnendedLast
  <2> QED
    BY <1>3, <2>1, RestIs
<1> HIDE DEF line, c
<1>7. raw \notin Seq(NotNl)
  BY DecodedNoLine
<1>8. t[n + 1] # "unended"
  <2> SUFFICES ASSUME t[n + 1] = "unended" PROVE FALSE
    OBVIOUS
  <2>1. raw \o rest = line
    BY <1>4, <1>6, ConcatEmptySeq
  <2>2. Opening(raw, rest, line)
    BY <2>1 DEF Opening
  <2>3. line \in Seq(NotNl)
    BY <1>5
  <2>4. raw \in Seq(NotNl)
    BY <2>2, <2>3, Shorter
  <2> QED
    BY <1>7, <2>4
<1>9. PICK v, e : Ends(line, v, e)
  BY <1>5, <1>8
<1>10. v \in Seq(NotNl) /\ e \in Byte /\ line = Append(v, e)
  BY <1>9 DEF Ends
<1>11. Len(line) <= Len(raw)
  <2> SUFFICES ASSUME Len(raw) < Len(line) PROVE FALSE
    BY <1>4
  <2>1. Len(v) \in Nat /\ Len(line) = Len(v) + 1 /\ \A i \in 1..Len(v) : line[i] = v[i]
    BY <1>10
  <2>2. \A i \in 1..Len(line) : (line \o c)[i] = line[i]
    BY <1>4
  <2>3. \A i \in 1..Len(v) : i \in 1..Len(line)
    BY <2>1
  <2>4. Opening(raw, rest, v)
    <3>1. Len(raw) \in Nat /\ Len(raw) <= Len(v)
      BY <2>1
    <3>2. \A i \in 1..Len(v) : (raw \o rest)[i] = v[i]
      BY ONLY <1>4, <2>1, <2>2, <2>3
    <3> QED
      BY <3>1, <3>2 DEF Opening
  <2>5. raw \in Seq(NotNl)
    BY <1>10, <2>4, Shorter
  <2> QED
    BY <1>7, <2>5
<1>12. \E r \in Seq(Byte) : raw = line \o r /\ r \o rest = c
  <2>1. Covers(raw, rest, line, c)
    BY <1>4, <1>11 DEF Covers
  <2>2. raw \in Seq(Byte) /\ rest \in Seq(Byte)
    OBVIOUS
  <2>3. SplitOff(Byte, raw, rest, line, c)
    BY ONLY <1>4, <2>1, <2>2, Longer
  <2> QED
    BY <2>3 DEF SplitOff
<1> QED
  BY <1>3, <1>8, <1>12 DEF HasNext, line, c

LEMMA BufferAtEnd ==
    ASSUME NEW t \in Seq(DOMAIN Symbols), NEW s \in StreamId, NEW n \in 0..Len(t),
           NEW raw \in Seq(Byte), raw = Rest(t, s, n), ~HasLine(Decoded(raw))
    PROVE  n = Len(t) \/ t[n + 1] = "unended"
<1> SUFFICES ASSUME n # Len(t), t[n + 1] # "unended" PROVE FALSE
  OBVIOUS
<1>1. n + 1 \in 1..Len(t)
  OBVIOUS
<1> DEFINE line == Line(t, s, n + 1)  c == Rest(t, s, n + 1)  tag == t[n + 1]
<1>2. raw = line \o c /\ c \in Seq(Byte)
  BY RestIs
<1>3. line \in Seq(Byte) /\ \E w, e : Decodes(tag, line, w, e)
  BY <1>1, LineDecoded
<1> HIDE DEF line, c, tag
<1>4. PICK w, e : Decodes(tag, line, w, e)
  BY <1>3
<1>5. HasLine(Decoded(raw))
  <2>1. LineAndRest(raw, w, c)
    BY ONLY <1>2, <1>3, <1>4, LineThenRest
  <2> QED
    BY <2>1 DEF LineAndRest
<1> QED
  BY <1>5

-----------------------------------------------------------------------------
(* The reader of a stream that is not over has raw of the text's bytes     *)
(* since the last line it cut, and has told what those lines tell.         *)
ReadTo(s, n, raw) ==
    /\ n \in 0..Len(text[s]) /\ raw \in Seq(Byte)
    /\ Readable(text[s], n)
    /\ raw \o bytes[s] = Rest(text[s], s, n)
    /\ buf[s] = Decoded(raw) /\ decoder = Held(raw)
    /\ ChunksOf(frames[s]) = DueUpTo(text[s], s, n)

StreamTypes ==
    /\ text \in [StreamId -> Texts]
    /\ bytes \in [StreamId -> Seq(Byte)]
    /\ buf \in [StreamId -> Seq(Byte)]
    /\ phase \in [StreamId -> {"fetching", "pulling", "yielded", "ended"}]
    /\ error \in [StreamId -> BOOLEAN]
    /\ verdict \in [StreamId -> {"none", "ok", "failed"}]
    /\ frames \in [StreamId -> Seq(Seq(Byte))]

Running(s) == ~error[s] /\ verdict[s] # "failed" /\ \E n, raw : ReadTo(s, n, raw)
Over(s) ==
    /\ IsPrefix(ChunksOf(frames[s]), Due(s))
    /\ ~error[s] => ChunksOf(frames[s]) = Due(s)

StreamInv(s) ==
    /\ StreamTypes
    /\ verdict[s] # "ok" => frames[s] = <<>>
    /\ IF phase[s] = "ended" THEN Over(s) ELSE Running(s)

LEMMA TextIs ==
    ASSUME NEW s \in StreamId, StreamTypes
    PROVE  /\ text[s] \in Seq(DOMAIN Symbols) /\ UnendedLast(text[s])
           /\ bytes[s] \in Seq(Byte) /\ buf[s] \in Seq(Byte) /\ frames[s] \in Seq(Seq(Byte))
           /\ Due(s) = FlattenSeq(Tolds(text[s], s))
<1>1. text[s] \in Texts /\ bytes[s] \in Seq(Byte) /\ buf[s] \in Seq(Byte) /\ frames[s] \in Seq(Seq(Byte))
  BY DEF StreamTypes
<1>2. text[s] \in Seq(DOMAIN Symbols) /\ UnendedLast(text[s])
  BY <1>1, TextsAssumption DEF UnendedLast
<1>3. Due(s) = FlattenSeq(Tolds(text[s], s))
  BY DEF Due, Tolds
<1> QED
  BY <1>1, <1>2, <1>3

LEMMA ToldSoFar ==
    ASSUME NEW s \in StreamId, StreamTypes, NEW n, NEW raw, ReadTo(s, n, raw)
    PROVE  IsPrefix(ChunksOf(frames[s]), Due(s))
BY TextIs, DueIs DEF ReadTo

(* Nothing is due after the end of a text, or the line that ends it.       *)
LEMMA NothingMore ==
    ASSUME NEW s \in StreamId, StreamTypes, NEW n, NEW raw, ReadTo(s, n, raw),
           n = Len(text[s]) \/ Stops(text[s], n)
    PROVE  ChunksOf(frames[s]) = Due(s)
<1> DEFINE t == text[s]
<1>1. t \in Seq(DOMAIN Symbols) /\ n \in 0..Len(t) /\ Len(t) \in Nat /\ n \in Nat
      /\ Due(s) = FlattenSeq(Tolds(t, s)) /\ ChunksOf(frames[s]) = DueUpTo(t, s, n)
  <2>1. t \in Seq(DOMAIN Symbols) /\ Due(s) = FlattenSeq(Tolds(t, s))
    BY TextIs
  <2>2. n \in 0..Len(t) /\ ChunksOf(frames[s]) = DueUpTo(t, s, n)
    BY DEF ReadTo
  <2> QED
    BY <2>1, <2>2
<1>2. \A k \in (n + 1)..Len(t) : Told(t, s, k) = <<>>
  <2> TAKE k \in (n + 1)..Len(t)
  <2>1. k \in 1..Len(t) /\ n + 1 \in 1..k /\ n # Len(t)
    BY <1>1
  <2>2. ~Readable(t, k)
    BY <2>1 DEF Readable, Stops
  <2> QED
    BY <1>1, <2>1, <2>2, ToldIs
<1> HIDE DEF t
<1> QED
  BY <1>1, <1>2, DueIs

LEMMA ReturnKeeps ==
    ASSUME NEW s \in StreamId, StreamInv(s), phase[s] # "ended", NEW wrong \in BOOLEAN, Return(s, wrong),
           ~wrong => ChunksOf(frames[s]) = Due(s),
           text' = text, bytes' = bytes, buf' \in [StreamId -> Seq(Byte)]
    PROVE  StreamInv(s)'
<1>1. StreamTypes /\ Running(s) /\ (verdict[s] # "ok" => frames[s] = <<>>)
  BY DEF StreamInv
<1>2. /\ text \in [StreamId -> Texts] /\ bytes \in [StreamId -> Seq(Byte)]
      /\ phase \in [StreamId -> {"fetching", "pulling", "yielded", "ended"}]
      /\ error \in [StreamId -> BOOLEAN] /\ verdict \in [StreamId -> {"none", "ok", "failed"}]
      /\ frames \in [StreamId -> Seq(Seq(Byte))]
  BY <1>1 DEF StreamTypes
<1>3. PICK n, raw : ReadTo(s, n, raw)
  BY <1>1 DEF Running
<1>4. IsPrefix(ChunksOf(frames[s]), Due(s))
  BY <1>1, <1>3, ToldSoFar
<1>5. Done \in Seq(Byte) /\ ButDone(Done) = <<>>
  <2>1. [of |-> {}, is |-> "[DONE]"] \in Byte
    BY DEF Byte, Symbol
  <2> QED
    BY <2>1 DEF Done, ButDone
<1>6. /\ frames[s] \in Seq(Seq(Byte)) /\ Append(frames[s], Done) \in Seq(Seq(Byte))
      /\ ChunksOf(Append(frames[s], Done)) = ChunksOf(frames[s])
  <2> DEFINE f == frames[s]
  <2>1. f \in Seq(Seq(Byte))
    BY <1>2
  <2> HIDE DEF f
  <2>2. ChunksOf(Append(f, Done)) = ChunksOf(f) \o ButDone(Done) /\ ChunksOf(f) \in Seq(Seq(Byte))
    BY <1>5, <2>1, ChunksAppend
  <2>3. ChunksOf(f) \o <<>> = ChunksOf(f)
    BY <2>2, ConcatEmptySeq
  <2>4. Append(f, Done) \in Seq(Seq(Byte))
    BY <1>5, <2>1, AppendProperties
  <2> QED
    BY <1>5, <2>1, <2>2, <2>3, <2>4 DEF f
<1>7. Judged(s, wrong) \in {"ok", "failed"}
  BY <1>1, <1>2 DEF Judged, Running
<1>8. phase' = [phase EXCEPT ![s] = "ended"] /\ error' = [error EXCEPT ![s] = wrong]
      /\ verdict' = [verdict EXCEPT ![s] = Judged(s, wrong)]
  BY DEF Return
<1>9. /\ phase' \in [StreamId -> {"fetching", "pulling", "yielded", "ended"}] /\ phase'[s] = "ended"
      /\ error' \in [StreamId -> BOOLEAN] /\ error'[s] = wrong
      /\ verdict' \in [StreamId -> {"none", "ok", "failed"}] /\ verdict'[s] = Judged(s, wrong)
  BY <1>2, <1>7, <1>8
<1>10. /\ frames' \in [StreamId -> Seq(Seq(Byte))] /\ ChunksOf(frames'[s]) = ChunksOf(frames[s])
       /\ Judged(s, wrong) # "ok" => frames'[s] = frames[s]
  <2>1. CASE Judged(s, wrong) = "ok"
    <3>1. frames' = [frames EXCEPT ![s] = Append(frames[s], Done)]
      BY <2>1 DEF Return
    <3> DEFINE X == Seq(Seq(Byte))
    <3>2. frames \in [StreamId -> X] /\ Append(frames[s], Done) \in X
      BY <1>2, <1>6
    <3> HIDE DEF X
    <3>3. frames' \in [StreamId -> X] /\ frames'[s] = Append(frames[s], Done)
      BY <3>1, <3>2
    <3> QED
      BY <1>6, <2>1, <3>3 DEF X
  <2>2. CASE Judged(s, wrong) # "ok"
    BY <1>2, <2>2 DEF Return
  <2> QED
    BY <2>1, <2>2
<1>11. Judged(s, wrong) # "ok" => frames[s] = <<>>
  BY <1>1, <1>7 DEF Judged, Running
<1>12. Due(s)' = Due(s)
  BY DEF Due
<1>13. StreamTypes'
  BY <1>2, <1>9, <1>10 DEF StreamTypes
<1>14. Over(s)'
  <2>1. IsPrefix(ChunksOf(frames'[s]), Due(s)') /\ (~error'[s] => ChunksOf(frames'[s]) = Due(s)')
    BY <1>4, <1>9, <1>10, <1>12
  <2> QED
    BY <2>1 DEF Over
<1> QED
  BY <1>9, <1>10, <1>11, <1>13, <1>14 DEF StreamInv

LEMMA DueStable ==
    ASSUME NEW s, text' = text
    PROVE  Due(s)' = Due(s)
BY DEF Due

(* Where the reader is once it has cut a line off its buffer.              *)
CutAt(s, n, w, r) ==
    /\ n \in Nat /\ n + 1 \in 1..Len(text[s]) /\ text[s][n + 1] \in Kinds \ {"unended"}
    /\ \E e : Decodes(text[s][n + 1], Line(text[s], s, n + 1), w, e)
    /\ FirstLine(buf[s]) = w
    /\ r \in Seq(Byte) /\ r \o bytes[s] = Rest(text[s], s, n + 1)
    /\ AfterLine(buf[s]) = Decoded(r) /\ decoder = Held(r)

LEMMA CutIs ==
    ASSUME NEW s \in StreamId, StreamTypes, NEW n, NEW raw, ReadTo(s, n, raw), HasLine(buf[s])
    PROVE  \E w, r : CutAt(s, n, w, r)
<1> DEFINE t == text[s]  line == Line(t, s, n + 1)  tag == t[n + 1]
<1>1. /\ t \in Seq(DOMAIN Symbols) /\ UnendedLast(t) /\ n \in 0..Len(t) /\ n \in Nat
      /\ raw \in Seq(Byte) /\ bytes[s] \in Seq(Byte) /\ raw \o bytes[s] = Rest(t, s, n)
      /\ buf[s] = Decoded(raw) /\ decoder = Held(raw)
  <2>1. t \in Seq(DOMAIN Symbols) /\ UnendedLast(t) /\ bytes[s] \in Seq(Byte)
    BY TextIs
  <2>2. /\ n \in 0..Len(t) /\ raw \in Seq(Byte) /\ raw \o bytes[s] = Rest(t, s, n)
        /\ buf[s] = Decoded(raw) /\ decoder = Held(raw)
    BY DEF ReadTo
  <2> QED
    BY <2>1, <2>2
<1> DEFINE rest == bytes[s]
<1>2. /\ n + 1 \in 1..Len(t) /\ tag # "unended"
      /\ \E r \in Seq(Byte) : raw = line \o r /\ r \o rest = Rest(t, s, n + 1)
  <2>1. HasLine(Decoded(raw))
    BY <1>1
  <2> HIDE DEF t, rest
  <2>2. rest \in Seq(Byte) /\ raw \o rest = Rest(t, s, n)
    BY <1>1 DEF rest
  <2>3. HasNext(t, s, n, raw, rest)
    BY <1>1, <2>1, <2>2, BufferHasLine
  <2> QED
    BY <2>3 DEF HasNext
<1>3. PICK r \in Seq(Byte) : raw = line \o r /\ r \o rest = Rest(t, s, n + 1)
  BY <1>2
<1>4. line \in Seq(Byte) /\ tag \in Kinds /\ \E w, e : Decodes(tag, line, w, e)
  BY <1>1, <1>2, LineDecoded
<1>5. PICK w, e : Decodes(tag, line, w, e)
  BY <1>4
<1> HIDE DEF t, line, tag
<1>6. /\ FirstLine(Decoded(raw)) = w /\ AfterLine(Decoded(raw)) = Decoded(r) /\ Held(raw) = Held(r)
  <2>1. raw = line \o r /\ line \in Seq(Byte) /\ r \in Seq(Byte)
    BY <1>3, <1>4
  <2>2. LineAndRest(raw, w, r)
    BY ONLY <1>5, <2>1, LineThenRest
  <2> QED
    BY <2>2 DEF LineAndRest
<1>7. CutAt(s, n, w, r)
  BY <1>1, <1>2, <1>3, <1>4, <1>5, <1>6 DEF CutAt, t, line, tag
<1> QED
  BY <1>7

(* A line that does not end the text, and what is due with it.             *)
Advances(s, n, w) ==
    /\ n + 1 \in 0..Len(text[s]) /\ Readable(text[s], n + 1)
    /\ DueUpTo(text[s], s, n) \in Seq(Seq(Byte))
    /\ DueUpTo(text[s], s, n + 1) =
          DueUpTo(text[s], s, n) \o (IF IsData(w) THEN <<Payload(w)>> ELSE <<>>)
    /\ IsData(w) => Payload(w) \in Seq(Byte) /\ Payload(w) # Done

LEMMA NextDue ==
    ASSUME NEW s \in StreamId, StreamTypes, NEW n, NEW raw, ReadTo(s, n, raw),
           NEW w, NEW r, CutAt(s, n, w, r), text[s][n + 1] \in {"plain", "wide", "comment"}
    PROVE  Advances(s, n, w)
<1> DEFINE t == text[s]  tag == t[n + 1]  line == Line(t, s, n + 1)
<1>1. t \in Seq(DOMAIN Symbols) /\ n \in 0..Len(t) /\ n \in Nat /\ Readable(t, n)
      /\ n + 1 \in 1..Len(t) /\ n + 1 \in 0..Len(t) /\ n # Len(t)
  <2>1. t \in Seq(DOMAIN Symbols) /\ Len(t) \in Nat
    BY TextIs
  <2>2. n \in 0..Len(t) /\ Readable(t, n)
    BY DEF ReadTo
  <2>3. n + 1 \in 1..Len(t) /\ n \in Nat
    BY DEF CutAt
  <2> QED
    BY <2>1, <2>2, <2>3
<1>2. Readable(t, n + 1)
  <2>1. \A l \in 1..(n + 1) : l \in 1..n \/ l = n + 1
    BY <1>1
  <2> QED
    BY <1>1, <2>1 DEF Readable
<1>3. PICK e : Decodes(tag, line, w, e)
  BY DEF CutAt
<1>4. /\ IsData(w) <=> tag # "comment"
      /\ tag \in {"plain", "wide"} => Payload(w) \in Seq(Byte) /\ Payload(w) # Done
  BY <1>3 DEF Decodes
<1>5. DueUpTo(t, s, n) \in Seq(Seq(Byte)) /\ DueUpTo(t, s, n + 1) = DueUpTo(t, s, n) \o Told(t, s, n + 1)
  BY <1>1, DueIs
<1>6. Told(t, s, n + 1) = IF IsData(w) THEN <<Payload(w)>> ELSE <<>>
  BY <1>1, <1>2, <1>3, <1>4, ToldIs
<1> QED
  BY <1>1, <1>2, <1>4, <1>5, <1>6 DEF Advances

LEMMA CutTypes ==
    ASSUME NEW s \in StreamId, StreamTypes, NEW w, NEW n, NEW r, CutAt(s, n, w, r), Cut(s)
    PROVE  buf' \in [StreamId -> Seq(Byte)] /\ buf'[s] = Decoded(r)
<1>1. r \in Seq(Byte) /\ AfterLine(buf[s]) = Decoded(r)
  BY DEF CutAt
<1>2. Decoded(r) \in Seq(Byte)
  BY <1>1, DecodedType
<1>3. buf' = [buf EXCEPT ![s] = Decoded(r)] /\ buf \in [StreamId -> Seq(Byte)]
  BY <1>1 DEF Cut, StreamTypes
<1> QED
  BY <1>2, <1>3

-----------------------------------------------------------------------------
(* The steps of a reader.                                                  *)
LEMMA SkipKeeps ==
    ASSUME NEW s \in StreamId, StreamInv(s), Skip(s)
    PROVE  StreamInv(s)'
<1>1. /\ StreamTypes /\ Running(s) /\ (verdict[s] # "ok" => frames[s] = <<>>)
      /\ Cut(s) /\ HasLine(buf[s]) /\ ~IsData(FirstLine(buf[s])) /\ phase[s] = "pulling"
      /\ decoder' = decoder /\ text' = text /\ bytes' = bytes /\ phase' = phase /\ error' = error
      /\ verdict' = verdict /\ frames' = frames
  BY DEF StreamInv, Skip, Cut
<1>2. PICK n, raw : ReadTo(s, n, raw)
  BY <1>1 DEF Running
<1>3. PICK w, r : CutAt(s, n, w, r)
  BY <1>1, <1>2, CutIs
<1>4. text[s][n + 1] = "comment" /\ ~IsData(w)
  <2>1. ~IsData(w) /\ \E e : Decodes(text[s][n + 1], Line(text[s], s, n + 1), w, e)
    BY <1>1, <1>3 DEF CutAt
  <2> QED
    BY <2>1 DEF Decodes
<1>5. /\ n + 1 \in 0..Len(text[s]) /\ Readable(text[s], n + 1)
      /\ DueUpTo(text[s], s, n) \in Seq(Seq(Byte))
      /\ DueUpTo(text[s], s, n + 1) = DueUpTo(text[s], s, n) \o <<>>
  <2>1. text[s][n + 1] \in {"plain", "wide", "comment"}
    BY <1>4
  <2>2. Advances(s, n, w)
    BY <1>1, <1>2, <1>3, <2>1, NextDue
  <2> QED
    BY <1>4, <2>2 DEF Advances
<1>6. DueUpTo(text[s], s, n + 1) = DueUpTo(text[s], s, n)
  BY <1>5, ConcatEmptySeq
<1>7. buf' \in [StreamId -> Seq(Byte)] /\ buf'[s] = Decoded(r)
  BY <1>1, <1>3, CutTypes
<1>8. ReadTo(s, n + 1, r)'
  BY <1>1, <1>2, <1>3, <1>5, <1>6, <1>7 DEF ReadTo, CutAt
<1> QED
  BY <1>1, <1>7, <1>8 DEF StreamInv, StreamTypes, Running

LEMMA YieldKeeps ==
    ASSUME NEW s \in StreamId, StreamInv(s), Yield(s)
    PROVE  StreamInv(s)'
<1> DEFINE w == FirstLine(buf[s])
<1>1. /\ StreamTypes /\ Running(s) /\ Cut(s) /\ HasLine(buf[s]) /\ phase[s] = "pulling"
      /\ IsData(w) /\ ~Says(w, "[DONE]") /\ ~Says(w, "broken")
      /\ phase' = [phase EXCEPT ![s] = "yielded"]
      /\ verdict' = [verdict EXCEPT ![s] = Judged(s, error[s])]
      /\ frames' = [frames EXCEPT ![s] = Append(frames[s], Payload(w))]
      /\ decoder' = decoder /\ text' = text /\ bytes' = bytes /\ error' = error
  BY DEF StreamInv, Yield, Cut
<1> HIDE DEF w
<1>2. PICK n, raw : ReadTo(s, n, raw)
  BY <1>1 DEF Running
<1>3. PICK r : CutAt(s, n, w, r)
  <2>1. PICK v, r : CutAt(s, n, v, r)
    BY <1>1, <1>2, CutIs
  <2>2. v = w
    BY <2>1 DEF CutAt, w
  <2> QED
    BY <2>1, <2>2
<1>4. text[s][n + 1] \in {"plain", "wide"}
  <2>1. text[s][n + 1] \in Kinds \ {"unended"} /\ \E e : Decodes(text[s][n + 1], Line(text[s], s, n + 1), w, e)
    BY <1>3 DEF CutAt
  <2> QED
    BY <1>1, <2>1 DEF Decodes, Kinds
<1>5. /\ n + 1 \in 0..Len(text[s]) /\ Readable(text[s], n + 1)
      /\ DueUpTo(text[s], s, n + 1) = DueUpTo(text[s], s, n) \o <<Payload(w)>>
      /\ Payload(w) \in Seq(Byte) /\ Payload(w) # Done
  <2>1. text[s][n + 1] \in {"plain", "wide", "comment"}
    BY <1>4
  <2>2. Advances(s, n, w)
    BY <1>1, <1>2, <1>3, <2>1, NextDue
  <2> QED
    BY <1>1, <2>2 DEF Advances
<1>6. buf' \in [StreamId -> Seq(Byte)] /\ buf'[s] = Decoded(r)
  BY <1>1, <1>3, CutTypes
<1>7. /\ frames' \in [StreamId -> Seq(Seq(Byte))]
      /\ ChunksOf(frames'[s]) = ChunksOf(frames[s]) \o <<Payload(w)>>
  <2> DEFINE X == Seq(Seq(Byte))  f == frames[s]
  <2>1. frames \in [StreamId -> X] /\ f \in Seq(Seq(Byte))
    BY <1>1 DEF StreamTypes
  <2>2. Append(f, Payload(w)) \in X
    BY <1>5, <2>1, AppendProperties
  <2> HIDE DEF f
  <2>3. ChunksOf(Append(f, Payload(w))) = ChunksOf(f) \o ButDone(Payload(w))
    BY <1>5, <2>1, ChunksAppend
  <2>4. ButDone(Payload(w)) = <<Payload(w)>>
    BY <1>5 DEF ButDone
  <2> HIDE DEF X
  <2>5. frames' \in [StreamId -> X] /\ frames'[s] = Append(f, Payload(w))
    BY <1>1, <2>1, <2>2 DEF f
  <2> QED
    BY <2>3, <2>4, <2>5 DEF X, f
<1>8. ReadTo(s, n + 1, r)'
  <2>1. ChunksOf(frames'[s]) = DueUpTo(text[s], s, n + 1)
    BY <1>2, <1>5, <1>7 DEF ReadTo
  <2> QED
    BY <1>1, <1>2, <1>3, <1>5, <1>6, <2>1 DEF ReadTo, CutAt
<1>9. /\ verdict' \in [StreamId -> {"none", "ok", "failed"}] /\ verdict'[s] = "ok"
      /\ phase' \in [StreamId -> {"fetching", "pulling", "yielded", "ended"}] /\ phase'[s] # "ended"
      /\ ~error'[s]
  <2>1. Judged(s, error[s]) = "ok"
    BY <1>1 DEF Judged, Running, StreamTypes
  <2> QED
    BY <1>1, <2>1 DEF Running, StreamTypes
<1>10. StreamTypes'
  BY <1>1, <1>6, <1>7, <1>9 DEF StreamTypes
<1>11. Running(s)'
  BY <1>8, <1>9 DEF Running
<1> QED
  BY <1>9, <1>10, <1>11 DEF StreamInv

LEMMA FinishKeeps ==
    ASSUME NEW s \in StreamId, StreamInv(s), Finish(s) \/ Corrupt(s)
    PROVE  StreamInv(s)'
<1> DEFINE w == FirstLine(buf[s])
<1>1. /\ StreamTypes /\ Running(s) /\ Cut(s) /\ HasLine(buf[s]) /\ phase[s] # "ended"
      /\ text' = text /\ bytes' = bytes /\ error[s] = FALSE
  BY DEF StreamInv, Finish, Corrupt, Cut, Running, StreamTypes
<1> HIDE DEF w
<1>2. PICK n, raw : ReadTo(s, n, raw)
  BY <1>1 DEF Running
<1>3. PICK r : CutAt(s, n, w, r)
  <2>1. PICK v, r : CutAt(s, n, v, r)
    BY <1>1, <1>2, CutIs
  <2>2. v = w
    BY <2>1 DEF CutAt, w
  <2> QED
    BY <2>1, <2>2
<1>4. buf' \in [StreamId -> Seq(Byte)]
  BY <1>1, <1>3, CutTypes
<1>5. CASE Finish(s)
  <2>1. Says(w, "[DONE]") /\ Return(s, FALSE)
    BY <1>1, <1>5 DEF Finish, w
  <2>2. text[s][n + 1] = "done" /\ n + 1 \in 1..Len(text[s]) /\ n \in Nat
    <3>1. n + 1 \in 1..Len(text[s]) /\ n \in Nat
          /\ \E e : Decodes(text[s][n + 1], Line(text[s], s, n + 1), w, e)
      BY <1>3 DEF CutAt
    <3> QED
      BY <2>1, <3>1 DEF Decodes
  <2>3. Stops(text[s], n)
    <3>1. n # Len(text[s])
      BY <2>2
    <3> QED
      BY <2>2, <3>1 DEF Stops
  <2>4. ChunksOf(frames[s]) = Due(s)
    BY <1>1, <1>2, <2>3, NothingMore
  <2>5. FALSE \in BOOLEAN
    OBVIOUS
  <2> QED
    BY <1>1, <1>4, <2>1, <2>4, <2>5, ReturnKeeps
<1>6. CASE Corrupt(s)
  <2>1. Return(s, TRUE) /\ TRUE \in BOOLEAN
    BY <1>6 DEF Corrupt
  <2> QED
    BY <1>1, <1>4, <2>1, ReturnKeeps
<1> QED
  BY <1>5, <1>6

LEMMA EndKeeps ==
    ASSUME NEW s \in StreamId, StreamInv(s), End(s)
    PROVE  StreamInv(s)'
<1>1. /\ StreamTypes /\ Running(s) /\ ~HasLine(buf[s]) /\ bytes[s] = <<>> /\ phase[s] # "ended"
      /\ text' = text /\ bytes' = bytes /\ error[s] = FALSE /\ Return(s, FALSE)
  <2>1. StreamTypes /\ Running(s) /\ error[s] = FALSE /\ phase[s] # "ended"
    BY DEF StreamInv, End, Running, StreamTypes
  <2> QED
    BY <2>1 DEF End
<1>2. PICK n, raw : ReadTo(s, n, raw)
  BY <1>1 DEF Running
<1>3. /\ text[s] \in Seq(DOMAIN Symbols) /\ n \in 0..Len(text[s]) /\ raw \in Seq(Byte)
      /\ raw = Rest(text[s], s, n) /\ ~HasLine(Decoded(raw))
  <2>1. /\ n \in 0..Len(text[s]) /\ raw \in Seq(Byte) /\ raw \o <<>> = Rest(text[s], s, n)
        /\ buf[s] = Decoded(raw)
    BY <1>1, <1>2 DEF ReadTo
  <2> QED
    BY <1>1, <2>1, TextIs, ConcatEmptySeq
<1> DEFINE t == text[s]
<1>4. n = Len(t) \/ t[n + 1] = "unended"
  <2> HIDE DEF t
  <2> QED
    BY <1>3, BufferAtEnd DEF t
<1>5. n = Len(text[s]) \/ Stops(text[s], n)
  BY <1>4 DEF Stops
<1>6. ChunksOf(frames[s]) = Due(s)
  BY <1>1, <1>2, <1>5, NothingMore
<1>7. FALSE \in BOOLEAN /\ buf' \in [StreamId -> Seq(Byte)]
  BY <1>1 DEF End, StreamTypes
<1> QED
  BY <1>1, <1>6, <1>7, ReturnKeeps

LEMMA BreakKeeps ==
    ASSUME NEW s \in StreamId, StreamInv(s), Break(s) \/ Refuse(s)
    PROVE  StreamInv(s)'
<1>1. /\ phase[s] # "ended" /\ Return(s, TRUE) /\ TRUE \in BOOLEAN
      /\ text' = text /\ bytes' = bytes /\ buf' \in [StreamId -> Seq(Byte)]
  BY DEF Break, Refuse, StreamInv, StreamTypes
<1> QED
  BY <1>1, ReturnKeeps

LEMMA AcceptKeeps ==
    ASSUME NEW s \in StreamId, StreamInv(s), Accept(s) \/ Pull(s)
    PROVE  StreamInv(s)'
<1>1. /\ StreamTypes /\ Running(s) /\ (verdict[s] # "ok" => frames[s] = <<>>) /\ phase[s] # "ended"
      /\ phase' = [phase EXCEPT ![s] = "pulling"]
      /\ UNCHANGED <<decoder, text, bytes, buf, error, verdict, frames>>
  BY DEF StreamInv, Accept, Pull
<1>2. PICK n, raw : ReadTo(s, n, raw)
  BY <1>1 DEF Running
<1>3. ReadTo(s, n, raw)'
  BY <1>1, <1>2 DEF ReadTo
<1>4. phase' \in [StreamId -> {"fetching", "pulling", "yielded", "ended"}] /\ phase'[s] = "pulling"
  BY <1>1 DEF StreamTypes
<1> QED
  BY <1>1, <1>3, <1>4 DEF StreamInv, StreamTypes, Running

LEMMA ReadKeeps ==
    ASSUME NEW s \in StreamId, StreamInv(s), ReadBytes(s)
    PROVE  StreamInv(s)'
<1>1. /\ StreamTypes /\ Running(s) /\ (verdict[s] # "ok" => frames[s] = <<>>) /\ phase[s] = "pulling"
      /\ text' = text /\ phase' = phase /\ error' = error /\ verdict' = verdict /\ frames' = frames
  BY DEF StreamInv, ReadBytes
<1>2. PICK n, raw : ReadTo(s, n, raw)
  BY <1>1 DEF Running
<1>3. PICK k \in 1..Len(bytes[s]) :
         LET q == decoder \o SubSeq(bytes[s], 1, k) IN
         /\ decoder' = Held(q)
         /\ buf' = [buf EXCEPT ![s] = buf[s] \o Decoded(q)]
         /\ bytes' = [bytes EXCEPT ![s] = SubSeq(bytes[s], k + 1, Len(bytes[s]))]
  BY DEF ReadBytes
<1> DEFINE b == bytes[s]  x == SubSeq(b, 1, k)  y == SubSeq(b, k + 1, Len(b))
<1>4. x \in Seq(Byte) /\ y \in Seq(Byte) /\ x # <<>> /\ b = x \o y /\ b \in Seq(Byte)
  <2>1. b \in Seq(Byte)
    BY <1>1, TextIs
  <2>2. k \in 1..Len(b)
    OBVIOUS
  <2> HIDE DEF b
  <2> QED
    BY <2>1, <2>2, CutBehind DEF x, y
<1>5. /\ raw \in Seq(Byte) /\ raw \o b = Rest(text[s], s, n) /\ buf[s] = Decoded(raw) /\ decoder = Held(raw)
  BY <1>2 DEF ReadTo
<1>6. /\ decoder' = Held(Held(raw) \o x)
      /\ buf' = [buf EXCEPT ![s] = Decoded(raw) \o Decoded(Held(raw) \o x)]
      /\ bytes' = [bytes EXCEPT ![s] = y]
  BY <1>3, <1>5
<1> HIDE DEF b, x, y
<1>7. /\ Decoded(raw \o x) = Decoded(raw) \o Decoded(Held(raw) \o x)
      /\ Held(raw \o x) = Held(Held(raw) \o x)
  BY <1>4, <1>5, DecodedConcat
<1>8. (raw \o x) \o y = Rest(text[s], s, n) /\ raw \o x \in Seq(Byte)
  <2>1. (raw \o x) \o y = raw \o (x \o y)
    <3>1. raw \in Seq(Byte) /\ x \in Seq(Byte) /\ y \in Seq(Byte)
      BY <1>4, <1>5
    <3> QED
      BY ONLY <3>1, Associative, SMTT(30)
  <2>2. raw \o x \in Seq(Byte)
    BY <1>4, <1>5
  <2> QED
    BY <1>4, <1>5, <2>1, <2>2
<1>9. PICK z \in Seq(Byte) :
         /\ z \o y = Rest(text[s], s, n) /\ decoder' = Held(z)
         /\ buf' = [buf EXCEPT ![s] = Decoded(z)] /\ Decoded(z) \in Seq(Byte)
  <2> DEFINE z == raw \o x
  <2>1. /\ z \in Seq(Byte) /\ z \o y = Rest(text[s], s, n) /\ decoder' = Held(z)
        /\ buf' = [buf EXCEPT ![s] = Decoded(z)] /\ Decoded(z) \in Seq(Byte)
    BY <1>6, <1>7, <1>8, DecodedType
  <2> HIDE DEF z
  <2> QED
    BY <2>1
<1>10. /\ bytes' \in [StreamId -> Seq(Byte)] /\ bytes'[s] = y
       /\ buf' \in [StreamId -> Seq(Byte)] /\ buf'[s] = Decoded(z)
  BY <1>1, <1>4, <1>6, <1>9 DEF StreamTypes
<1>11. ReadTo(s, n, z)'
  BY <1>1, <1>2, <1>9, <1>10 DEF ReadTo
<1> QED
  BY <1>1, <1>10, <1>11 DEF StreamInv, StreamTypes, Running

LEMMA InitHolds ==
    ASSUME NEW s \in StreamId, StreamId = {s}, StreamInit
    PROVE  StreamInv(s)
<1>1. /\ text \in [StreamId -> Texts] /\ text[s] \in Texts /\ text[s] \in Seq(DOMAIN Symbols)
      /\ Len(text[s]) \in Nat
  BY TextsAssumption DEF StreamInit
<1>2. 0 \in 0..Len(text[s])
  BY <1>1
<1>3. /\ Rest(text[s], s, 0) \in Seq(Byte) /\ Rest(text[s], s, 0) = Bytes(text[s], s)
      /\ DueUpTo(text[s], s, 0) = <<>>
  BY <1>1, <1>2, RestIs, DueIs
<1>4. /\ decoder = <<>> /\ bytes = [r \in StreamId |-> Bytes(text[r], r)] /\ bytes[s] = Bytes(text[s], s)
      /\ buf = [r \in StreamId |-> <<>>] /\ buf[s] = <<>>
      /\ phase = [r \in StreamId |-> "fetching"] /\ phase[s] = "fetching"
      /\ error = [r \in StreamId |-> FALSE] /\ error[s] = FALSE
      /\ verdict = [r \in StreamId |-> "none"] /\ verdict[s] = "none"
      /\ frames = [r \in StreamId |-> <<>>] /\ frames[s] = <<>>
  BY DEF StreamInit
<1>5. <<>> \in Seq(Byte) /\ <<>> \in Seq(Seq(Byte))
  OBVIOUS
<1>6. bytes \in [StreamId -> Seq(Byte)]
  BY <1>3, <1>4
<1>7. StreamTypes
  BY <1>1, <1>4, <1>5, <1>6 DEF StreamTypes
<1>8. Readable(text[s], 0)
  BY DEF Readable
<1>9. <<>> \o bytes[s] = Rest(text[s], s, 0)
  BY <1>3, <1>4, ConcatEmptySeq
<1>10. ChunksOf(<<>>) = <<>>
  <2>1. <<>> \in Seq(Byte) /\ <<>> \in Seq(Seq(Byte))
    BY <1>5
  <2> QED
    BY <2>1, ChunksAppend
<1>11. ReadTo(s, 0, <<>>)
  BY <1>2, <1>3, <1>4, <1>5, <1>8, <1>9, <1>10, DecodedNone DEF ReadTo
<1>12. Running(s)
  BY <1>4, <1>11 DEF Running
<1> QED
  BY <1>4, <1>7, <1>12 DEF StreamInv

LEMMA InvStep ==
    ASSUME NEW s \in StreamId, StreamId = {s}, StreamInv(s), [StreamNext]_streamVars
    PROVE  StreamInv(s)'
<1>1. CASE UNCHANGED streamVars
  <2>1. /\ text' = text /\ bytes' = bytes /\ buf' = buf /\ phase' = phase /\ error' = error
        /\ verdict' = verdict /\ frames' = frames /\ decoder' = decoder
    BY <1>1 DEF streamVars
  <2>2. Due(s)' = Due(s)
    BY <2>1, DueStable
  <2>3. (\E n, raw : ReadTo(s, n, raw)) => (\E n, raw : ReadTo(s, n, raw))'
    BY <2>1 DEF ReadTo
  <2> QED
    BY <2>1, <2>2, <2>3 DEF StreamInv, StreamTypes, Running, Over
<1>2. CASE StreamNext
  <2>1. StreamStep(s)
    BY <1>2 DEF StreamNext
  <2>2. CASE Skip(s)
    BY <2>2, SkipKeeps
  <2>3. CASE Finish(s) \/ Corrupt(s)
    BY <2>3, FinishKeeps
  <2>4. CASE Yield(s)
    BY <2>4, YieldKeeps
  <2>5. CASE End(s)
    BY <2>5, EndKeeps
  <2>6. CASE Break(s) \/ Refuse(s)
    BY <2>6, BreakKeeps
  <2>7. CASE Accept(s) \/ Pull(s)
    BY <2>7, AcceptKeeps
  <2>8. CASE ReadBytes(s)
    BY <2>8, ReadKeeps
  <2> QED
    BY <2>1, <2>2, <2>3, <2>4, <2>5, <2>6, <2>7, <2>8 DEF StreamStep
<1> QED
  BY <1>1, <1>2

LEMMA InvMeans ==
    ASSUME NEW s \in StreamId, StreamId = {s}, StreamInv(s)
    PROVE  StreamsWhole
<1>1. Chunks(s) = ChunksOf(frames[s])
  BY DEF Chunks, ChunksOf
<1>2. IsPrefix(Chunks(s), Due(s)) /\ (phase[s] = "ended" /\ ~error[s] => Chunks(s) = Due(s))
  <2>1. CASE phase[s] = "ended"
    BY <1>1, <2>1 DEF StreamInv, Over
  <2>2. CASE phase[s] # "ended"
    <3>1. StreamTypes /\ \E n, raw : ReadTo(s, n, raw)
      BY <2>2 DEF StreamInv, Running
    <3> QED
      BY <1>1, <2>2, <3>1, ToldSoFar
  <2> QED
    BY <2>1, <2>2
<1>3. verdict[s] = "failed" => frames[s] = <<>>
  BY DEF StreamInv
<1> QED
  BY <1>2, <1>3 DEF StreamsWhole, NeverTorn

(* However the bytes of a stream that the process reads alone are cut, its *)
(* client gets a beginning of what its upstream sent, chunk by chunk and   *)
(* none of them torn; all of it, when the stream ends as it was meant to;  *)
(* and nothing, when the request goes on to its next candidate             *)
(* (openai-compat.ts, stream; executor.ts, peekFirst).                     *)
THEOREM StreamsAreWhole == (\E s \in StreamId : StreamId = {s}) /\ StreamSpec => []StreamsWhole
<1> SUFFICES ASSUME \E s \in StreamId : StreamId = {s} PROVE StreamSpec => []StreamsWhole
  OBVIOUS
<1>1. PICK s \in StreamId : StreamId = {s}
  OBVIOUS
<1>2. StreamInit => StreamInv(s)
  BY <1>1, InitHolds
<1>3. StreamInv(s) /\ [StreamNext]_streamVars => StreamInv(s)'
  BY <1>1, InvStep
<1>4. StreamInv(s) => StreamsWhole
  BY <1>1, InvMeans
<1> QED
  BY <1>2, <1>3, <1>4, PTL DEF StreamSpec
=============================================================================
