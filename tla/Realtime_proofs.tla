--------------------------- MODULE Realtime_proofs ---------------------------
(* Theorems about two of the modules that MCRealtime composes, for any       *)
(* number of tokens and deliveries: access tokens and idempotent sending.    *)
EXTENDS AccessTokens, WsIdempotency, FiniteSetTheorems, TLAPS

-----------------------------------------------------------------------------
(* Access tokens *)

TokenTypeOK ==
    /\ clock \in 1..MaxTime
    /\ iat \in [Tokens -> 1..Never]
    /\ jtis \in [Tokens -> Nat]
    /\ cutoff \in [at : Nat, until : Nat]
    /\ logout \subseteq Tokens
    /\ stamp \in [Tokens -> Nat]
    /\ dead \subseteq Tokens

\* No token is from the future, and no cutoff stored or to be stored is either.
Past ==
    /\ \A t \in Tokens : Issued(t) => iat[t] <= clock
    /\ \A t \in Tokens : stamp[t] <= clock

\* A revocation by id lasts as long as the token would have.
Lasting(t) == jtis[t] = 0 \/ jtis[t] >= iat[t] + TokenTtl

\* What keeps a token from being accepted does so for the rest of its life:
\* its own key, the cutoff's key, or its age.
Covered(t) ==
    \/ jtis[t] # 0
    \/ clock >= iat[t] + TokenTtl
    \/ iat[t] <= cutoff.at /\ cutoff.until >= iat[t] + TokenTtl

TokenInv ==
    /\ TokenTypeOK
    /\ Past
    /\ \A t \in Tokens : ~Issued(t) => jtis[t] = 0
    /\ \A t \in Tokens : Lasting(t)
    /\ \A t \in dead : Issued(t) /\ (t \notin overtaken => Covered(t))

\* Initially no token was issued or logged out.
LEMMA TokenInitInv == TokenInit => TokenInv
  BY TokensAssumption
     DEF TokenInit, TokenInv, TokenTypeOK, Past, Lasting, Never, Issued, NoCutoff

\* A revocation by id lasts as long as the token would have.
LEMMA RevokedCovers ==
  ASSUME TokenInv, NEW t \in Tokens, Issued(t), RevokeJti(t)
  PROVE  /\ jtis' \in [Tokens -> Nat]
         /\ jtis'[t] # 0 /\ jtis'[t] >= iat[t] + TokenTtl
         /\ \A u \in Tokens \ {t} : jtis'[u] = jtis[u]
<1>1. iat[t] \in Nat /\ clock \in Nat /\ TokenTtl \in Nat
  BY TokensAssumption DEF TokenInv, TokenTypeOK, Never
<1>2. JtiTtl(t) \in Nat \ {0} /\ clock + JtiTtl(t) >= iat[t] + TokenTtl
  BY <1>1 DEF JtiTtl
<1> QED BY <1>1, <1>2 DEF RevokeJti, TokenInv, TokenTypeOK

\* A cutoff that is stored covers what it is about, and leaves to overtaken
\* what only a younger one covered.
LEMMA StoredCovers ==
  ASSUME TokenInv, NEW t \in Tokens, StoreCutoff(t), UNCHANGED <<clock, iat, jtis>>
  PROVE  /\ cutoff' \in [at : Nat, until : Nat]
         /\ \A u \in UpTo(stamp[t]) : u \in Tokens /\ Issued(u) /\ Covered(u)'
         /\ \A u \in dead : u \notin overtaken' => Covered(u)'
<1>1. /\ TokenTtl \in Nat /\ CutoffTtl \in Nat /\ MaxTime \in Nat /\ CutoffTtl >= TokenTtl
      /\ clock \in Nat /\ clock <= MaxTime /\ stamp[t] \in Nat /\ stamp[t] <= clock
      /\ \A u \in Tokens : iat[u] \in Nat /\ jtis[u] \in Nat
  BY TokensAssumption DEF TokenInv, TokenTypeOK, Past, Never
<1>2. cutoff'.at = stamp[t] /\ cutoff'.until = clock + CutoffTtl
      /\ cutoff' \in [at : Nat, until : Nat]
  BY <1>1 DEF StoreCutoff
<1>3. \A u \in UpTo(stamp[t]) : u \in Tokens /\ Issued(u) /\ Covered(u)'
  BY <1>1, <1>2 DEF UpTo, Issued, Never, Covered
<1>4. ASSUME NEW u \in dead, u \notin overtaken', u \notin UpTo(stamp[t]) PROVE Covered(u)'
  <2>1. u \in Tokens /\ jtis[u] # 0
    BY <1>4 DEF StoreCutoff, TokenInv, TokenTypeOK
  <2> QED BY <2>1 DEF Covered
<1> QED BY <1>2, <1>3, <1>4

\* Issuing, logging out, both keys lapsing and the clock keep every logged-
\* out token covered that was not overtaken.
LEMMA TokenStepInv == TokenInv /\ [TokenNext]_tokenVars => TokenInv'
<1> SUFFICES ASSUME TokenInv, [TokenNext]_tokenVars PROVE TokenInv'
  OBVIOUS
<1>0. /\ TokenTtl \in Nat /\ CutoffTtl \in Nat /\ MaxTime \in Nat /\ CutoffTtl >= TokenTtl
      /\ clock \in Nat /\ \A t \in Tokens : iat[t] \in Nat /\ jtis[t] \in Nat
  BY TokensAssumption DEF TokenInv, TokenTypeOK, Never
<1> USE DEF TokenInv, TokenTypeOK, Past, Lasting, Covered, Issued, Never
<1>1. CASE Tick
  BY <1>0, <1>1 DEF Tick
<1>2. CASE UNCHANGED tokenVars
  BY <1>2 DEF tokenVars
<1>3. ASSUME NEW t \in Tokens, Issue(t) PROVE TokenInv'
  <2>1. t \notin dead
    BY <1>3 DEF Issue
  <2>2. iat'[t] = clock /\ iat' \in [Tokens -> 1..Never]
    BY <1>0, <1>3 DEF Issue
  <2>3. \A u \in Tokens \ {t} : iat'[u] = iat[u]
    BY <1>3 DEF Issue
  <2> QED BY <1>0, <1>3, <2>1, <2>2, <2>3 DEF Issue
<1>4. ASSUME NEW t \in Tokens, LogoutToken(t) PROVE TokenInv'
  <2>1. Issued(t) /\ RevokeJti(t)
    BY <1>4 DEF LogoutToken, Accepted
  <2> QED BY <1>0, <1>4, <2>1, RevokedCovers DEF LogoutToken
<1>5. ASSUME NEW t \in Tokens, LogoutAllToken(t) PROVE TokenInv'
  <2>1. Issued(t) /\ RevokeJti(t)
    BY <1>5 DEF LogoutAllToken, Accepted
  <2> QED BY <1>0, <1>5, <2>1, RevokedCovers DEF LogoutAllToken
<1>6. ASSUME NEW t \in Tokens, StampCutoff(t) PROVE TokenInv'
  BY <1>0, <1>6 DEF StampCutoff
<1>7. ASSUME NEW t \in Tokens, SetCutoff(t) PROVE TokenInv'
  <2>1. StoreCutoff(t) /\ UNCHANGED <<clock, iat, jtis>>
    BY <1>7 DEF SetCutoff
  <2>2. /\ cutoff' \in [at : Nat, until : Nat]
        /\ \A u \in UpTo(stamp[t]) : u \in Tokens /\ Issued(u) /\ Covered(u)'
        /\ \A u \in dead : u \notin overtaken' => Covered(u)'
    BY <2>1, StoredCovers
  <2> HIDE DEF Covered
  <2> QED BY <1>0, <1>7, <2>1, <2>2 DEF SetCutoff
<1>8. ASSUME NEW t \in Tokens, SetCutoffFails(t) PROVE TokenInv'
  <2>1. CASE StoreCutoff(t)
    <3>1. cutoff' \in [at : Nat, until : Nat] /\ \A u \in dead : u \notin overtaken' => Covered(u)'
      BY <1>8, <2>1, StoredCovers DEF SetCutoffFails
    <3> HIDE DEF Covered
    <3> QED BY <1>0, <1>8, <3>1 DEF SetCutoffFails
  <2>2. CASE UNCHANGED <<cutoff, overtaken>>
    BY <1>0, <1>8, <2>2 DEF SetCutoffFails
  <2> QED BY <1>8, <2>1, <2>2 DEF SetCutoffFails
<1> QED BY <1>1, <1>2, <1>3, <1>4, <1>5, <1>6, <1>7, <1>8 DEF TokenNext

\* For any number of tokens and overlapping logouts, and any lifetimes with
\* CutoffTtl >= TokenTtl, what a completed logout was about is never accepted
\* again, unless an older cutoff replaced the one that revoked it.
THEOREM LoggedOut == TokenSpec => []LoggedOutIsRefused
<1>1. TokenInv => LoggedOutIsRefused
  <2> SUFFICES ASSUME TokenInv, NEW t \in dead \ overtaken PROVE ~Accepted(t)
    BY DEF LoggedOutIsRefused
  <2>1. t \in Tokens /\ Covered(t) /\ Lasting(t)
    BY DEF TokenInv, TokenTypeOK
  <2>2. /\ TokenTtl \in Nat /\ clock \in Nat /\ iat[t] \in Nat /\ jtis[t] \in Nat
        /\ cutoff.at \in Nat /\ cutoff.until \in Nat
    BY <2>1, TokensAssumption DEF TokenInv, TokenTypeOK, Never
  <2> QED BY <2>1, <2>2 DEF Covered, Lasting, Accepted, BeforeCutoff
<1> QED BY <1>1, TokenInitInv, TokenStepInv, PTL DEF TokenSpec

-----------------------------------------------------------------------------
(* Idempotent sending *)

\* Deliveries that may still send though they do not hold the lock, or that
\* have found the key empty.
Senders == {d \in Deliveries : DPc(d) = "send" \/ (DPc(d) = "lookup" /\ keyLock # d)}

\* The one message the key is for is still to be sent: nothing is stored, and
\* the holder of the lock, if any, is not the one sending it.
KeyOpen == stored = 0 /\ (keyLock = Unlocked \/ DPc(keyLock) \notin {"send", "store"})
Credit == IF KeyOpen THEN 1 ELSE 0

\* Each message sent, each delivery about to send and the key itself, as long
\* as it is open, are paid for by the first message or by a mishap.
SendInv ==
    /\ SendTypeOK
    /\ \A d \in Deliveries : DPc(d) = "store" => delivery[d].id >= 1
    /\ IsFiniteSet(Senders)
    /\ sent + Cardinality(Senders) + Credit <= 1 + mishaps

\* How one delivery that starts or stops sending changes the number of senders.
LEMMA OneMore ==
  ASSUME NEW S, IsFiniteSet(S), NEW d, NEW T, T \subseteq S \cup {d}
  PROVE  /\ IsFiniteSet(T) /\ Cardinality(T) \in Nat /\ Cardinality(S) \in Nat
         /\ Cardinality(T) <= Cardinality(S) + 1
<1>0. Cardinality(S) \in Nat
  BY FS_CardinalityType
<1>1. IsFiniteSet(S \cup {d}) /\ Cardinality(S \cup {d}) <= Cardinality(S) + 1
  BY <1>0, FS_AddElement
<1> QED BY <1>0, <1>1, FS_Subset, FS_CardinalityType

\* A step that adds no sender does not raise their number.
LEMMA NoMore ==
  ASSUME NEW S, IsFiniteSet(S), NEW T, T \subseteq S
  PROVE  /\ IsFiniteSet(T) /\ Cardinality(T) \in Nat /\ Cardinality(S) \in Nat
         /\ Cardinality(T) <= Cardinality(S)
  BY FS_Subset, FS_CardinalityType

\* A sender that stops being one lowers their number by one.
LEMMA OneLess ==
  ASSUME NEW S, IsFiniteSet(S), NEW d \in S, NEW T, T \subseteq S \ {d}
  PROVE  /\ IsFiniteSet(T) /\ Cardinality(T) \in Nat /\ Cardinality(S) \in Nat
         /\ Cardinality(T) <= Cardinality(S) - 1
<1>1. IsFiniteSet(S \ {d}) /\ Cardinality(S \ {d}) = Cardinality(S) - 1
  BY FS_RemoveElement
<1> QED BY <1>1, FS_Subset, FS_CardinalityType

\* Before any delivery nothing was sent and nobody is about to send.
LEMMA SendInitInv == SendInit => SendInv
<1> SUFFICES ASSUME SendInit PROVE SendInv
  OBVIOUS
<1>1. SendTypeOK
  BY DeliveriesAssumption DEF SendInit, SendTypeOK, Ready, DeliveryAt
<1>2. Senders = {}
  BY DEF SendInit, Senders, DPc, Ready, DeliveryAt
<1>3. IsFiniteSet(Senders) /\ Cardinality(Senders) = 0
  BY <1>2, FS_EmptySet
<1>4. \A d \in Deliveries : DPc(d) # "store"
  BY DEF SendInit, DPc, Ready, DeliveryAt
<1>5. Credit \in {0, 1} /\ sent = 0 /\ mishaps = 0
  BY DEF Credit, SendInit
<1> QED BY <1>1, <1>3, <1>4, <1>5 DEF SendInv

\* Each action on its own: types, the id under a "store", and the balance.
LEMMA SendStepInv == SendInv /\ [SendNext]_sendVars => SendInv'
<1> SUFFICES ASSUME SendInv, [SendNext]_sendVars PROVE SendInv'
  OBVIOUS
<1> DEFINE Ids == \A d \in Deliveries : DPc(d) = "store" => delivery[d].id >= 1
<1>0. /\ SendTypeOK /\ Ids /\ IsFiniteSet(Senders) /\ Cardinality(Senders) \in Nat
      /\ sent + Cardinality(Senders) + Credit <= 1 + mishaps
      /\ sent \in Nat /\ mishaps \in Nat /\ MaxSent \in Nat /\ MaxMishaps \in Nat
      /\ Unlocked \notin Deliveries
  BY DeliveriesAssumption, FS_CardinalityType DEF SendInv, SendTypeOK
<1>c. Credit \in {0, 1} /\ Credit' \in {0, 1}
  BY DEF Credit
<1> DEFINE Safe == SendTypeOK' /\ Ids'
<1>1. ASSUME NEW d \in Deliveries, Acquire(d) PROVE SendInv'
  <2>1. Safe /\ Senders' \subseteq Senders /\ Credit' = Credit
    BY <1>0, <1>1 DEF Acquire, Move, DeliveryAt, DPc, SendTypeOK, Senders, Credit, KeyOpen
  <2>2. IsFiniteSet(Senders)' /\ Cardinality(Senders)' \in Nat
        /\ Cardinality(Senders)' <= Cardinality(Senders)
    BY <1>0, <2>1, NoMore
  <2> QED BY <1>0, <1>c, <1>1, <2>1, <2>2 DEF Acquire, SendInv
<1>2. ASSUME NEW d \in Deliveries, Bypass(d) PROVE SendInv'
  <2>1. Safe /\ Senders' \subseteq Senders \cup {d} /\ Credit' = Credit
    BY <1>0, <1>2 DEF Bypass, Mishap, Move, DeliveryAt, DPc, SendTypeOK, Senders, Credit, KeyOpen
  <2>2. IsFiniteSet(Senders)' /\ Cardinality(Senders)' \in Nat
        /\ Cardinality(Senders)' <= Cardinality(Senders) + 1
    BY <1>0, <2>1, OneMore
  <2> QED BY <1>0, <1>c, <1>2, <2>1, <2>2 DEF Bypass, Mishap, SendInv
<1>3. ASSUME NEW d \in Deliveries, Lookup(d) PROVE SendInv'
  <2>1. Safe
    BY <1>0, <1>3 DEF Lookup, Move, DeliveryAt, DPc, SendTypeOK
  <2>2. CASE keyLock = d /\ stored = 0
    <3>1. Senders' \subseteq Senders \cup {d} /\ Credit = 1 /\ Credit' = 0
      BY <1>0, <1>3, <2>2 DEF Lookup, Move, DeliveryAt, DPc, SendTypeOK, Senders, Credit, KeyOpen
    <3>2. IsFiniteSet(Senders)' /\ Cardinality(Senders)' \in Nat
          /\ Cardinality(Senders)' <= Cardinality(Senders) + 1
      BY <1>0, <3>1, OneMore
    <3> QED BY <1>0, <1>3, <2>1, <3>1, <3>2 DEF Lookup, SendInv
  <2>3. CASE ~(keyLock = d /\ stored = 0)
    <3>1. Senders' \subseteq Senders /\ Credit' = Credit
      BY <1>0, <1>3, <2>3 DEF Lookup, Move, DeliveryAt, DPc, SendTypeOK, Senders, Credit, KeyOpen
    <3>2. IsFiniteSet(Senders)' /\ Cardinality(Senders)' \in Nat
          /\ Cardinality(Senders)' <= Cardinality(Senders)
      BY <1>0, <3>1, NoMore
    <3> QED BY <1>0, <1>c, <1>3, <2>1, <3>1, <3>2 DEF Lookup, SendInv
  <2> QED BY <2>2, <2>3
<1>4. ASSUME NEW d \in Deliveries, LookupFails(d) PROVE SendInv'
  <2>1. Safe /\ Senders' \subseteq Senders \cup {d} /\ Credit' <= Credit
    BY <1>0, <1>4 DEF LookupFails, Mishap, Move, DeliveryAt, DPc, SendTypeOK, Senders, Credit, KeyOpen
  <2>2. IsFiniteSet(Senders)' /\ Cardinality(Senders)' \in Nat
        /\ Cardinality(Senders)' <= Cardinality(Senders) + 1
    BY <1>0, <2>1, OneMore
  <2> QED BY <1>0, <1>c, <1>4, <2>1, <2>2 DEF LookupFails, Mishap, SendInv
<1>5. ASSUME NEW d \in Deliveries, SendMessage(d) PROVE SendInv'
  <2>1. Safe /\ d \in Senders /\ Senders' \subseteq Senders \ {d} /\ Credit' = Credit
    BY <1>0, <1>5 DEF SendMessage, Move, DeliveryAt, DPc, SendTypeOK, Senders, Credit, KeyOpen
  <2>2. IsFiniteSet(Senders)' /\ Cardinality(Senders)' \in Nat
        /\ Cardinality(Senders)' <= Cardinality(Senders) - 1
    BY <1>0, <2>1, OneLess
  <2> QED BY <1>0, <1>c, <1>5, <2>1, <2>2 DEF SendMessage, SendInv
<1>6. ASSUME NEW d \in Deliveries, SendRaises(d) PROVE SendInv'
  <2>1. Safe /\ d \in Senders /\ Senders' \subseteq Senders \ {d}
    BY <1>0, <1>6 DEF SendRaises, Move, DeliveryAt, DPc, SendTypeOK, Senders
  <2>2. IsFiniteSet(Senders)' /\ Cardinality(Senders)' \in Nat
        /\ Cardinality(Senders)' <= Cardinality(Senders) - 1
    BY <1>0, <2>1, OneLess
  <2> QED BY <1>0, <1>c, <1>6, <2>1, <2>2 DEF SendRaises, SendInv
<1>7. ASSUME NEW d \in Deliveries, Store(d) PROVE SendInv'
  <2>1. Safe /\ Senders' \subseteq Senders /\ Credit' = 0
    BY <1>0, <1>7 DEF Store, Move, DeliveryAt, DPc, SendTypeOK, Senders, Credit, KeyOpen
  <2>2. IsFiniteSet(Senders)' /\ Cardinality(Senders)' \in Nat
        /\ Cardinality(Senders)' <= Cardinality(Senders)
    BY <1>0, <2>1, NoMore
  <2> QED BY <1>0, <1>c, <1>7, <2>1, <2>2 DEF Store, SendInv
<1>8. ASSUME NEW d \in Deliveries, StoreFails(d) PROVE SendInv'
  <2>1. Safe /\ Senders' \subseteq Senders
    BY <1>0, <1>8 DEF StoreFails, Mishap, Move, DeliveryAt, DPc, SendTypeOK, Senders
  <2>2. IsFiniteSet(Senders)' /\ Cardinality(Senders)' \in Nat
        /\ Cardinality(Senders)' <= Cardinality(Senders)
    BY <1>0, <2>1, NoMore
  <2> QED BY <1>0, <1>c, <1>8, <2>1, <2>2 DEF StoreFails, Mishap, SendInv
<1>9. ASSUME NEW d \in Deliveries, ReleaseKey(d) PROVE SendInv'
  <2>1. Safe /\ Senders' \subseteq Senders /\ Credit' = Credit
    BY <1>0, <1>9 DEF ReleaseKey, Ready, Move, DeliveryAt, DPc, SendTypeOK, Senders, Credit, KeyOpen
  <2>2. IsFiniteSet(Senders)' /\ Cardinality(Senders)' \in Nat
        /\ Cardinality(Senders)' <= Cardinality(Senders)
    BY <1>0, <2>1, NoMore
  <2> QED BY <1>0, <1>c, <1>9, <2>1, <2>2 DEF ReleaseKey, SendInv
<1>10. ASSUME NEW d \in Deliveries, Die(d) PROVE SendInv'
  <2>1. Safe
    BY <1>0, <1>10 DEF Die, Mishap, Ready, Move, DeliveryAt, DPc, SendTypeOK
  <2>2. CASE DPc(d) = "send"
    <3>1. d \in Senders /\ Senders' \subseteq Senders \ {d}
      BY <1>0, <1>10, <2>2 DEF Die, Ready, Move, DeliveryAt, DPc, SendTypeOK, Senders
    <3>2. IsFiniteSet(Senders)' /\ Cardinality(Senders)' \in Nat
          /\ Cardinality(Senders)' <= Cardinality(Senders) - 1
      BY <1>0, <3>1, OneLess
    <3> QED BY <1>0, <1>c, <1>10, <2>1, <2>2, <3>1, <3>2 DEF Die, SendInv
  <2>3. CASE DPc(d) = "store"
    <3>1. Senders' \subseteq Senders
      BY <1>0, <1>10, <2>3 DEF Die, Ready, Move, DeliveryAt, DPc, SendTypeOK, Senders
    <3>2. IsFiniteSet(Senders)' /\ Cardinality(Senders)' \in Nat
          /\ Cardinality(Senders)' <= Cardinality(Senders)
      BY <1>0, <3>1, NoMore
    <3> QED BY <1>0, <1>c, <1>10, <2>1, <2>3, <3>1, <3>2 DEF Die, Mishap, SendInv
  <2>4. CASE DPc(d) \notin {"send", "store"}
    <3>1. Senders' \subseteq Senders /\ Credit' = Credit
      BY <1>0, <1>10, <2>4 DEF Die, Ready, Move, DeliveryAt, DPc, SendTypeOK, Senders, Credit, KeyOpen
    <3>2. IsFiniteSet(Senders)' /\ Cardinality(Senders)' \in Nat
          /\ Cardinality(Senders)' <= Cardinality(Senders)
      BY <1>0, <3>1, NoMore
    <3> QED BY <1>0, <1>c, <1>10, <2>1, <2>4, <3>1, <3>2 DEF Die, SendInv
  <2> QED BY <2>2, <2>3, <2>4
<1>11. CASE KeyLockExpires
  <2>1. Safe
    BY <1>0, <1>11 DEF KeyLockExpires, Mishap, DPc, SendTypeOK
  <2>2. CASE DPc(keyLock) = "lookup"
    <3>1. Senders' \subseteq Senders \cup {keyLock} /\ Credit' = Credit
      BY <1>0, <1>11, <2>2 DEF KeyLockExpires, DPc, SendTypeOK, Senders, Credit, KeyOpen
    <3>2. IsFiniteSet(Senders)' /\ Cardinality(Senders)' \in Nat
          /\ Cardinality(Senders)' <= Cardinality(Senders) + 1
      BY <1>0, <3>1, OneMore
    <3> QED BY <1>0, <1>c, <1>11, <2>1, <2>2, <3>1, <3>2 DEF KeyLockExpires, Mishap, SendInv
  <2>3. CASE DPc(keyLock) # "lookup"
    <3>1. Senders' \subseteq Senders
      BY <1>0, <1>11, <2>3 DEF KeyLockExpires, DPc, SendTypeOK, Senders
    <3>2. DPc(keyLock) = "free" => Credit' = Credit
      BY <1>0, <1>11, <2>3 DEF KeyLockExpires, DPc, SendTypeOK, Credit, KeyOpen
    <3>3. IsFiniteSet(Senders)' /\ Cardinality(Senders)' \in Nat
          /\ Cardinality(Senders)' <= Cardinality(Senders)
      BY <1>0, <3>1, NoMore
    <3> QED BY <1>0, <1>c, <1>11, <2>1, <3>1, <3>2, <3>3 DEF KeyLockExpires, Mishap, SendInv
  <2> QED BY <2>2, <2>3
<1>12. CASE StoredExpires
  <2>1. Safe /\ Senders' \subseteq Senders
    BY <1>0, <1>12 DEF StoredExpires, Mishap, DPc, SendTypeOK, Senders
  <2>2. IsFiniteSet(Senders)' /\ Cardinality(Senders)' \in Nat
        /\ Cardinality(Senders)' <= Cardinality(Senders)
    BY <1>0, <2>1, NoMore
  <2> QED BY <1>0, <1>c, <1>12, <2>1, <2>2 DEF StoredExpires, Mishap, SendInv
<1>13. CASE UNCHANGED sendVars
  BY <1>0, <1>13 DEF sendVars, SendInv, SendTypeOK, Senders, Credit, KeyOpen, DPc
<1> QED BY <1>1, <1>2, <1>3, <1>4, <1>5, <1>6, <1>7, <1>8, <1>9, <1>10, <1>11, <1>12, <1>13
        DEF SendNext, Handle

\* Any number of deliveries of the same event, with any failures in between:
\* one message, and at most one more for each failure.
THEOREM Duplicates == SendSpec => []DuplicatesAreMishaps
<1>1. SendInv => DuplicatesAreMishaps
  <2> SUFFICES ASSUME SendInv PROVE sent <= 1 + mishaps
    BY DEF DuplicatesAreMishaps
  <2>1. Cardinality(Senders) \in Nat /\ sent \in Nat /\ mishaps \in Nat
    BY FS_CardinalityType DEF SendInv, SendTypeOK
  <2>2. Credit \in {0, 1}
    BY DEF Credit
  <2> QED BY <2>1, <2>2 DEF SendInv
<1> QED BY <1>1, SendInitInv, SendStepInv, PTL DEF SendSpec

\* Deliveries, lock and key stay in their types.
THEOREM SendTypes == SendSpec => []SendTypeOK
<1>1. SendInv => SendTypeOK
  BY DEF SendInv
<1> QED BY <1>1, SendInitInv, SendStepInv, PTL DEF SendSpec
=============================================================================
