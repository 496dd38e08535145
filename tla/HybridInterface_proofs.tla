----------------------- MODULE HybridInterface_proofs ------------------------
(***************************************************************************)
(* The two halves of HybridInterface.h, proved for any number of           *)
(* recipients, links and proxies: the death links of an H2BConverter, and  *)
(* the tokens of HpInterface objects.                                      *)
(***************************************************************************)
EXTENDS H2BConverter, HpInterface, SequenceTheorems, TLAPS

(***************************************************************************)
(* Part 1: death links.                                                    *)
(***************************************************************************)
Obituaries == [id : Ids, recipient : Recipients, cookie : Cookies, flags : Flags]

ObituaryTypeOK ==
    /\ mObituaries \in Seq(Obituaries)
    /\ calls \in 0..MaxLinks
    /\ halAlive \in BOOLEAN
    /\ accepted \in [Ids -> Recipients \union {NoRecipient}]
    /\ links \subseteq Ids /\ notices \subseteq Ids

(* Obituaries are numbered by the calls that made them.                    *)
IdsDistinct ==
    /\ \A i \in DOMAIN mObituaries : mObituaries[i].id <= calls
    /\ \A i, j \in DOMAIN mObituaries : mObituaries[i].id = mObituaries[j].id => i = j

(* The links that were accepted are those of calls made, and belong to the *)
(* recipient in the obituary.                                              *)
AcceptedIsListed ==
    /\ \A id \in Ids : accepted[id] # NoRecipient => id <= calls
    /\ \A i \in DOMAIN mObituaries :
          accepted[mObituaries[i].id] # NoRecipient =>
              mObituaries[i].recipient = accepted[mObituaries[i].id]

(***************************************************************************)
(* What DeathIsTold rests on: a recipient whose linkToDeath() returned     *)
(* NO_ERROR is linked while the HAL lives.  After the death its obituary   *)
(* is held and the notice is on its way, or the recipient was told, unless *)
(* it has been unlinked or destroyed.                                      *)
(***************************************************************************)
DeathNotLost ==
    \A id \in Ids : accepted[id] # NoRecipient =>
        \/ id \in withdrawn
        \/ id \in Listed /\ IF halAlive THEN id \in links ELSE id \in notices
        \/ ~halAlive /\ (id \in told \/ accepted[id] \notin live)

ObituaryInv ==
    /\ ObituaryTypeOK
    /\ IdsDistinct
    /\ AcceptedIsListed
    /\ LinkedIffListed
    /\ DeathNotLost

-----------------------------------------------------------------------------
(* The obituaries after the erasure of one.                                *)
LEMMA EraseSequence ==
    ASSUME mObituaries \in Seq(Obituaries), NEW i \in DOMAIN mObituaries
    PROVE  /\ Erase(i) \in Seq(Obituaries)
           /\ Len(Erase(i)) = Len(mObituaries) - 1
           /\ \A j \in DOMAIN Erase(i) :
                 Erase(i)[j] = IF j < i THEN mObituaries[j] ELSE mObituaries[j + 1]
<1> DEFINE front == SubSeq(mObituaries, 1, i - 1)
           back == SubSeq(mObituaries, i + 1, Len(mObituaries))
<1>0. i \in Nat /\ 1 <= i /\ i <= Len(mObituaries) /\ Len(mObituaries) \in Nat
  OBVIOUS
<1>1. /\ front \in Seq(Obituaries) /\ Len(front) = i - 1
      /\ \A j \in 1..(i - 1) : front[j] = mObituaries[j]
  BY <1>0
<1>2. /\ back \in Seq(Obituaries) /\ Len(back) = Len(mObituaries) - i
      /\ \A j \in 1..(Len(mObituaries) - i) : back[j] = mObituaries[i + j]
  BY <1>0
<1> HIDE DEF front, back
<1>3. Erase(i) = front \o back
  BY DEF Erase, front, back
<1>4. Erase(i) \in Seq(Obituaries) /\ Len(Erase(i)) = Len(front) + Len(back)
  <2>1. front \in Seq(Obituaries) /\ back \in Seq(Obituaries)
    BY <1>1, <1>2
  <2>2. front \o back \in Seq(Obituaries) /\ Len(front \o back) = Len(front) + Len(back)
    BY <2>1, ConcatProperties, Zenon
  <2> QED BY <2>2, <1>3
<1>5. Len(Erase(i)) = Len(mObituaries) - 1 /\ DOMAIN Erase(i) = 1..Len(Erase(i))
  BY <1>0, <1>1, <1>2, <1>4
<1>6. ASSUME NEW j \in DOMAIN Erase(i)
      PROVE  Erase(i)[j] = IF j < i THEN mObituaries[j] ELSE mObituaries[j + 1]
  <2>0. j \in Nat /\ 1 <= j /\ j <= Len(mObituaries) - 1 /\ j \in 1..(Len(front) + Len(back))
    BY <1>0, <1>4, <1>5
  <2>1. (front \o back)[j] = IF j <= Len(front) THEN front[j] ELSE back[j - Len(front)]
    <3>1. front \in Seq(Obituaries) /\ back \in Seq(Obituaries) /\ j \in 1..(Len(front) + Len(back))
      BY <2>0, <1>1, <1>2
    <3> QED BY <3>1, ConcatProperties, Zenon
  <2>2. CASE j < i
    <3>1. j \in 1..(i - 1) /\ j <= Len(front)
      BY <2>0, <2>2, <1>0, <1>1
    <3> QED BY <3>1, <2>1, <2>2, <1>1, <1>3
  <2>3. CASE ~(j < i)
    <3>1. /\ ~(j <= Len(front)) /\ j - Len(front) \in 1..(Len(mObituaries) - i)
          /\ i + (j - Len(front)) = j + 1
      <4> DEFINE n == Len(mObituaries)
                 f == Len(front)
      <4>1. f = i - 1 /\ n \in Nat /\ i <= n /\ j <= n - 1
        BY <2>0, <1>0, <1>1
      <4> HIDE DEF n, f
      <4>2. ~(j <= f) /\ j - f \in 1..(n - i) /\ i + (j - f) = j + 1
        BY <4>1, <2>0, <2>3, <1>0
      <4> QED BY <4>2 DEF n, f
    <3>2. back[j - Len(front)] = mObituaries[i + (j - Len(front))]
      BY <3>1, <1>2
    <3> QED BY <3>1, <3>2, <2>1, <2>3, <1>3
  <2> QED BY <2>2, <2>3
<1> QED BY <1>4, <1>5, <1>6

(* Exactly the erased obituary is no longer listed.                        *)
LEMMA EraseListed ==
    ASSUME mObituaries \in Seq(Obituaries), IdsDistinct, NEW i \in DOMAIN mObituaries,
           mObituaries' = Erase(i)
    PROVE  /\ Listed' = Listed \ {mObituaries[i].id}
           /\ \A j \in DOMAIN mObituaries' :
                 \E k \in DOMAIN mObituaries : mObituaries'[j] = mObituaries[k]
           /\ \A j, k \in DOMAIN mObituaries' :
                 mObituaries'[j].id = mObituaries'[k].id => j = k
<1>0. i \in Nat /\ 1 <= i /\ i <= Len(mObituaries) /\ Len(mObituaries) \in Nat
  OBVIOUS
<1> DEFINE from(j) == IF j < i THEN j ELSE j + 1
<1>1. DOMAIN mObituaries' = 1..(Len(mObituaries) - 1)
  BY <1>0, EraseSequence
<1>2. \A j \in DOMAIN mObituaries' :
         from(j) \in DOMAIN mObituaries \ {i} /\ mObituaries'[j] = mObituaries[from(j)]
  BY <1>0, <1>1, EraseSequence
<1>3. \A k \in DOMAIN mObituaries \ {i} : \E j \in DOMAIN mObituaries' : from(j) = k
  <2> SUFFICES ASSUME NEW k \in DOMAIN mObituaries \ {i}
               PROVE  \E j \in DOMAIN mObituaries' : from(j) = k
    OBVIOUS
  <2>1. CASE k < i
    BY <1>0, <1>1, <2>1
  <2>2. CASE k > i
    <3>1. k - 1 \in DOMAIN mObituaries' /\ from(k - 1) = k
      BY <1>0, <1>1, <2>2
    <3> QED BY <3>1
  <2> QED BY <1>0, <2>1, <2>2
<1>4. \A j, k \in DOMAIN mObituaries' : from(j) = from(k) => j = k
  BY <1>0, <1>1
<1> HIDE DEF from
<1>5. Listed' = Listed \ {mObituaries[i].id}
  <2>1. ASSUME NEW id \in Listed' PROVE id \in Listed \ {mObituaries[i].id}
    BY <1>2 DEF Listed, IdsDistinct
  <2>2. ASSUME NEW id \in Listed, id # mObituaries[i].id PROVE id \in Listed'
    BY <2>2, <1>2, <1>3 DEF Listed
  <2> QED BY <2>1, <2>2
<1> QED BY <1>2, <1>4, <1>5 DEF IdsDistinct

(* A new link has a new number; it is listed and, if the HAL lives, linked.*)
LEMMA LinkPreserves ==
    ASSUME ObituaryInv, NEW r \in Recipients, NEW c \in Cookies, NEW f \in Flags,
           linkToDeath(r, c, f)
    PROVE  ObituaryInv'
<1> USE H2BConverterAssumption
<1> DEFINE id == calls + 1
           o == [id |-> id, recipient |-> r, cookie |-> c, flags |-> f]
<1>0. /\ calls' = id /\ id \in Ids /\ calls \in Nat
      /\ mObituaries' = Append(mObituaries, o)
      /\ mObituaries \in Seq(Obituaries)
  BY DEF linkToDeath, ObituaryInv, ObituaryTypeOK, Ids
<1>a. o \in Obituaries /\ o.id = id /\ o.recipient = r
  BY <1>0 DEF Obituaries
<1> HIDE DEF o
<1>1. /\ mObituaries' \in Seq(Obituaries)
      /\ DOMAIN mObituaries' = DOMAIN mObituaries \union {Len(mObituaries) + 1}
      /\ \A i \in DOMAIN mObituaries : mObituaries'[i] = mObituaries[i]
      /\ mObituaries'[Len(mObituaries) + 1] = o
      /\ Len(mObituaries) + 1 \notin DOMAIN mObituaries
  BY <1>0, <1>a
<1>2. Listed' = Listed \union {id}
  BY <1>1, <1>a DEF Listed
<1>3. \A i \in DOMAIN mObituaries : mObituaries[i].id \in Ids /\ mObituaries[i].id < id
  <2>1. \A i \in DOMAIN mObituaries : mObituaries[i] \in Obituaries
    BY <1>0
  <2>2. \A i \in DOMAIN mObituaries : mObituaries[i].id \in Ids
    BY <2>1 DEF Obituaries
  <2> QED BY <1>0, <2>2 DEF ObituaryInv, IdsDistinct, Ids
<1>4. /\ UNCHANGED <<notices, halAlive, live, withdrawn, told>>
      /\ IF halAlive
         THEN links' = links \union {id} /\ accepted' = [accepted EXCEPT ![id] = r]
         ELSE links' = links /\ accepted' = accepted
  BY DEF linkToDeath
<1>5. ObituaryTypeOK'
  <2>1. accepted' \in [Ids -> Recipients \union {NoRecipient}]
    BY <1>0, <1>4 DEF ObituaryInv, ObituaryTypeOK
  <2>2. links' \subseteq Ids /\ notices' \subseteq Ids
    BY <1>0, <1>4 DEF ObituaryInv, ObituaryTypeOK
  <2>3. calls' \in 0..MaxLinks
    BY <1>0 DEF Ids
  <2> QED BY <1>1, <1>4, <2>1, <2>2, <2>3 DEF ObituaryInv, ObituaryTypeOK
<1>6. IdsDistinct'
  BY <1>0, <1>1, <1>3, <1>a DEF ObituaryInv, IdsDistinct, Ids
<1>7. accepted[id] = NoRecipient
  BY <1>0 DEF ObituaryInv, AcceptedIsListed, Ids
<1>8. /\ \A n \in Ids \ {id} : accepted'[n] = accepted[n]
      /\ accepted'[id] = IF halAlive THEN r ELSE NoRecipient
  BY <1>0, <1>4, <1>7 DEF ObituaryInv, ObituaryTypeOK
<1>9. AcceptedIsListed'
  BY <1>0, <1>1, <1>3, <1>8, <1>a DEF ObituaryInv, AcceptedIsListed, Ids
<1>10. LinkedIffListed'
  BY <1>2, <1>4 DEF ObituaryInv, LinkedIffListed
<1>11. DeathNotLost'
  <2> SUFFICES ASSUME NEW n \in Ids, accepted'[n] # NoRecipient
               PROVE  \/ n \in withdrawn'
                      \/ n \in Listed' /\ IF halAlive' THEN n \in links' ELSE n \in notices'
                      \/ ~halAlive' /\ (n \in told' \/ accepted'[n] \notin live')
    BY DEF DeathNotLost
  <2>1. CASE n = id
    BY <1>2, <1>4, <1>8, <2>1
  <2>2. CASE n # id
    BY <1>2, <1>4, <1>8, <2>2 DEF ObituaryInv, DeathNotLost
  <2> QED BY <2>1, <2>2
<1> QED BY <1>5, <1>6, <1>9, <1>10, <1>11 DEF ObituaryInv

(* unlinkToDeath() removes one obituary from the list and from the HAL, or *)
(* changes nothing.                                                        *)
LEMMA UnlinkPreserves ==
    ASSUME ObituaryInv, NEW r \in Recipients \union {NoRecipient}, NEW c \in Cookies,
           NEW f \in Flags, unlinkToDeath(r, c, f)
    PROVE  ObituaryInv'
<1>0. UNCHANGED <<notices, halAlive, live, calls, accepted, told>>
  BY DEF unlinkToDeath
<1>1. CASE UNCHANGED <<mObituaries, links, withdrawn>>
  BY <1>0, <1>1 DEF ObituaryInv, ObituaryTypeOK, IdsDistinct, AcceptedIsListed,
     LinkedIffListed, DeathNotLost, Listed
<1>2. CASE \E i \in DOMAIN mObituaries :
              /\ mObituaries' = Erase(i)
              /\ links' = links \ {mObituaries[i].id}
              /\ withdrawn' = withdrawn \union {mObituaries[i].id}
  <2>0. PICK i \in DOMAIN mObituaries :
              /\ mObituaries' = Erase(i)
              /\ links' = links \ {mObituaries[i].id}
              /\ withdrawn' = withdrawn \union {mObituaries[i].id}
    BY <1>2
  <2>a. mObituaries \in Seq(Obituaries) /\ IdsDistinct
    BY DEF ObituaryInv, ObituaryTypeOK
  <2>1. /\ Listed' = Listed \ {mObituaries[i].id}
        /\ \A j \in DOMAIN mObituaries' :
              \E k \in DOMAIN mObituaries : mObituaries'[j] = mObituaries[k]
        /\ \A j, k \in DOMAIN mObituaries' :
              mObituaries'[j].id = mObituaries'[k].id => j = k
    BY <2>0, <2>a, EraseListed
  <2>2. ObituaryTypeOK'
    BY <1>0, <2>0, <2>a, EraseSequence DEF ObituaryInv, ObituaryTypeOK
  <2>3. IdsDistinct'
    BY <1>0, <2>1, <2>a DEF IdsDistinct
  <2>4. AcceptedIsListed'
    BY <1>0, <2>1 DEF ObituaryInv, AcceptedIsListed
  <2>5. LinkedIffListed'
    BY <1>0, <2>0, <2>1 DEF ObituaryInv, LinkedIffListed
  <2>6. DeathNotLost'
    BY <1>0, <2>0, <2>1 DEF ObituaryInv, DeathNotLost
  <2> QED BY <2>2, <2>3, <2>4, <2>5, <2>6 DEF ObituaryInv
<1> QED BY <1>1, <1>2 DEF unlinkToDeath

(* A notice for an obituary that is held reaches a recipient that lives.   *)
LEMMA ServiceDiedPreserves ==
    ASSUME ObituaryInv, NEW id \in Ids, serviceDied(id)
    PROVE  ObituaryInv'
<1>0. UNCHANGED <<mObituaries, links, halAlive, live, calls, accepted, withdrawn>>
  BY DEF serviceDied
<1>1. ObituaryTypeOK' /\ IdsDistinct' /\ AcceptedIsListed' /\ LinkedIffListed'
  BY <1>0 DEF ObituaryInv, ObituaryTypeOK, IdsDistinct, AcceptedIsListed,
     LinkedIffListed, Listed, serviceDied
<1>2. DeathNotLost'
  <2> SUFFICES ASSUME NEW n \in Ids, accepted[n] # NoRecipient
               PROVE  \/ n \in withdrawn
                      \/ n \in Listed /\ IF halAlive THEN n \in links ELSE n \in notices'
                      \/ ~halAlive /\ (n \in told' \/ accepted[n] \notin live)
    BY <1>0 DEF DeathNotLost, Listed
  <2>1. /\ told \subseteq told' /\ notices' = notices \ {id}
    BY DEF serviceDied
  <2>2. CASE n # id
    BY <2>1, <2>2 DEF ObituaryInv, DeathNotLost
  <2>3. CASE n = id /\ ~halAlive /\ id \in Listed /\ accepted[id] \in live
    <3>1. PICK i \in DOMAIN mObituaries : mObituaries[i].id = id
      BY <2>3 DEF Listed
    <3>2. mObituaries[i].recipient = accepted[id]
      BY <2>3, <3>1 DEF ObituaryInv, AcceptedIsListed
    <3>3. id \in told'
      BY <2>3, <3>1, <3>2 DEF serviceDied, Promotes
    <3> QED BY <2>3, <3>3
  <2>4. CASE n = id /\ ~(~halAlive /\ id \in Listed /\ accepted[id] \in live)
    BY <2>1, <2>4 DEF ObituaryInv, DeathNotLost
  <2> QED BY <2>2, <2>3, <2>4
<1> QED BY <1>1, <1>2 DEF ObituaryInv

(* The death of the HAL turns every link into a notice.                    *)
LEMMA HalDiesPreserves ==
    ASSUME ObituaryInv, HalDies
    PROVE  ObituaryInv'
<1>1. ObituaryTypeOK' /\ IdsDistinct' /\ AcceptedIsListed' /\ LinkedIffListed'
  BY DEF HalDies, ObituaryInv, ObituaryTypeOK, IdsDistinct, AcceptedIsListed,
     LinkedIffListed
<1>2. DeathNotLost'
  BY DEF HalDies, ObituaryInv, DeathNotLost, Listed
<1> QED BY <1>1, <1>2 DEF ObituaryInv

(* Every step of clients, HAL and transport preserves the invariant.       *)
LEMMA ObituaryNextPreserves == ObituaryInv /\ [ObituaryNext]_obituaryVars => ObituaryInv'
<1> SUFFICES ASSUME ObituaryInv, [ObituaryNext]_obituaryVars PROVE ObituaryInv'
  OBVIOUS
<1>1. ASSUME NEW r \in Recipients, RecipientGone(r) PROVE ObituaryInv'
  BY <1>1 DEF RecipientGone, ObituaryInv, ObituaryTypeOK, IdsDistinct, AcceptedIsListed,
     LinkedIffListed, DeathNotLost, Listed
<1>2. CASE UNCHANGED obituaryVars
  BY <1>2 DEF obituaryVars, ObituaryInv, ObituaryTypeOK, IdsDistinct, AcceptedIsListed,
     LinkedIffListed, DeathNotLost, Listed
<1> QED BY <1>1, <1>2, LinkPreserves, UnlinkPreserves, ServiceDiedPreserves,
           HalDiesPreserves DEF ObituaryNext

(* The invariant holds in every reachable state.                           *)
THEOREM ObituaryInvariant == ObituarySpec => []ObituaryInv
<1>1. ObituaryInit => ObituaryInv
  BY H2BConverterAssumption DEF ObituaryInit, ObituaryInv, ObituaryTypeOK, IdsDistinct,
     AcceptedIsListed, LinkedIffListed, DeathNotLost, Listed, Ids
<1> QED BY <1>1, ObituaryNextPreserves, PTL DEF ObituarySpec

(***************************************************************************)
(* However linkToDeath() and unlinkToDeath() calls are mixed, a living HAL *)
(* is linked to exactly the obituaries in mObituaries.                     *)
(***************************************************************************)
THEOREM LinksAreListed == ObituarySpec => []LinkedIffListed
<1>1. ObituaryInv => LinkedIffListed
  BY DEF ObituaryInv
<1> QED BY <1>1, ObituaryInvariant, PTL

(***************************************************************************)
(* The safety half of DeathIsTold: a recipient whose linkToDeath()         *)
(* returned NO_ERROR is linked while the HAL lives; once it has died, the  *)
(* recipient was told or Obituary::serviceDied() is on its way to it,      *)
(* unless it was unlinked or destroyed.                                    *)
(***************************************************************************)
THEOREM DeathLinksNotLost == ObituarySpec => []DeathNotLost
<1>1. ObituaryInv => DeathNotLost
  BY DEF ObituaryInv
<1> QED BY <1>1, ObituaryInvariant, PTL

-----------------------------------------------------------------------------
(* What unlinkToDeath() has removed: obituaries of calls made, which are   *)
(* not listed again; and nobody is told before the HAL has died.           *)
WithdrawnInv ==
    /\ withdrawn \subseteq 1..calls
    /\ withdrawn \cap Listed = {}
    /\ halAlive => told = {} /\ notices = {}

(* A withdrawn obituary is not told of the death afterwards.               *)
UnlinkIsFinal == \A id \in withdrawn : id \in told' => id \in told

(* A number is never used for a second obituary, and serviceDied() finds   *)
(* only obituaries that are listed.                                        *)
LEMMA WithdrawnPreserves ==
    ASSUME ObituaryInv, WithdrawnInv, [ObituaryNext]_obituaryVars
    PROVE  WithdrawnInv' /\ UnlinkIsFinal
<1>0. calls \in Nat /\ mObituaries \in Seq(Obituaries) /\ IdsDistinct
  BY H2BConverterAssumption DEF ObituaryInv, ObituaryTypeOK
<1>1. ASSUME NEW r \in Recipients, NEW c \in Cookies, NEW f \in Flags, linkToDeath(r, c, f)
      PROVE  WithdrawnInv' /\ told' = told
  <2> DEFINE o == [id |-> calls + 1, recipient |-> r, cookie |-> c, flags |-> f]
  <2>1. /\ calls' = calls + 1 /\ mObituaries' = Append(mObituaries, o)
        /\ UNCHANGED <<notices, halAlive, withdrawn, told>>
    BY <1>1 DEF linkToDeath
  <2>2. o.id = calls + 1
    OBVIOUS
  <2> HIDE DEF o
  <2>3. \A i \in DOMAIN mObituaries' :
           \/ mObituaries'[i] = o
           \/ i \in DOMAIN mObituaries /\ mObituaries'[i] = mObituaries[i]
    BY <1>0, <2>1
  <2>4. Listed' \subseteq Listed \union {calls + 1}
    BY <2>2, <2>3 DEF Listed
  <2>5. calls + 1 \notin withdrawn /\ withdrawn \subseteq 1..(calls + 1)
    BY <1>0 DEF WithdrawnInv
  <2> QED BY <2>1, <2>4, <2>5 DEF WithdrawnInv
<1>2. ASSUME NEW r \in Recipients \union {NoRecipient}, NEW c \in Cookies, NEW f \in Flags,
             unlinkToDeath(r, c, f)
      PROVE  WithdrawnInv' /\ told' = told
  <2>0. UNCHANGED <<notices, halAlive, calls, told>>
    BY <1>2 DEF unlinkToDeath
  <2>1. CASE UNCHANGED <<mObituaries, links, withdrawn>>
    BY <2>0, <2>1 DEF WithdrawnInv, Listed
  <2>2. ASSUME NEW i \in DOMAIN mObituaries, mObituaries' = Erase(i),
               withdrawn' = withdrawn \union {mObituaries[i].id}
        PROVE  WithdrawnInv'
    <3>1. Listed' = Listed \ {mObituaries[i].id}
      BY <1>0, <2>2, EraseListed
    <3>2. mObituaries[i].id \in 1..calls
      <4>1. mObituaries[i] \in Obituaries
        BY <1>0
      <4>2. mObituaries[i].id \in Ids
        BY <4>1 DEF Obituaries
      <4>3. mObituaries[i].id <= calls
        BY <1>0 DEF IdsDistinct
      <4> QED BY <4>2, <4>3, <1>0 DEF Ids
    <3> QED BY <2>0, <2>2, <3>1, <3>2 DEF WithdrawnInv
  <2> QED BY <1>2, <2>0, <2>1, <2>2 DEF unlinkToDeath
<1>3. ASSUME NEW id \in Ids, serviceDied(id) PROVE WithdrawnInv' /\ UnlinkIsFinal
  <2>1. /\ UNCHANGED <<mObituaries, halAlive, calls, withdrawn>> /\ id \in notices
        /\ \A n \in told' : n \in told \/ n \in Listed
    BY <1>3 DEF serviceDied, Promotes
  <2>2. ~halAlive
    BY <2>1 DEF WithdrawnInv
  <2>3. UnlinkIsFinal
    BY <2>1 DEF WithdrawnInv, UnlinkIsFinal
  <2> QED BY <2>1, <2>2, <2>3 DEF WithdrawnInv, Listed
<1>4. CASE HalDies
  BY <1>4 DEF HalDies, WithdrawnInv, Listed, UnlinkIsFinal
<1>5. ASSUME NEW r \in Recipients, RecipientGone(r) PROVE WithdrawnInv' /\ told' = told
  BY <1>5 DEF RecipientGone, WithdrawnInv, Listed
<1>6. CASE UNCHANGED obituaryVars
  BY <1>6 DEF obituaryVars, WithdrawnInv, Listed, UnlinkIsFinal
<1>7. told' = told => UnlinkIsFinal
  BY DEF UnlinkIsFinal
<1> QED BY <1>1, <1>2, <1>3, <1>4, <1>5, <1>6, <1>7 DEF ObituaryNext

(* The invariant holds in every reachable state.                           *)
LEMMA WithdrawnInvariant == ObituarySpec => [](ObituaryInv /\ WithdrawnInv)
<1>1. ObituaryInit => WithdrawnInv
  BY DEF ObituaryInit, WithdrawnInv
<1>2. ObituaryInv /\ WithdrawnInv /\ [ObituaryNext]_obituaryVars => WithdrawnInv'
  BY WithdrawnPreserves
<1> QED BY <1>1, <1>2, ObituaryInvariant, PTL DEF ObituarySpec

(***************************************************************************)
(* Once unlinkToDeath() has removed an obituary its recipient is not told  *)
(* any more, also when the HAL has died and the transport's call is        *)
(* already on its way: binderDied() then promotes a weak pointer to an     *)
(* obituary that mObituaries has dropped.                                  *)
(***************************************************************************)
THEOREM RemovedIsNotTold == ObituarySpec => [][UnlinkIsFinal]_obituaryVars
<1>1. ObituaryInv /\ WithdrawnInv /\ [ObituaryNext]_obituaryVars
        => [UnlinkIsFinal]_obituaryVars
  BY WithdrawnPreserves
<1> QED BY <1>1, WithdrawnInvariant, PTL DEF ObituarySpec

(* What a client asked to remove was removed, and was not told.            *)
AskedInv == asked \subseteq withdrawn /\ told \cap asked = {}

(* With one value of flags, not 0, the first obituary of the recipient is  *)
(* both the one it asks for and the one that unlinkToDeath() finds.        *)
LEMMA AskedIsRemoved ==
    ASSUME ObituaryInv, WithdrawnInv, AskedInv, 0 \notin Flags, \A f, g \in Flags : f = g,
           NEW r \in Recipients \union {NoRecipient}, NEW c \in Cookies, NEW f \in Flags,
           unlinkToDeath(r, c, f)
    PROVE  AskedInv'
<1> DEFINE found == {i \in DOMAIN mObituaries : Matches(mObituaries[i], r, c, f)}
           first == {j \in DOMAIN mObituaries :
                        /\ halAlive
                        /\ mObituaries[j].recipient = r /\ mObituaries[j].flags = f
                        /\ \A k \in 1..(j - 1) : mObituaries[k].recipient # r
                                                 \/ mObituaries[k].flags # f}
<1>0. \A i \in DOMAIN mObituaries : i \in Nat /\ 1 <= i
  BY DEF ObituaryInv, ObituaryTypeOK
<1>1. \A i \in DOMAIN mObituaries :
         mObituaries[i].recipient \in Recipients /\ mObituaries[i].flags \in Flags
  <2>1. \A i \in DOMAIN mObituaries : mObituaries[i] \in Obituaries
    BY DEF ObituaryInv, ObituaryTypeOK
  <2> QED BY <2>1 DEF Obituaries
<1>2. \A i \in DOMAIN mObituaries : mObituaries[i].flags = f /\ mObituaries[i].flags # 0
  BY <1>1
<1>3. asked' = asked \union {mObituaries[i].id : i \in first} /\ told' = told
  BY DEF unlinkToDeath
<1>4. \/ found = {} /\ withdrawn' = withdrawn
      \/ \E i \in found : /\ \A j \in found : i <= j
                          /\ withdrawn' = withdrawn \union {mObituaries[i].id}
  BY DEF unlinkToDeath
<1>5. ASSUME NEW j \in first
      PROVE  mObituaries[j].id \in withdrawn' /\ mObituaries[j].id \notin told
  <2>1. j \in DOMAIN mObituaries /\ halAlive /\ mObituaries[j].recipient = r
    OBVIOUS
  <2>2. r \in Recipients /\ r # NoRecipient
    BY <1>1, <2>1, H2BConverterAssumption
  <2>3. j \in found
    BY <1>2, <2>1 DEF Matches
  <2>4. \A i \in found : i \in DOMAIN mObituaries /\ mObituaries[i].recipient = r
    BY <2>2 DEF Matches
  <2>5. PICK i \in found : /\ \A k \in found : i <= k
                           /\ withdrawn' = withdrawn \union {mObituaries[i].id}
    BY <1>4, <2>3
  <2>6. ~(i < j)
    <3> SUFFICES ASSUME i < j PROVE FALSE
      OBVIOUS
    <3>1. i \in 1..(j - 1)
      BY <1>0, <2>1, <2>4
    <3> QED BY <3>1, <2>4, <1>2
  <2>7. i = j
    BY <1>0, <2>1, <2>3, <2>4, <2>5, <2>6
  <2>8. told = {}
    BY <2>1 DEF WithdrawnInv
  <2> QED BY <2>5, <2>7, <2>8
<1> HIDE DEF first, found
<1>6. withdrawn \subseteq withdrawn'
  BY <1>4
<1> QED BY <1>3, <1>5, <1>6 DEF AskedInv

(***************************************************************************)
(* How far the assignment in the test of unlinkToDeath() spares its        *)
(* clients: where every link is made with the same flags, and these are    *)
(* not 0, a recipient that is unlinked while the HAL lives is not told of  *)
(* its death.  With other flags it may be: see MCHybridInterface_unlink.   *)
(***************************************************************************)
THEOREM UniformFlagsUnlink ==
    ASSUME 0 \notin Flags, \A f, g \in Flags : f = g
    PROVE  ObituarySpec => []UnlinkedIsNotTold
<1>1. ObituaryInit => AskedInv
  BY DEF ObituaryInit, AskedInv
<1>2. ASSUME ObituaryInv, WithdrawnInv, AskedInv, [ObituaryNext]_obituaryVars PROVE AskedInv'
  <2>1. ASSUME NEW r \in Recipients \union {NoRecipient}, NEW c \in Cookies, NEW f \in Flags,
               unlinkToDeath(r, c, f)
        PROVE  AskedInv'
    BY <1>2, <2>1, AskedIsRemoved
  <2>2. CASE UNCHANGED <<asked, withdrawn>>
    <3>1. UnlinkIsFinal
      BY <1>2, WithdrawnPreserves
    <3> QED BY <1>2, <2>2, <3>1 DEF AskedInv, UnlinkIsFinal
  <2> QED BY <1>2, <2>1, <2>2 DEF ObituaryNext, linkToDeath, serviceDied, HalDies,
             RecipientGone, obituaryVars
<1>3. AskedInv => UnlinkedIsNotTold
  BY DEF AskedInv, UnlinkedIsNotTold
<1> QED BY <1>1, <1>2, <1>3, WithdrawnInvariant, PTL DEF ObituarySpec

-----------------------------------------------------------------------------
(***************************************************************************)
(* Part 2: tokens.                                                         *)
(***************************************************************************)
(* A token belongs to a constructor that has the reply with it and will    *)
(* delete it, or to one that had a failure.                                *)
TokenHeld ==
    \A p \in tokens :
        /\ p \in Proxies /\ pc[p] # "none"
        /\ p \in failed \/ (pc[p] \in {"retrieve", "delete"} /\ token[p])

ProxyInv ==
    /\ DOMAIN pc = Proxies /\ pc = [p \in Proxies |-> pc[p]]
    /\ DOMAIN token = Proxies /\ token = [p \in Proxies |-> token[p]]
    /\ TokenHeld

(* Every step of a constructor, of its client and of the token manager     *)
(* preserves the invariant.                                                *)
LEMMA ProxyNextPreserves == ProxyInv /\ [ProxyNext]_proxyVars => ProxyInv'
<1> SUFFICES ASSUME ProxyInv, [ProxyNext]_proxyVars PROVE ProxyInv'
  OBVIOUS
<1> USE DEF ProxyInv, TokenHeld
<1>1. CASE ManagerRestarts
  BY <1>1 DEF ManagerRestarts
<1>2. ASSUME NEW p \in Proxies, Retrieve(p) PROVE ProxyInv'
  BY <1>2 DEF Retrieve, AfterRetrieve
<1>3. ASSUME NEW p \in Proxies, ClientDies(p) PROVE ProxyInv'
  BY <1>3 DEF ClientDies
<1>4. ASSUME NEW p \in Proxies, NEW base \in {"local interface", "mBp"}, asInterface(p, base)
      PROVE  ProxyInv'
  BY <1>4 DEF asInterface
<1>5. ASSUME NEW p \in Proxies, NEW made \in BOOLEAN, NEW reply \in BOOLEAN,
             GetHalToken(p, made, reply)
      PROVE  ProxyInv'
  BY <1>5 DEF GetHalToken
<1>6. ASSUME NEW p \in Proxies, NEW ok \in BOOLEAN, DeleteHalToken(p, ok) PROVE ProxyInv'
  BY <1>6 DEF DeleteHalToken
<1>7. CASE UNCHANGED proxyVars
  BY <1>7 DEF proxyVars
<1> QED BY <1>1, <1>2, <1>3, <1>4, <1>5, <1>6, <1>7 DEF ProxyNext

(***************************************************************************)
(* A token outlives the constructor it was made for only if one of its     *)
(* calls failed or its client died.                                        *)
(***************************************************************************)
THEOREM TokensAreReleased == ProxySpec => []TokenReleased
<1>1. ProxyInit => ProxyInv
  BY DEF ProxyInit, ProxyInv, TokenHeld
<1>2. ProxyInv => TokenReleased
  BY DEF ProxyInv, TokenHeld, TokenReleased
<1> QED BY <1>1, <1>2, ProxyNextPreserves, PTL DEF ProxySpec
==============================================================================
