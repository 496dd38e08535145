----------------------------- MODULE H2BConverter -----------------------------
(***************************************************************************)
(* Death links of an H2BConverter (token/1.0/utils HybridInterface.h): a   *)
(* binder object that wraps a HAL.  Each linkToDeath() adds an Obituary to *)
(* mObituaries and links it to the HAL; when the HAL dies its obituaries   *)
(* are called and tell the recipients.                                     *)
(*                                                                         *)
(* mObituaries holds the only strong pointer to an obituary: the transport *)
(* (hidl_binder_death_recipient) keeps a weak one.  Both calls hold        *)
(* mObituariesLock throughout, so each is a step.  The HAL lives in        *)
(* another process; its death is noticed as one call per link, later, in   *)
(* any order.  A recipient can be destroyed at any time.                   *)
(***************************************************************************)
EXTENDS Naturals, Sequences

CONSTANTS Recipients,   \* death recipients of clients
          NoRecipient,  \* the null pointer
          Cookies,
          Flags,        \* the values of the argument flags, 0 by default
          MaxLinks      \* bound on calls of linkToDeath()

ASSUME H2BConverterAssumption == MaxLinks \in Nat /\ NoRecipient \notin Recipients

VARIABLES mObituaries,
          links,        \* obituaries the HAL is linked to
          notices,      \* obituaries the transport will call
          halAlive,
          live,         \* recipients that are not destroyed
          calls,        \* number of linkToDeath() calls, numbers obituaries
          accepted,     \* history: whose link returned NO_ERROR, per obituary
          withdrawn,    \* history: obituaries removed by unlinkToDeath()
          asked,        \* history: obituaries a client asked to remove
          told          \* history: obituaries whose recipient was told

obituaryVars == <<mObituaries, links, notices, halAlive, live, calls,
                  accepted, withdrawn, asked, told>>

Ids == 1..MaxLinks

ObituaryInit ==
    /\ mObituaries = <<>>
    /\ links = {} /\ notices = {} /\ halAlive = TRUE
    /\ live = Recipients
    /\ calls = 0
    /\ accepted = [id \in Ids |-> NoRecipient]
    /\ withdrawn = {} /\ asked = {} /\ told = {}

Listed == {mObituaries[i].id : i \in DOMAIN mObituaries}

(* Plausible bugs, used only to show that the properties can fail.         *)
RemoveLast(i) == SubSeq(mObituaries, 1, Len(mObituaries) - 1)
NeverHeld(id) == FALSE

-----------------------------------------------------------------------------
(* linkToDeath(): the obituary is added first and stays if the link fails, *)
(* which it does when the HAL is dead.                                     *)
linkToDeath(r, c, f) ==
    LET id == calls + 1 IN
    /\ calls < MaxLinks
    /\ r \in live
    /\ calls' = id
    /\ mObituaries' = Append(mObituaries, [id |-> id, recipient |-> r,
                                           cookie |-> c, flags |-> f])
    /\ IF halAlive
       THEN links' = links \union {id} /\ accepted' = [accepted EXCEPT ![id] = r]
       ELSE UNCHANGED <<links, accepted>>
    /\ UNCHANGED <<notices, halAlive, live, withdrawn, asked, told>>

(* The test of unlinkToDeath(): flags is assigned, not compared, so what   *)
(* counts is that the obituary's flags are not 0.                          *)
Matches(o, r, c, f) ==
    /\ o.flags # 0
    /\ o.recipient = r \/ (r = NoRecipient /\ o.cookie = c)

(* mObituaries.erase(i).                                                   *)
Erase(i) == SubSeq(mObituaries, 1, i - 1)
            \o SubSeq(mObituaries, i + 1, Len(mObituaries))

(* unlinkToDeath(): the first match is unlinked from the HAL and erased,   *)
(* even if the HAL cannot unlink it any more.                              *)
unlinkToDeath(r, c, f) ==
    LET found == {i \in DOMAIN mObituaries : Matches(mObituaries[i], r, c, f)} IN
    /\ \/ /\ found = {}
          /\ UNCHANGED <<mObituaries, links, withdrawn>>
       \/ \E i \in found :
             /\ \A j \in found : i <= j
             /\ mObituaries' = Erase(i)
             /\ links' = links \ {mObituaries[i].id}
             /\ withdrawn' = withdrawn \union {mObituaries[i].id}
    /\ asked' = asked \union
          {mObituaries[i].id : i \in {j \in DOMAIN mObituaries :
              /\ halAlive
              /\ mObituaries[j].recipient = r /\ mObituaries[j].flags = f
              /\ \A k \in 1..(j - 1) : mObituaries[k].recipient # r
                                       \/ mObituaries[k].flags # f}}
    /\ UNCHANGED <<notices, halAlive, live, calls, accepted, told>>

(* mRecipient.promote() of the transport finds the obituary.               *)
Promotes(id) == id \in Listed

(* binderDied() of the transport and Obituary::serviceDied().              *)
serviceDied(id) ==
    /\ id \in notices
    /\ notices' = notices \ {id}
    /\ told' = told \union
          {o \in {id} : Promotes(id) /\ \E i \in DOMAIN mObituaries :
              mObituaries[i].id = id /\ mObituaries[i].recipient \in live}
    /\ UNCHANGED <<mObituaries, links, halAlive, live, calls, accepted,
                   withdrawn, asked>>

(* The HAL's process dies: every link becomes a notice.                    *)
HalDies ==
    /\ halAlive
    /\ halAlive' = FALSE
    /\ notices' = links
    /\ links' = {}
    /\ UNCHANGED <<mObituaries, live, calls, accepted, withdrawn, asked, told>>

(* A client drops the last strong pointer to a recipient.                  *)
RecipientGone(r) ==
    /\ r \in live
    /\ live' = live \ {r}
    /\ UNCHANGED <<mObituaries, links, notices, halAlive, calls, accepted,
                   withdrawn, asked, told>>

ObituaryNext ==
    \/ \E c \in Cookies, f \in Flags :
          \/ \E r \in Recipients : linkToDeath(r, c, f)
          \/ \E r \in Recipients \union {NoRecipient} : unlinkToDeath(r, c, f)
    \/ \E id \in Ids : serviceDied(id)
    \/ HalDies
    \/ \E r \in Recipients : RecipientGone(r)

ObituarySpec == ObituaryInit /\ [][ObituaryNext]_obituaryVars

-----------------------------------------------------------------------------
(***************************************************************************)
(* While the HAL lives, it is linked to exactly the obituaries in          *)
(* mObituaries.  An obituary that is linked and not listed would have been *)
(* destroyed, and its recipient never told; one that is listed and not     *)
(* linked would wait for a call that never comes.                          *)
(***************************************************************************)
LinkedIffListed == halAlive => links = Listed

(***************************************************************************)
(* A recipient whose linkToDeath() returned NO_ERROR is told when the HAL  *)
(* has died, unless it was unlinked or destroyed: Obituary::serviceDied    *)
(* finds both the obituary and the recipient.                              *)
(***************************************************************************)
DeathIsTold ==
    \A id \in Ids :
        (accepted[id] # NoRecipient /\ ~halAlive)
            ~> (id \in told \union withdrawn \/ accepted[id] \notin live)

(***************************************************************************)
(* "Unregisters a previously registered death recipient" (IBase.hal): a    *)
(* recipient that, while the HAL was alive, called unlinkToDeath() with    *)
(* the recipient and the flags it had linked with is not told of a later   *)
(* death.                                                                  *)
(***************************************************************************)
UnlinkedIsNotTold == told \cap asked = {}
==============================================================================
