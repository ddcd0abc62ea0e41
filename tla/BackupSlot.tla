----------------------------- MODULE BackupSlot -----------------------------
(***************************************************************************)
(* What src/internal/backup promises of the one backup of a transaction:    *)
(* the place of the backup is empty or holds one complete backup, the first *)
(* one wins, and a publisher is told that its backup is there only when it   *)
(* is.  Module Publication implements it with files, fsyncs and a rename.    *)
(***************************************************************************)
EXTENDS Naturals

CONSTANTS
    Publishers, \* processes that publish
    Manifests,  \* the backups they may offer
    NoBackup    \* no backup

VARIABLES
    slot,       \* the backup a reader would find
    offer,      \* offer[p]: the backup p wants to publish
    answer,     \* answer[p]: what p is told
    disasters   \* crashes, power losses and changes made by somebody else

Successes == {"published", "verified"}
Answers   == Successes \cup {"none", "conflict", "unknown", "error"}

slotVars == <<slot, offer, answer, disasters>>

SlotInit == /\ slot = NoBackup
            /\ offer = [p \in Publishers |-> NoBackup]
            /\ answer = [p \in Publishers |-> "none"]
            /\ disasters = 0

Offer(p) == /\ \E m \in Manifests : offer' = [offer EXCEPT ![p] = m]
            /\ answer' = [answer EXCEPT ![p] = "none"]
            /\ UNCHANGED <<slot, disasters>>

(* The backup of p appears whole, and only in an empty place.               *)
Fill(p) == /\ slot = NoBackup
           /\ offer[p] \in Manifests
           /\ slot' = offer[p]
           /\ UNCHANGED <<offer, answer, disasters>>

(* Nobody is told of a success that is not there to be read, unless a disaster *)
(* took it away.                                                           *)
Answer(p) == /\ offer[p] \in Manifests
             /\ answer[p] = "none"
             /\ \E a \in Answers \ {"none"} :
                   /\ a \in Successes => slot = offer[p] \/ (slot = NoBackup /\ disasters > 0)
                   /\ answer' = [answer EXCEPT ![p] = a]
             /\ UNCHANGED <<slot, offer, disasters>>

(* What p leaves behind could not be removed: it is told of that instead.    *)
Retract(p) == /\ answer[p] \in {"verified", "conflict"}
              /\ answer' = [answer EXCEPT ![p] = "error"]
              /\ UNCHANGED <<slot, offer, disasters>>

(* Only a disaster empties the place, or takes the answer from a publisher.   *)
Lose == /\ disasters' = disasters + 1
        /\ slot' \in {slot, NoBackup}
        /\ \E P \in SUBSET Publishers :
              /\ answer' = [p \in Publishers |-> IF p \in P THEN "none" ELSE answer[p]]
              /\ offer' = [p \in Publishers |-> IF p \in P THEN NoBackup ELSE offer[p]]

SlotNext == \/ \E p \in Publishers : Offer(p) \/ Fill(p) \/ Answer(p) \/ Retract(p)
            \/ Lose

SlotSpec == SlotInit /\ [][SlotNext]_slotVars
=============================================================================
