------------------------------ MODULE OpenFiles ------------------------------
(***************************************************************************)
(* What the file table promises its callers (abstract specification).      *)
(*                                                                         *)
(* There is no cache: every id has one logical header, callers hold        *)
(* references to ids, and a header changes only when somebody who holds a  *)
(* reference changes it. When the last reference to an unlinked file goes, *)
(* so does the file. Only after a close whose write-back failed may an     *)
(* unreferenced file fall back to another header than its last one.        *)
(***************************************************************************)
EXTENDS Naturals

CONSTANTS Ids, Attrs, NoFile, UINT32_MAX

VARIABLES content, refs, suspect

ovars == <<content, refs, suspect>>

OHeader == [nlink : Nat, attr : Attrs]

OInit ==
    /\ content \in [Ids -> {NoFile} \cup OHeader]
    /\ refs = [id \in Ids |-> 0]
    /\ suspect = {}

OOpen(id) ==
    /\ content[id] # NoFile
    /\ refs' = [refs EXCEPT ![id] = @ + 1]
    /\ UNCHANGED <<content, suspect>>

OCreate(id) ==
    /\ content[id] = NoFile
    /\ \E a \in Attrs : content' = [content EXCEPT ![id] = [nlink |-> 1, attr |-> a]]
    /\ refs' = [refs EXCEPT ![id] = 1]
    /\ UNCHANGED suspect

(* Some other header for id, and for no other file. *)
NewHeader(id) ==
    /\ content'[id] \in OHeader
    /\ content' = [content EXCEPT ![id] = content'[id]]

OChange(id) ==
    /\ refs[id] > 0
    /\ NewHeader(id)
    /\ UNCHANGED <<refs, suspect>>

Gone(id) == content[id] # NoFile /\ content[id].nlink = 0

OClose(id) ==
    /\ refs[id] > 0
    /\ refs' = [refs EXCEPT ![id] = @ - 1]
    /\ IF refs[id] = 1
       THEN /\ content' = [content EXCEPT ![id] = IF Gone(id) THEN NoFile ELSE @]
            /\ suspect' = suspect \ {id}
       ELSE UNCHANGED <<content, suspect>>

(* The last reference goes and the header could not be written back. *)
OCloseFails(id) ==
    /\ refs[id] = 1
    /\ ~Gone(id)
    /\ refs' = [refs EXCEPT ![id] = 0]
    /\ suspect' = suspect \cup {id}
    /\ UNCHANGED content

(* What a failed write-back allows: the last changes are lost, and the loss
   may come to light in the open that follows.                              *)
OLose(id) ==
    /\ id \in suspect
    /\ refs[id] = 0
    /\ NewHeader(id)
    /\ \E n \in {0, 1} : refs' = [refs EXCEPT ![id] = n]
    /\ UNCHANGED suspect

OShutdown ==
    /\ content' = [id \in Ids |-> IF Gone(id) THEN NoFile ELSE content[id]]
    /\ refs' = [id \in Ids |-> 0]
    /\ suspect' = {}

ONext ==
    \/ \E id \in Ids : \/ OOpen(id) \/ OCreate(id) \/ OChange(id)
                       \/ OClose(id) \/ OCloseFails(id) \/ OLose(id)
    \/ OShutdown

OSpec == OInit /\ [][ONext]_ovars

=============================================================================
