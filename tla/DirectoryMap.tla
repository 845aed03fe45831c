---------------------------- MODULE DirectoryMap ----------------------------
(***************************************************************************)
(* What a Directory promises (abstract specification of the interface in   *)
(* sources/files.h): a map from names to values, where a value stands for  *)
(* the id and the type of an entry. The map is the set of its entries, and *)
(* last is the last call with its result.                                  *)
(***************************************************************************)
CONSTANTS Names, Values, None, Refusals

VARIABLES entries, last

dvars == <<entries, last>>

Has(n) == \E e \in entries : e.name = n

ValueOf(n) == IF Has(n) THEN (CHOOSE e \in entries : e.name = n).value ELSE None

DInit ==
    /\ entries \subseteq [name : Names, value : Values]
    /\ \A e, f \in entries : e.name = f.name => e = f

(* get_entry: the value, or None when there is no such name. *)
DGet(n) ==
    /\ last'.call = <<"get_entry", n>>
    /\ last'.result = ValueOf(n)
    /\ UNCHANGED entries

(* add_entry never replaces an entry. *)
DAdd(n, v) ==
    /\ last'.call = <<"add_entry", n, v>>
    /\ last'.result = ~Has(n)
    /\ entries' = entries \cup (IF Has(n) THEN {} ELSE {[name |-> n, value |-> v]})

(* remove_entry reports the entry it removed. *)
DRemove(n) ==
    /\ last'.call = <<"remove_entry", n>>
    /\ last'.result = ValueOf(n)
    /\ entries' = {e \in entries : e.name # n}

(* iterate_over_entries shows every entry exactly once, in any order, whatever
   the callback returns at its k-th call.                                    *)
DIterate(k) ==
    /\ last'.call = <<"iterate_over_entries", k>>
    /\ last'.result = [n \in Names |-> IF Has(n) THEN 1 ELSE 0]
    /\ UNCHANGED entries

DEmpty ==
    /\ last'.call = <<"empty">>
    /\ last'.result = (entries = {})
    /\ UNCHANGED entries

(* Writing the directory out, and reading it back, changes nothing. *)
DFlush ==
    /\ last'.call = <<"flush">>
    /\ UNCHANGED entries

DNext ==
    \/ \E n \in Names : \/ DGet(n) \/ DRemove(n)
                        \/ \E v \in Values : DAdd(n, v)
    \/ \E k \in Refusals : DIterate(k)
    \/ DEmpty \/ DFlush

DSpec == DInit /\ [][DNext]_dvars

=============================================================================
