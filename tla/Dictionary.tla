----------------------------- MODULE Dictionary -----------------------------
(***************************************************************************)
(* What lib/kernel/hash.c promises: a hash table is a set of elements with *)
(* at most one of each key, and the function that was called last did to   *)
(* it what its comment says and returned what it says.                     *)
(***************************************************************************)
EXTENDS Naturals, Sequences, FiniteSets, Functions

CONSTANTS HashElem, None

VARIABLES open,         \* hash_init() succeeded, hash_destroy() was not called
          members,      \* the elements of the table
          left,         \* what the iterator has yet to visit, or None
          datum,        \* key and hash of every element
          hcall         \* the last call and its result

Equal(e) == {d \in members : datum[d].key = datum[e].key}
Match(e) == IF Equal(e) = {} THEN None ELSE CHOOSE d \in Equal(e) : TRUE

(* S is every element of SET, each once. *)
Visits(s, set) == Range(s) = set /\ Len(s) = Cardinality(set)

DictInit ==
  /\ ~open /\ members = {} /\ left = None
  /\ hcall = [op |-> "none", result |-> None]

Reply(op, r) == hcall' = [op |-> op, result |-> r]

Create(ok) ==
  /\ ~open /\ open' = ok
  /\ Reply("init", ok)
  /\ UNCHANGED <<members, left>>

(* A call that may change the table invalidates the iterator. *)
Update(m) == open /\ members' = m /\ left' = None /\ UNCHANGED open

Insert(e) == /\ Update(IF Equal(e) = {} THEN members \cup {e} ELSE members)
             /\ Reply("insert", Match(e))
Replace(e) == /\ Update((members \ Equal(e)) \cup {e})
              /\ Reply("replace", Match(e))
Delete(e) == Update(members \ Equal(e)) /\ Reply("delete", Match(e))
(* The elements the caller's destructor is called for: all, or it gave none. *)
Destroyed(op, destructor) ==
  LET s == hcall'.result
  IN  /\ hcall'.op = IF destructor THEN op[2] ELSE op[1]
      /\ IF destructor THEN Visits(s, members) ELSE s = <<>>
Clear(destructor) == Destroyed(<<"clear", "clear_all">>, destructor) /\ Update({})
Destroy(destructor) ==
  /\ Destroyed(<<"destroy", "destroy_all">>, destructor)
  /\ open /\ ~open'
  /\ members' = {} /\ left' = None

Keep == open /\ UNCHANGED <<open, members>>
Find(e) == Keep /\ Reply("find", Match(e)) /\ UNCHANGED left
Apply == /\ Keep /\ UNCHANGED left
         /\ hcall'.op = "apply" /\ Visits(hcall'.result, members)
Size == Keep /\ Reply("size", Cardinality(members)) /\ UNCHANGED left
First == Keep /\ Reply("first", None) /\ left' = members
Advance == /\ Keep /\ left # None
           /\ \/ /\ left = {} /\ Reply("next", None) /\ left' = None
              \/ \E e \in left : Reply("next", e) /\ left' = left \ {e}

DictStep ==
  \/ \E ok \in BOOLEAN : Create(ok)
  \/ \E e \in HashElem : Insert(e) \/ Replace(e) \/ Delete(e) \/ Find(e)
  \/ \E destructor \in BOOLEAN : Clear(destructor) \/ Destroy(destructor)
  \/ Apply \/ Size \/ First \/ Advance

DictSpec == DictInit /\ [][DictStep /\ UNCHANGED datum]_<<open, members, left, datum, hcall>>
=============================================================================
