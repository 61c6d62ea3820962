------------------------------- MODULE Pools -------------------------------
(***************************************************************************)
(* The two libraries the node keeps its bounded tables with: memory pools  *)
(* (contiki/core/lib/memb.c) and intrusive linked lists                    *)
(* (contiki/core/lib/list.c).                                              *)
(*                                                                         *)
(* A block is its index in the pool, counted from 1; NULL is 0.  A pool is *)
(* a function from the allocated blocks to their contents.  A list is the  *)
(* sequence of the blocks on it.                                           *)
(***************************************************************************)
EXTENDS Integers, Sequences, SequencesExt

NULL == 0

\* memb_alloc(): the first block that is not in use.
memb_alloc(blocks, used) ==
  IF blocks \subseteq used THEN NULL ELSE Min(blocks \ used)

\* memb_free(): freeing NULL or a free block changes nothing.
memb_free(pool, block) == Restrict(pool, DOMAIN pool \ {block})

\* The pool once an allocated block has been filled in.
Filled(pool, block, content) ==
  [b \in DOMAIN pool \cup {block} |-> IF b = block THEN content ELSE pool[b]]

\* list_remove()
list_remove(list, item) == RemoveFirst(list, item)

\* The first element of a list that is in S, or NULL.
FirstMatch(list, S) ==
  IF ToSet(list) \cap S = {}
  THEN NULL
  ELSE list[Min({i \in DOMAIN list : list[i] \in S})]
=============================================================================
