----------------------------- MODULE CircuitMemo ----------------------------
(***************************************************************************)
(* scripts/circuit_memo.py: every expression tree over a small cell set is *)
(* evaluated and counted under its truth table and under the signature     *)
(* that all free renamings of its wires share; then the signatures may be  *)
(* stored in the causal lattice by an outside program that can fail.  A    *)
(* tree is a tuple: a cell and its subtrees, or a leaf alone.              *)
(***************************************************************************)
EXTENDS Integers, Sequences, FiniteSets, SequencesExt, FiniteSetsExt

CONSTANT MAX_SIZE     \* nodes of the largest tree

ASSUME MemoAssumption == MAX_SIZE \in Nat \ {0}

t_sum(a, b) == LET r == (a + b + 3) % 3 IN IF r <= 1 THEN r ELSE -1
t_mul(a, b) == a * b

LEAVES  == <<<<"c-1">>, <<"c0">>, <<"c+1">>, <<"x">>, <<"y">>>>

(* A cell on two trits; a cell of one input looks at the first.            *)
CELLS(cell, a, b) ==
  CASE cell = "neg" -> -a
    [] cell = "id"  -> a
    [] cell = "sum" -> t_sum(a, b)
    [] cell = "mul" -> t_mul(a, b)
    [] cell = "min" -> IF a < b THEN a ELSE b
    [] cell = "max" -> IF a < b THEN b ELSE a

(* Tables have one row for each x and, faster, each y.                     *)
ASSIGN2 == [r \in 1 .. 9 |-> <<((r - 1) \div 3) - 1, ((r - 1) % 3) - 1>>]
RowOf(x, y) == (x + 1) * 3 + (y + 1) + 1

LEAF_TABLE(leaf) ==
  [r \in 1 .. 9 |-> CASE leaf = "x"   -> ASSIGN2[r][1]
                      [] leaf = "y"   -> ASSIGN2[r][2]
                      [] leaf = "c-1" -> -1
                      [] leaf = "c0"  -> 0
                      [] leaf = "c+1" -> 1]

apply2(cell, l, r) == [i \in 1 .. 9 |-> CELLS(cell, l[i], r[i])]

-----------------------------------------------------------------------------
(* Signatures.  Keys are ordered by their first differing trit.            *)
Less(s, t) == \E i \in DOMAIN s : s[i] < t[i] /\ \A j \in 1 .. i - 1 : s[j] = t[j]
LeastKey(K) == CHOOSE s \in K : \A t \in K \ {s} : Less(s, t)

matrix(tt)   == [r \in 1 .. 3 |-> SubSeq(tt, 3 * r - 2, 3 * r)]
flatten(m)   == m[1] \o m[2] \o m[3]
transpose(m) == [r \in 1 .. 3 |-> [c \in 1 .. 3 |-> m[c][r]]]
encode(tt)   == [i \in DOMAIN tt |-> tt[i] + 1]

canonical_perm(tt) == LeastKey({encode(tt), encode(flatten(transpose(matrix(tt))))})

(* Mutant: the columns stay where they are.                                *)
canonicalNoNegY(tt) ==
  LET m       == matrix(tt)
      Swapped == {m, transpose(m)}
      NegX    == Swapped \cup {Reverse(k) : k \in Swapped}
      NegOut  == NegX \cup {[r \in 1 .. 3 |-> [c \in 1 .. 3 |-> -k[r][c]]] : k \in NegX}
  IN  LeastKey({encode(flatten(k)) : k \in NegOut})

(* Swap the inputs or not, negate either, negate the output: 16 renamings. *)
canonical(tt) ==
  LET m       == matrix(tt)
      Swapped == {m, transpose(m)}
      NegX    == Swapped \cup {Reverse(k) : k \in Swapped}
      NegY    == NegX \cup {[r \in 1 .. 3 |-> Reverse(k[r])] : k \in NegX}
      NegOut  == NegY \cup {[r \in 1 .. 3 |-> [c \in 1 .. 3 |-> -k[r][c]]] : k \in NegY}
  IN  LeastKey({encode(flatten(k)) : k \in NegOut})

-----------------------------------------------------------------------------
(* All trees, smallest first: a cell of one input on a tree one smaller, a *)
(* cell of two on two trees that leave one node for the cell.              *)
Cross(A, B) ==
  [k \in 1 .. Len(A) * Len(B) |-> <<A[((k - 1) \div Len(B)) + 1], B[((k - 1) % Len(B)) + 1]>>]

(* Sequences laid end to end.                                              *)
Joint(parts) ==
  LET upto[k \in 0 .. Len(parts)] == IF k = 0 THEN <<>> ELSE upto[k - 1] \o parts[k]
  IN  upto[Len(parts)]

TreesOf(by_size, s) ==
  LET last == by_size[s - 1]
      Unary(cell) == [k \in DOMAIN last |-> <<cell, last[k]>>]
      Pairs(cell, i) ==
        LET pairs == Cross(by_size[i], by_size[s - 1 - i])
        IN  [k \in DOMAIN pairs |-> <<cell, pairs[k][1], pairs[k][2]>>]
      Binary(cell) == Joint([i \in 1 .. s - 2 |-> Pairs(cell, i)])
  IN  Unary("neg") \o Unary("id")
        \o Binary("sum") \o Binary("mul") \o Binary("min") \o Binary("max")

BySize ==
  LET grown[s \in 1 .. MAX_SIZE] ==
        IF s = 1 THEN <<LEAVES>>
        ELSE LET before == grown[s - 1] IN Append(before, TreesOf(before, s))
  IN  grown[MAX_SIZE]

Children(e) == Tail(e)

-----------------------------------------------------------------------------
VARIABLES
  size, at,          \* the tree to be counted next
  table_cache,       \* tree -> table
  canon_cache,       \* table -> signature
  raw_counter, perm_counter, canon_counter,   \* trees under each key
  edges,             \* trees with a child, by their two signatures
  phase,             \* "count", "store", "lookup", "verdict" or "died"
  lattice,           \* what the outside store was given: {} or {its nodes}
  looked             \* words looked up

memoVars == <<size, at, table_cache, canon_cache, raw_counter, perm_counter,
              canon_counter, edges, phase, lattice, looked>>

(* What `main` counts with: dict.get(key, 0) + 1.                          *)
Bump(counter, k) ==
  [j \in DOMAIN counter \cup {k} |->
     (IF j \in DOMAIN counter THEN counter[j] ELSE 0) + (IF j = k THEN 1 ELSE 0)]

Put(cache, k, v) == [j \in DOMAIN cache \cup {k} |-> IF j = k THEN v ELSE cache[j]]

(* Subtrees are smaller, so their tables are always in the cache.  Those   *)
(* of the largest trees are never asked for, and are left out of it here.  *)
table(e) ==
  IF Children(e) = <<>> THEN LEAF_TABLE(e[1])
  ELSE apply2(e[1], table_cache[e[2]], table_cache[e[Len(e)]])

canon_of(tt) == IF tt \in DOMAIN canon_cache THEN canon_cache[tt] ELSE canonical(tt)

(* Mutant: a child is filed under its permutation-only signature.          *)
ChildSigPerm(c) == canonical_perm(table_cache[c])

ChildSig(c) == canon_of(table_cache[c])

Count ==
  /\ phase = "count" /\ size <= MAX_SIZE
  /\ \E e \in {BySize[size][at]} : \E tt \in {table(e)} : \E csig \in {canon_of(tt)} :
       /\ table_cache' = IF size < MAX_SIZE THEN Put(table_cache, e, tt) ELSE table_cache
       /\ canon_cache' = Put(canon_cache, tt, csig)
       /\ raw_counter' = Bump(raw_counter, tt)
       /\ perm_counter' = Bump(perm_counter, canonical_perm(tt))
       /\ canon_counter' = Bump(canon_counter, csig)
       /\ edges' = FoldLeft(LAMBDA E, c : Bump(E, <<csig, ChildSig(c)>>), edges, Children(e))
  /\ IF at < Len(BySize[size]) THEN at' = at + 1 /\ size' = size
                               ELSE at' = 1 /\ size' = size + 1
  /\ UNCHANGED <<phase, lattice, looked>>

counted == <<size, at, table_cache, canon_cache, raw_counter, perm_counter, canon_counter, edges>>

Report ==
  /\ phase = "count" /\ size > MAX_SIZE
  /\ phase' = "store"
  /\ UNCHANGED <<counted, lattice, looked>>

(* Told not to store, or no lattice-cli on this machine; or `down` raises, *)
(* times out or returns an error: the script falls back on its own counts. *)
Fallback ==
  /\ phase = "store" /\ phase' = "verdict"
  /\ UNCHANGED <<counted, lattice, looked>>

Nodes ==
  {[id |-> c, freq |-> canon_counter[c],
    edges |-> {<<p[2], edges[p]>> : p \in {q \in DOMAIN edges : q[1] = c}}]
     : c \in DOMAIN canon_counter}

Down ==
  /\ phase = "store"
  /\ lattice' = {Nodes} /\ phase' = "lookup"
  /\ UNCHANGED <<counted, looked>>

(* The two most frequent signatures are looked up, equals in some order;   *)
(* an answer, none, or an error code are all printed and passed over.      *)
pick_demo_words ==
  LET Pick(words, i) ==
        LET left == DOMAIN canon_counter \ {words[j] : j \in DOMAIN words}
        IN  Append(words, CHOOSE c \in left : \A d \in left : canon_counter[d] <= canon_counter[c])
  IN  FoldLeft(Pick, <<>>, <<1, 2>>)

Lookup ==
  /\ phase = "lookup" /\ Len(looked) < Len(pick_demo_words)
  /\ looked' = Append(looked, pick_demo_words[Len(looked) + 1])
  /\ UNCHANGED <<counted, phase, lattice>>

(* Nothing catches a lookup that times out.                                *)
LookupRaises ==
  /\ phase = "lookup" /\ Len(looked) < Len(pick_demo_words)
  /\ phase' = "died"
  /\ UNCHANGED <<counted, lattice, looked>>

LookedAll ==
  /\ phase = "lookup" /\ Len(looked) = Len(pick_demo_words)
  /\ phase' = "verdict"
  /\ UNCHANGED <<counted, lattice, looked>>

Empty == [k \in {} |-> 0]

MemoInit ==
  /\ size = 1 /\ at = 1 /\ table_cache = Empty /\ canon_cache = Empty
  /\ raw_counter = Empty /\ perm_counter = Empty /\ canon_counter = Empty /\ edges = Empty
  /\ phase = "count" /\ lattice = {} /\ looked = <<>>

MemoNext ==
  Count \/ Report \/ Fallback \/ Down \/ Lookup \/ LookupRaises \/ LookedAll

-----------------------------------------------------------------------------
(* A three-input fragment and the six orders of its inputs.                *)
Inputs3 == {<<a, b, c>> : a, b, c \in -1 .. 1}
Orders3 == {s \in [1 .. 3 -> 1 .. 3] : {s[i] : i \in 1 .. 3} = 1 .. 3}

frag == [v \in Inputs3 |-> CELLS("min", CELLS("max", v[1], v[2]), v[3])]

relabel3(tt, sigma) == [v \in Inputs3 |-> tt[<<v[sigma[1]], v[sigma[2]], v[sigma[3]]>>]]

Key3(tt) == [i \in 1 .. 27 |->
  tt[<<((i - 1) \div 9) - 1, (((i - 1) \div 3) % 3) - 1, ((i - 1) % 3) - 1>>]]

canon3(tt) == LeastKey({Key3(relabel3(tt, s)) : s \in Orders3})

(* The renamings of the sum that the script shows.                         *)
variants ==
  LET x == LEAF_TABLE("x")
      y == LEAF_TABLE("y")
      NegT(t) == [i \in 1 .. 9 |-> -t[i]]
  IN  {apply2("sum", x, y), apply2("sum", y, x), apply2("sum", NegT(x), y),
       apply2("sum", x, NegT(y)), NegT(apply2("sum", x, y)),
       NegT(apply2("sum", NegT(x), NegT(y)))}

-----------------------------------------------------------------------------
(* A renaming, told by what it does to the wires: the table of             *)
(* (x, y) |-> o * f(p, q) where p and q are u * x and v * y, swapped or    *)
(* not.                                                                    *)
Renaming(tt, swap, u, v, o) ==
  [r \in 1 .. 9 |->
     LET p == u * ASSIGN2[r][1]
         q == v * ASSIGN2[r][2]
     IN  o * tt[IF swap THEN RowOf(q, p) ELSE RowOf(p, q)]]

Orbit(tt) ==
  {Renaming(tt, swap, u, v, o) : swap \in BOOLEAN, u \in {-1, 1}, v \in {-1, 1}, o \in {-1, 1}}

(* "Each path exists once": two fragments have the same signature exactly  *)
(* when one is a free renaming of the other, neither merging what differs  *)
(* nor storing a path twice (canonical, 130-150); the script's own orbits, *)
(* of two and of three inputs, come to one node each.                      *)
MemoExact ==
  (at = 1 /\ phase = "count") =>
    /\ \A tt \in DOMAIN raw_counter :
         /\ canon_cache[tt] \in {encode(t) : t \in Orbit(tt)}
         /\ \A t \in Orbit(tt) : canonical(t) = canon_cache[tt]
    /\ Cardinality({canonical(t) : t \in variants}) = 1
    /\ LET orbit == {relabel3(frag, s) : s \in Orders3}
       IN  Cardinality(orbit) = 3 /\ Cardinality({canon3(t) : t \in orbit}) = 1

(* The three counters tell of the same trees: a class counts what its      *)
(* tables count, and its tables fall into no more permutation classes than *)
(* there are tables; every child has been counted before its parent; and   *)
(* what the lattice is given has no edge to a node it was not given.       *)
CountersAgree ==
  /\ \A c \in DOMAIN canon_counter :
       LET raws  == {tt \in DOMAIN raw_counter : canon_cache[tt] = c}
           perms == {canonical_perm(tt) : tt \in raws}
       IN  /\ MapThenSumSet(LAMBDA tt : raw_counter[tt], raws) = canon_counter[c]
           /\ MapThenSumSet(LAMBDA p : perm_counter[p], perms) = canon_counter[c]
           /\ Cardinality(raws) <= 16 /\ Cardinality(raws) <= 2 * Cardinality(perms)
  /\ \A p \in DOMAIN edges : p[1] \in DOMAIN canon_counter /\ p[2] \in DOMAIN canon_counter
  /\ \A nodes \in lattice : \A n \in nodes : \A k \in n.edges : \E m \in nodes : m.id = k[1]
=============================================================================
