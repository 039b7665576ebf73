------------------------------- MODULE Shmem -------------------------------
(* The part of OpenSHMEM that src/mpi_to_openshmem.c is written on, modelled *)
(* from how that file uses it: the symmetric memory of every processing      *)
(* element (PE), puts that travel on their own, the order a fence gives to   *)
(* them, and the barrier of all PEs.                                         *)
(*                                                                           *)
(* Memory is counted in cells of four bytes.  Every PE has two symmetric     *)
(* areas: "lib", the buffer MPI_Init allocates, and "usr", the buffer the    *)
(* application hands to the calls.                                           *)
EXTENDS Integers, Sequences, FiniteSets

CONSTANTS NumPes,      \* _num_pes()
          LibLen,      \* cells of the library's buffer
          UsrLen       \* cells of the application's buffer

ASSUME ShmemAssumption == /\ NumPes \in Nat \ {0}
                          /\ LibLen \in Nat \ {0}
                          /\ UsrLen \in Nat \ {0}

VARIABLES mem,         \* mem[p].lib, mem[p].usr: the symmetric memory of PE p
          wire,        \* puts that have left their source and not arrived
          fence        \* fence[p]: shmem_fence calls of p since the last barrier

shmemVars == <<mem, wire, fence>>

PE == 0 .. NumPes - 1

Areas == [lib : [0 .. LibLen - 1 -> Int], usr : [0 .. UsrLen - 1 -> Int]]

\* The cells from + 0 .. from + n - 1 of an area, as a function on 0 .. n-1.
Slice(area, from, n) == [i \in 0 .. n - 1 |-> area[from + i]]

\* The area with the given cells stored from index `at' on.
Store(area, at, cells) ==
  [i \in DOMAIN area |-> IF i - at \in DOMAIN cells THEN cells[i - at] ELSE area[i]]

ShmemInit ==
  /\ mem = [p \in PE |-> [lib |-> [i \in 0 .. LibLen - 1 |-> 0],
                          usr |-> [i \in 0 .. UsrLen - 1 |-> 0]]]
  /\ wire = {}
  /\ fence = [p \in PE |-> 0]

\* A put to another PE is on its way; one to the calling PE is a copy.  The
\* put is identified by the call of the program that made it (id).
PutTo(p, q, area, at, cells, id) ==
  [src |-> p, to |-> q, area |-> area, at |-> at, cells |-> cells,
   fence |-> fence[p], id |-> id]

Puts(p, puts) ==
  LET own == {m \in puts : m.to = p}
  IN  /\ wire' = wire \cup (puts \ own)
      /\ mem' = IF own = {} THEN mem
                ELSE LET m == CHOOSE m \in own : TRUE
                     IN  [mem EXCEPT ![p][m.area] = Store(@, m.at, m.cells)]

\* A put arrives.  Only a fence of its source orders two puts to one PE.
Deliver(m) ==
  /\ m \in wire
  /\ \A n \in wire : n.src = m.src /\ n.to = m.to => n.fence >= m.fence
  /\ wire' = wire \ {m}
  /\ mem' = [mem EXCEPT ![m.to][m.area] = Store(@, m.at, m.cells)]
  /\ UNCHANGED fence

\* shmem_fence: later puts of p arrive after the earlier ones.
Fence(p) == fence' = [fence EXCEPT ![p] = @ + 1]

\* shmem_barrier_all, and shmalloc and shfree, which contain one: they return
\* once every PE has called one of them and every put has arrived.
Quiet == wire = {} /\ fence' = [p \in PE |-> 0] /\ UNCHANGED <<mem, wire>>
=============================================================================
