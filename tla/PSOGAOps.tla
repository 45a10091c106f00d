------------------------------- MODULE PSOGAOps -------------------------------
(***************************************************************************)
(* The path operators of PSOGAOptimizer (src/Pengujian_psogaupdate_e2e_    *)
(* fixed.py): initialize_population, update_particles, mutate and          *)
(* arithmetic_crossover, as operators that return every particle one call  *)
(* can produce, one element per outcome of its random choices.             *)
(*                                                                         *)
(* A particle is its path and the length of its velocity list: the         *)
(* velocity values only pick an index into the available nodes            *)
(* (int(abs(v) * len(available)) % len(available)), which can be any     *)
(* index, and the fitness only decides which particles are kept, which    *)
(* the reachable set below does not depend on.                             *)
(***************************************************************************)
EXTENDS Integers, Sequences, SequencesExt, FiniteSets

CONSTANTS
    Self,       \* the optimizer's node_id
    MaxHops     \* MAX_HOPS, the length bound of mutate's 'add'

Particle(p, v) == [path |-> p, vlen |-> v]

\* append n unless it is on the path already
AppendAbsent(p, n) == IF Contains(p, n) THEN p ELSE Append(p, n)

\* `if destination_id not in path: path.append(destination_id)`
PinDest(p, d) == AppendAbsent(p, d)

\* the nodes of s appended in order to p, each one unless already there
AppendAllAbsent(p, s) ==
    LET f[i \in 0..Len(s)] == IF i = 0 THEN p ELSE AppendAbsent(f[i - 1], s[i])
    IN f[Len(s)]

\* list(dict.fromkeys(p)) and mutate's seen/uniq loop: first occurrences
Dedup(p) == AppendAllAbsent(<<>>, p)

\* initialize_population: hop_count in 2..min(4, |available| + 1), then
\* hop_count - 2 random picks among the available non-destination nodes,
\* each appended when new, then the destination.  No particle when no
\* node is available (the call returns False).
InitParticles(d, A) ==
    LET inter == A \ {d}
        top == IF Cardinality(A) + 1 < 4 THEN Cardinality(A) + 1 ELSE 4
        Build(picks) == PinDest(AppendAllAbsent(<<Self>>, picks), d)
    IN {Particle(Build(picks), Len(Build(picks)) - 1) :
          picks \in UNION {[1..(h - 2) -> inter] : h \in 2..top}}

\* update_particles for one particle: one random available node per
\* velocity entry, for at most len(path) - 1 entries, appended when new and
\* not the destination; the velocity keeps its length.  Nothing moves when
\* no node is available.
UpdateParticle(q, d, A) ==
    LET k == IF q.vlen < Len(q.path) - 1 THEN q.vlen ELSE Len(q.path) - 1
    IN IF A = {} THEN {q}
       ELSE {Particle(PinDest(AppendAllAbsent(<<Self>>, SelectSeq(picks, LAMBDA n : n # d)), d), q.vlen) :
                picks \in [1..k -> A]}

\* mutate's repair: dedup, then self in front and the destination at the
\* end when missing
Repair(p, d) ==
    LET u == Dedup(p)
        h == IF u[1] = Self THEN u ELSE <<Self>> \o u
    IN IF Last(h) = d THEN h ELSE Append(h, d)

\* the three mutation kinds before the repair (cur.insert(pos, nn) with pos
\* in 1..len-1 is index pos + 1 here); a kind whose condition fails leaves
\* the path as it is
MutatedPaths(cur, d, A) ==
    {cur}
    \cup {IF Contains(cur, nn) \/ nn = d THEN cur ELSE InsertAt(cur, i, nn) :
            i \in 2..Len(cur),
            nn \in IF Len(cur) < MaxHops THEN A ELSE {}}
    \cup {RemoveAt(cur, i) : i \in 2..(Len(cur) - 1)}
    \cup {IF Contains(cur, nn) \/ nn = d THEN cur ELSE ReplaceAt(cur, i, nn) :
            i \in 2..(Len(cur) - 1), nn \in A}

\* mutate: a particle whose path is too short, or with no node available,
\* is left alone
Mutate(q, d, A) ==
    IF A = {} \/ Len(q.path) < 2 THEN {q}
    ELSE {Particle(Repair(p, d), q.vlen) : p \in MutatedPaths(q.path, d, A)}

\* the inner nodes path[1:-1]
Mid(p) == SubSeq(p, 2, Len(p) - 1)

\* arithmetic_crossover: the child's inner nodes are the first
\* max(1, int(alpha * n)) of the n distinct inner nodes of both parents,
\* alpha in [0.25, 0.75] (int(alpha * n) takes every value from n \div 4
\* to 3n \div 4), sorted by a key that mixes their positions in the
\* parents.  The model lets them come in any order (a superset of the
\* orders some alpha gives); the child has an empty velocity.
Crossover(q, r, d) ==
    LET U == ToSet(Mid(q.path)) \cup ToSet(Mid(r.path))
        n == Cardinality(U)
        lens == IF n = 0 THEN {0}
                ELSE {IF l < 1 THEN 1 ELSE l : l \in (n \div 4)..((3 * n) \div 4)}
    IN {Particle(Dedup(<<Self>> \o m \o <<d>>), 0) :
          m \in UNION {{s \in [1..l -> U] : Cardinality(ToSet(s)) = l} : l \in lens}}

\* one generation: every particle may be moved, mutated, or crossed with
\* any other; selection only copies particles
Generation(S, d, A) ==
    S \cup UNION {UpdateParticle(q, d, A) \cup Mutate(q, d, A) : q \in S}
      \cup UNION {Crossover(q, r, d) : q, r \in S}

RECURSIVE Closure(_, _, _)
Closure(S, d, A) ==
    LET T == Generation(S, d, A) IN IF T = S THEN S ELSE Closure(T, d, A)

\* every particle optimize_route(d) can hold, over any number of
\* iterations, when A is the available set
Reach(d, A) == Closure(InitParticles(d, A), d, A)

=============================================================================
