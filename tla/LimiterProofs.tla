---------------------------- MODULE LimiterProofs ----------------------------
(***************************************************************************)
(* Theorems about Limiter, for any finite number of jobs and any number of *)
(* attempts to remove a directory.                                         *)
(***************************************************************************)
EXTENDS Limiter, FiniteSetTheorems, TLAPS

-----------------------------------------------------------------------------
(* The inductive invariant.                                                *)

Drawn == {k \in Jobs : at[k] \notin {"new", "draw"}}
Holding == {"caps", "clone", "apply", "run", "kill", "remove"}

\* The generator has not been advanced more often than numbers were drawn.
CountShape ==
    /\ gen <= Cardinality(Drawn) + 1
    /\ \A k \in Jobs : at[k] = "draw" => name[k] <= Cardinality(Drawn) + 1

\* A child lives inside its limiter's life and is a member of no other directory.
ChildShape(k) ==
    /\ at[k] = "new" <=> name[k] = 0
    /\ child[k] \in Live => at[k] \in {"apply", "run"}
    /\ at[k] \in {"new", "draw", "make", "caps", "clone"} => child[k] = "none"
    /\ member[k] # 0 => member[k] = name[k] /\ at[k] \in {"run", "kill", "remove", "gone"}
    /\ at[k] # "gone" => tries[k] < MaxTries

\* Every directory has a limiter that will still try to remove it.
Responsible == \A n \in dirs : \E k \in Jobs : name[k] = n /\ at[k] \in Holding

\* Nothing has failed that would keep a limiter from its directory, its caps, its child.
Made(j) == "directory" \notin failed[j]
Written(j) == Made(j) /\ "caps" \notin failed[j]
Joined(j) == Made(j) /\ "attach" \notin failed[j]

\* As long as no two draws overlap, the names are distinct and the directories private.
PrivateShape ==
    /\ \A j, k \in Jobs : name[j] = name[k] /\ name[j] # 0 => j = k
    /\ \A j \in Jobs : at[j] = "draw" => name[j] = gen
    /\ \A j \in Drawn : name[j] < gen
    /\ \A j \in Jobs : at[j] \in Holding /\ Made(j) => name[j] \in dirs
    /\ \A j \in Jobs : at[j] \in Holding \ {"caps"} /\ Written(j) => name[j] \in caps
    /\ \A j \in Jobs : hitBy[j] = {}
    /\ \A j \in Jobs : at[j] = "run" /\ child[j] \in Live /\ Joined(j) => member[j] = name[j]

LimiterInv ==
    /\ TypeOK /\ CountShape /\ Responsible
    /\ \A k \in Jobs : ChildShape(k)
    /\ raced \/ PrivateShape

-----------------------------------------------------------------------------
(* The number of draws.                                                    *)

\* Which jobs have drawn is a part of a finite set.
LEMMA DrawnFacts ==
    /\ IsFiniteSet(Drawn)
    /\ Cardinality(Drawn) \in Nat /\ Cardinality(Jobs) \in Nat
    /\ Cardinality(Drawn) <= Cardinality(Jobs)
    /\ \A j \in Jobs : j \notin Drawn => Cardinality(Drawn) < Cardinality(Jobs)
<1>1. IsFiniteSet(Jobs) /\ Drawn \in SUBSET Jobs
  BY LimiterAssumption DEF Drawn
<1>2. /\ IsFiniteSet(Drawn) /\ Cardinality(Drawn) <= Cardinality(Jobs)
      /\ Cardinality(Jobs) = Cardinality(Drawn) => Jobs = Drawn
  BY <1>1, FS_Subset
<1>3. Cardinality(Drawn) \in Nat /\ Cardinality(Jobs) \in Nat
  BY <1>1, <1>2, FS_CardinalityType
<1>. QED  BY <1>2, <1>3

\* The store of the index ends a draw; no other step changes who has drawn.
LEMMA DrawnNext ==
    ASSUME TypeOK, NEW j \in Jobs, Step(j)
    PROVE  Drawn' = IF storeIndex(j) THEN Drawn \cup {j} ELSE Drawn
<1>1. at \in [Jobs -> {"new", "draw", "make", "caps", "clone", "apply", "run", "kill",
                       "remove", "gone"}]
  BY DEF TypeOK
<1>2. CASE loadIndex(j) \/ storeIndex(j)
  BY <1>1, <1>2 DEF loadIndex, storeIndex, Advance, Drawn
<1>3. CASE makeDirectory(j) \/ writeCaps(j) \/ clone(j) \/ applyToPid(j)
  BY <1>1, <1>3 DEF makeDirectory, writeCaps, clone, applyToPid, storeIndex, Advance, Drawn
<1>4. CASE childEnds(j)
  <2>1. at' = at /\ gen' = gen  BY <1>4 DEF childEnds
  <2>2. ~storeIndex(j)  BY <1>1, <2>1 DEF storeIndex, Advance
  <2>. QED  BY <2>1, <2>2 DEF Drawn
<1>5. CASE reap(j) \/ killMembers(j) \/ removeDirectory(j)
  <2>1. /\ at[j] \in {"run", "kill", "remove"}
        /\ \E to \in {"kill", "remove", "gone"} : at' = [at EXCEPT ![j] = to]
    BY <1>5 DEF reap, killMembers, removeDirectory, Advance
  <2>2. ~storeIndex(j)  BY <2>1 DEF storeIndex, Advance
  <2>. QED  BY <1>1, <2>1, <2>2 DEF Drawn
<1>. QED  BY <1>2, <1>3, <1>4, <1>5 DEF Step

\* A draw advances the generator by one past the index it loaded.
LEMMA CountNext ==
    ASSUME TypeOK, CountShape, NEW j \in Jobs, Step(j)
    PROVE  CountShape'
<1>1. /\ gen \in Nat /\ name \in [Jobs -> Nat]
      /\ at \in [Jobs -> {"new", "draw", "make", "caps", "clone", "apply", "run", "kill",
                          "remove", "gone"}]
  BY DrawnFacts DEF TypeOK, Names
<1>2. Cardinality(Drawn) \in Nat  BY DrawnFacts
<1>3. CASE loadIndex(j)
  <2>1. Drawn' = Drawn  BY <1>1, <1>3 DEF loadIndex, Advance, Drawn
  <2>. QED  BY <1>1, <1>2, <1>3, <2>1 DEF loadIndex, Advance, CountShape
<1>4. CASE storeIndex(j)
  <2>1. Drawn' = Drawn \cup {j}  BY <1>4, DrawnNext
  <2>2. Cardinality(Drawn') = Cardinality(Drawn) + 1
    BY <1>4, <2>1, DrawnFacts, FS_AddElement DEF storeIndex, Advance, Drawn
  <2>. QED  BY <1>1, <1>2, <1>4, <2>2 DEF storeIndex, Advance, CountShape
<1>5. CASE ~loadIndex(j) /\ ~storeIndex(j)
  <2>1. gen' = gen /\ name' = name
    BY <1>5 DEF Step, makeDirectory, writeCaps, clone, applyToPid, childEnds, reap,
                killMembers, removeDirectory
  <2>2. Drawn' = Drawn  BY <1>5, DrawnNext
  <2>3. \A k \in Jobs : at'[k] = "draw" => at[k] = "draw"
    BY <1>1, <1>5 DEF Step, makeDirectory, writeCaps, clone, applyToPid, childEnds, reap,
                killMembers, removeDirectory, Advance
  <2>. QED  BY <2>1, <2>2, <2>3 DEF CountShape
<1>. QED  BY <1>3, <1>4, <1>5

\* What has failed is one of the faults.
LEMMA FailType ==
    ASSUME TypeOK, NEW j \in Jobs, failed' = failed \/ \E what \in Faults : Fails(j, what)
    PROVE  failed' \in [Jobs -> SUBSET Faults]
<1>1. failed \in [Jobs -> SUBSET Faults]  BY DEF TypeOK
<1>2. ASSUME NEW what \in Faults, Fails(j, what) PROVE failed' \in [Jobs -> SUBSET Faults]
  BY <1>1, <1>2 DEF Fails
<1>. QED  BY <1>1, <1>2

\* Every step keeps the types.
LEMMA TypeNext ==
    ASSUME LimiterInv, NEW j \in Jobs, Step(j)
    PROVE  TypeOK'
<1>1. TypeOK /\ CountShape /\ ChildShape(j) /\ CountShape'
  BY CountNext DEF LimiterInv
<1>2. Cardinality(Jobs) \in Nat  BY DrawnFacts
<1>3. CASE loadIndex(j)
  <2>1. gen \in Names
    BY <1>1, <1>3, DrawnFacts DEF loadIndex, Advance, Drawn, CountShape, TypeOK, Names
  <2>2. name' \in [Jobs -> Names \cup {0}] /\ raced' \in BOOLEAN
    BY <1>1, <1>3, <2>1 DEF loadIndex, TypeOK
  <2>. QED  BY <1>1, <1>3, <2>2 DEF loadIndex, Advance, TypeOK
<1>4. CASE storeIndex(j)
  <2>1. name[j] \in Names
    BY <1>1, <1>4 DEF storeIndex, Advance, TypeOK, ChildShape
  <2>2. gen' \in 1..(Cardinality(Jobs) + 1)
    BY <1>2, <1>4, <2>1 DEF storeIndex, Names
  <2>. QED  BY <1>1, <1>4, <2>2 DEF storeIndex, Advance, TypeOK
<1>5. CASE makeDirectory(j)
  <2>1. name[j] \in Names
    BY <1>1, <1>5 DEF makeDirectory, Advance, TypeOK, ChildShape
  <2>2. failed' \in [Jobs -> SUBSET Faults]  BY <1>1, <1>5, FailType DEF makeDirectory, Fails
  <2>3. dirs' \in SUBSET Names /\ caps' \in SUBSET dirs'
    BY <1>1, <1>5, <2>1 DEF makeDirectory, TypeOK
  <2>. QED  BY <1>1, <1>5, <2>2, <2>3 DEF makeDirectory, Advance, TypeOK
<1>6. CASE writeCaps(j)
  <2>1. failed' \in [Jobs -> SUBSET Faults]  BY <1>1, <1>6, FailType DEF writeCaps, Fails
  <2>2. caps' \in SUBSET dirs'  BY <1>1, <1>6 DEF writeCaps, TypeOK
  <2>. QED  BY <1>1, <1>6, <2>1, <2>2 DEF writeCaps, Advance, TypeOK
<1>7. CASE clone(j)
  BY <1>1, <1>7 DEF clone, Advance, TypeOK, Live
<1>8. CASE applyToPid(j)
  <2>1. failed' \in [Jobs -> SUBSET Faults]  BY <1>1, <1>8, FailType DEF applyToPid, Fails
  <2>2. member' \in [Jobs -> Names \cup {0}]  BY <1>1, <1>8 DEF applyToPid, TypeOK
  <2>. QED  BY <1>1, <1>8, <2>1, <2>2 DEF applyToPid, Advance, TypeOK
<1>9. CASE childEnds(j) \/ reap(j)
  BY <1>1, <1>9 DEF childEnds, reap, Advance, TypeOK
<1>10. CASE killMembers(j)
  <2>1. child' \in [Jobs -> Live \cup {"none", "dead"}]
    BY <1>1, <1>10 DEF killMembers, TypeOK, Live
  <2>2. hitBy' \in [Jobs -> SUBSET Jobs]
    BY <1>1, <1>10 DEF killMembers, TypeOK
  <2>. QED  BY <1>1, <1>10, <2>1, <2>2 DEF killMembers, Advance, TypeOK
<1>11. CASE removeDirectory(j)
  <2>1. dirs' \in SUBSET Names /\ caps' \in SUBSET dirs'
    BY <1>1, <1>11 DEF removeDirectory, TypeOK
  <2>2. tries' \in [Jobs -> 0..MaxTries]
    BY <1>1, <1>11, LimiterAssumption DEF removeDirectory, ChildShape, TypeOK
  <2>3. \E to \in {"remove", "gone"} : at' = [at EXCEPT ![j] = to]
    BY <1>11 DEF removeDirectory, Advance
  <2>. QED  BY <1>1, <1>11, <2>1, <2>2, <2>3 DEF removeDirectory, TypeOK
<1>. QED  BY <1>3, <1>4, <1>5, <1>6, <1>7, <1>8, <1>9, <1>10, <1>11 DEF Step

-----------------------------------------------------------------------------
(* The children and the directories.                                       *)

\* A limiter's own steps keep its child inside its life; the others' at most kill it.
LEMMA ChildNext ==
    ASSUME TypeOK, \A k \in Jobs : ChildShape(k), NEW j \in Jobs, Step(j), NEW m \in Jobs
    PROVE  ChildShape(m)'
<1>1. /\ at \in [Jobs -> {"new", "draw", "make", "caps", "clone", "apply", "run", "kill",
                          "remove", "gone"}]
      /\ name \in [Jobs -> Nat] /\ gen \in Nat \ {0}
      /\ child \in [Jobs -> Live \cup {"none", "dead"}]
      /\ member \in [Jobs -> Nat] /\ tries \in [Jobs -> Nat]
  BY DrawnFacts, LimiterAssumption DEF TypeOK, Names
<1>2. ChildShape(m)
  OBVIOUS
<1> USE DEF ChildShape, Live
<1>3. CASE loadIndex(j)
  BY <1>1, <1>2, <1>3 DEF loadIndex, Advance
<1>4. CASE storeIndex(j) \/ makeDirectory(j) \/ writeCaps(j)
  BY <1>1, <1>2, <1>4 DEF storeIndex, makeDirectory, writeCaps, Advance
<1>5. CASE clone(j)
  BY <1>1, <1>2, <1>5 DEF clone, Advance
<1>6. CASE applyToPid(j)
  BY <1>1, <1>2, <1>6 DEF applyToPid, Advance
<1>7. CASE childEnds(j)
  BY <1>1, <1>2, <1>7 DEF childEnds
<1>8. CASE reap(j)
  BY <1>1, <1>2, <1>8 DEF reap, Advance
<1>9. CASE killMembers(j)
  <2>1. /\ child'[m] # child[m] => child[m] \in Live /\ child'[m] \in Live
    BY <1>1, <1>9 DEF killMembers, Members
  <2>2. at'[m] = at[m] \/ (m = j /\ at[m] = "kill" /\ at'[m] = "remove")
    BY <1>1, <1>9 DEF killMembers, Advance
  <2>3. name' = name /\ member' = member /\ tries' = tries
    BY <1>9 DEF killMembers
  <2>. QED  BY <1>2, <2>1, <2>2, <2>3
<1>10. CASE removeDirectory(j)
  <2>1. name' = name /\ member' = member /\ child' = child
    BY <1>10 DEF removeDirectory
  <2>2. m # j => at'[m] = at[m] /\ tries'[m] = tries[m]
    BY <1>1, <1>10 DEF removeDirectory, Advance
  <2>3. /\ at[j] = "remove" /\ at'[j] \in {"remove", "gone"}
        /\ at'[j] # "gone" => tries'[j] < MaxTries
    BY <1>1, <1>10, LimiterAssumption DEF removeDirectory, Advance
  <2>. QED  BY <1>2, <2>1, <2>2, <2>3
<1>. QED  BY <1>3, <1>4, <1>5, <1>6, <1>7, <1>8, <1>9, <1>10 DEF Step

\* A limiter that gives up has met a live member, whose own limiter is still there.
LEMMA ResponsibleNext ==
    ASSUME LimiterInv, NEW j \in Jobs, Step(j)
    PROVE  Responsible'
<1>1. /\ at \in [Jobs -> {"new", "draw", "make", "caps", "clone", "apply", "run", "kill",
                          "remove", "gone"}]
      /\ name \in [Jobs -> Names \cup {0}] /\ dirs \in SUBSET Names
  BY DEF LimiterInv, TypeOK
<1>2. Responsible /\ \A k \in Jobs : ChildShape(k)
  BY DEF LimiterInv
<1>3. CASE loadIndex(j)
  <2>1. dirs' = dirs /\ \A k \in Jobs : at[k] \in Holding => at'[k] = at[k] /\ name'[k] = name[k]
    BY <1>1, <1>3 DEF loadIndex, Advance, Holding
  <2>. QED  BY <1>2, <2>1 DEF Responsible
<1>4. CASE makeDirectory(j)
  <2>1. /\ dirs' \subseteq dirs \cup {name[j]} /\ name' = name /\ at'[j] = "caps"
        /\ \A k \in Jobs : at[k] \in Holding => at'[k] = at[k]
    BY <1>1, <1>4 DEF makeDirectory, Advance, Holding
  <2>. QED  BY <1>2, <2>1 DEF Responsible, Holding
<1>5. CASE storeIndex(j) \/ writeCaps(j) \/ clone(j) \/ applyToPid(j) \/ childEnds(j)
           \/ reap(j) \/ killMembers(j)
  <2>1. dirs' = dirs /\ name' = name
    BY <1>5 DEF storeIndex, writeCaps, clone, applyToPid, childEnds, reap, killMembers
  <2>2. \A k \in Jobs : at[k] \in Holding => at'[k] \in Holding
    BY <1>1, <1>5 DEF storeIndex, writeCaps, clone, applyToPid, childEnds, reap, killMembers,
                      Advance, Holding
  <2>. QED  BY <1>2, <2>1, <2>2 DEF Responsible
<1>6. CASE removeDirectory(j)
  <2>1. /\ name' = name /\ at[j] = "remove" /\ at'[j] \in {"remove", "gone"}
        /\ \A k \in Jobs : k # j => at'[k] = at[k]
    BY <1>1, <1>6 DEF removeDirectory, Advance
  <2>2. CASE name[j] \in dirs /\ Members(name[j]) = {}
    <3>1. dirs' = dirs \ {name[j]}
      BY <1>6, <2>2 DEF removeDirectory
    <3>. QED  BY <1>2, <2>1, <3>1 DEF Responsible
  <2>3. CASE name[j] \in dirs /\ Members(name[j]) # {}
    <3>1. dirs' = dirs
      BY <1>6, <2>3 DEF removeDirectory
    <3>2. PICK k \in Jobs : member[k] = name[j] /\ child[k] \in Live
      BY <2>3 DEF Members
    <3>3. name[j] # 0
      BY <1>1, <2>3, DrawnFacts DEF Names
    <3>4. name[k] = name[j] /\ at[k] = "run"
      BY <1>2, <3>2, <3>3 DEF ChildShape
    <3>5. k # j /\ at'[k] \in Holding
      BY <2>1, <3>4 DEF Holding
    <3>. QED  BY <1>2, <2>1, <3>1, <3>4, <3>5 DEF Responsible
  <2>4. CASE name[j] \notin dirs
    <3>1. dirs' = dirs
      BY <1>6, <2>4 DEF removeDirectory
    <3>. QED  BY <1>2, <2>1, <2>4, <3>1 DEF Responsible
  <2>. QED  BY <2>2, <2>3, <2>4
<1>. QED  BY <1>3, <1>4, <1>5, <1>6 DEF Step

\* Draws that do not overlap give distinct names, and with distinct names a limiter finds
\* no member of another job in its directory.
LEMMA PrivateNext ==
    ASSUME LimiterInv, ~raced, NEW j \in Jobs, Step(j)
    PROVE  raced' \/ PrivateShape'
<1>1. /\ at \in [Jobs -> {"new", "draw", "make", "caps", "clone", "apply", "run", "kill",
                          "remove", "gone"}]
      /\ name \in [Jobs -> Nat] /\ gen \in Nat \ {0}
      /\ child \in [Jobs -> Live \cup {"none", "dead"}]
      /\ member \in [Jobs -> Nat]
      /\ dirs \in SUBSET Nat /\ caps \in SUBSET dirs
      /\ failed \in [Jobs -> SUBSET Faults]
  BY DrawnFacts DEF LimiterInv, TypeOK, Names
<1>2. PrivateShape /\ \A k \in Jobs : ChildShape(k)
  BY DEF LimiterInv
<1>3. CASE loadIndex(j)
  <2>1. CASE \E k \in Jobs : at[k] = "draw"
    BY <1>3, <2>1 DEF loadIndex
  <2>2. CASE \A k \in Jobs : at[k] # "draw"
    <3>1. \A k \in Jobs : name[k] # 0 => name[k] < gen
      BY <1>2, <2>2 DEF PrivateShape, ChildShape, Drawn
    <3>2. /\ at[j] = "new" /\ at' = [at EXCEPT ![j] = "draw"]
          /\ name' = [name EXCEPT ![j] = gen]
          /\ UNCHANGED <<gen, dirs, caps, child, member, failed, hitBy>>
      BY <1>3 DEF loadIndex, Advance
    <3>3. \A i, k \in Jobs : name'[i] = name'[k] /\ name'[i] # 0 => i = k
      BY <1>1, <1>2, <3>1, <3>2 DEF PrivateShape
    <3>4. Drawn' = Drawn /\ j \notin Drawn
      BY <1>1, <3>2 DEF Drawn
    <3>5. /\ \A i \in Jobs : at'[i] = "draw" => name'[i] = gen
          /\ \A i \in Drawn' : name'[i] < gen
      BY <1>1, <1>2, <2>2, <3>2, <3>4 DEF PrivateShape, Drawn
    <3>6. /\ \A i \in Jobs : at'[i] \in Holding /\ Made(i) => name'[i] \in dirs
          /\ \A i \in Jobs : at'[i] \in Holding \ {"caps"} /\ Written(i) => name'[i] \in caps
          /\ \A i \in Jobs : at'[i] = "run" /\ child[i] \in Live /\ Joined(i) =>
                             member[i] = name'[i]
      BY <1>1, <1>2, <3>2 DEF PrivateShape, Holding
    <3>. QED  BY <1>2, <3>2, <3>3, <3>5, <3>6 DEF PrivateShape, Made, Written, Joined
  <2>. QED  BY <2>1, <2>2
<1>4. CASE storeIndex(j)
  <2>1. /\ at[j] = "draw" /\ at' = [at EXCEPT ![j] = "make"] /\ gen' = gen + 1
        /\ UNCHANGED <<name, dirs, caps, child, member, failed, hitBy>>
    BY <1>2, <1>4 DEF storeIndex, Advance, PrivateShape
  <2>2. \A i \in Jobs : i # j => at[i] # "draw"
    BY <1>1, <1>2, <2>1 DEF PrivateShape
  <2>3. Drawn' = Drawn \cup {j}
    BY <1>1, <2>1 DEF Drawn
  <2>4. /\ \A i \in Jobs : at'[i] # "draw"
        /\ \A i \in Drawn' : name[i] < gen + 1
    BY <1>1, <1>2, <2>1, <2>2, <2>3 DEF PrivateShape, Drawn
  <2>5. \A i \in Jobs : at'[i] = at[i] \/ at'[i] = "make"
    BY <1>1, <2>1
  <2>. QED  BY <1>2, <2>1, <2>4, <2>5 DEF PrivateShape, Holding, Made, Written, Joined
<1>5. CASE makeDirectory(j)
  <2>1. /\ at[j] = "make" /\ at' = [at EXCEPT ![j] = "caps"]
        /\ UNCHANGED <<gen, name, caps, child, member, hitBy>>
    BY <1>5 DEF makeDirectory, Advance
  <2>2. Drawn' = Drawn  BY <1>1, <2>1 DEF Drawn
  <2>3. /\ \A i \in Jobs : i # j => failed'[i] = failed[i]
        /\ failed[j] \subseteq failed'[j]
        /\ dirs \subseteq dirs' /\ ("directory" \notin failed'[j] => name[j] \in dirs')
    BY <1>1, <1>5 DEF makeDirectory, Fails
  <2>4. \A i \in Jobs : i # j => at'[i] = at[i]
    BY <1>1, <2>1
  <2>5. \A i \in Jobs : at'[i] \in Holding /\ Made(i)' => name[i] \in dirs'
    BY <1>2, <2>3, <2>4 DEF PrivateShape, Made
  <2>6. \A i \in Jobs : at'[i] \in Holding \ {"caps"} /\ Written(i)' => name[i] \in caps
    BY <1>1, <1>2, <2>1, <2>3, <2>4 DEF PrivateShape, Written, Made
  <2>7. \A i \in Jobs : at'[i] = "run" /\ child[i] \in Live /\ Joined(i)' => member[i] = name[i]
    BY <1>1, <1>2, <2>1, <2>3, <2>4 DEF PrivateShape, Joined, Made
  <2>8. \A i \in Jobs : at'[i] = "draw" => at[i] = "draw"
    BY <1>1, <2>1
  <2>. QED  BY <1>2, <2>1, <2>2, <2>5, <2>6, <2>7, <2>8 DEF PrivateShape
<1>6. CASE writeCaps(j)
  <2>1. /\ at[j] = "caps" /\ at' = [at EXCEPT ![j] = "clone"]
        /\ UNCHANGED <<gen, name, dirs, child, member, hitBy>>
    BY <1>6 DEF writeCaps, Advance
  <2>2. Drawn' = Drawn  BY <1>1, <2>1 DEF Drawn
  <2>3. /\ \A i \in Jobs : i # j => failed'[i] = failed[i]
        /\ failed[j] \subseteq failed'[j] /\ ("directory" \in failed'[j] => "directory" \in failed[j])
        /\ caps \subseteq caps'
        /\ "caps" \notin failed'[j] /\ name[j] \in dirs => name[j] \in caps'
    BY <1>1, <1>6 DEF writeCaps, Fails
  <2>4. \A i \in Jobs : i # j => at'[i] = at[i]
    BY <1>1, <2>1
  <2>5. \A i \in Jobs : at'[i] \in Holding /\ Made(i)' => name[i] \in dirs
    BY <1>2, <2>1, <2>3, <2>4 DEF PrivateShape, Made, Holding
  <2>6. \A i \in Jobs : at'[i] \in Holding \ {"caps"} /\ Written(i)' => name[i] \in caps'
    BY <1>2, <2>1, <2>3, <2>4 DEF PrivateShape, Written, Made, Holding
  <2>7. \A i \in Jobs : at'[i] = "run" /\ child[i] \in Live /\ Joined(i)' => member[i] = name[i]
    BY <1>1, <1>2, <2>1, <2>3, <2>4 DEF PrivateShape, Joined, Made
  <2>8. \A i \in Jobs : at'[i] = "draw" => at[i] = "draw"
    BY <1>1, <2>1
  <2>. QED  BY <1>2, <2>1, <2>2, <2>5, <2>6, <2>7, <2>8 DEF PrivateShape
<1>7. CASE clone(j)
  <2>1. /\ at[j] = "clone" /\ \E to \in {"apply", "kill"} : at' = [at EXCEPT ![j] = to]
        /\ \A k \in Jobs : at'[k] = "run" => child'[k] = child[k]
        /\ UNCHANGED <<gen, name, dirs, caps, member, failed, hitBy>>
    BY <1>1, <1>7 DEF clone, Advance
  <2>2. Drawn' = Drawn  BY <1>1, <2>1 DEF Drawn
  <2>. QED  BY <1>1, <1>2, <2>1, <2>2 DEF PrivateShape, Holding, Made, Written, Joined
<1>8. CASE applyToPid(j)
  <2>1. /\ at[j] = "apply" /\ at' = [at EXCEPT ![j] = "run"]
        /\ UNCHANGED <<gen, name, dirs, caps, child, hitBy>>
    BY <1>8 DEF applyToPid, Advance
  <2>2. Drawn' = Drawn  BY <1>1, <2>1 DEF Drawn
  <2>3. /\ \A i \in Jobs : i # j => failed'[i] = failed[i] /\ member'[i] = member[i]
        /\ failed[j] \subseteq failed'[j]
        /\ "attach" \notin failed'[j] /\ name[j] \in dirs /\ child[j] \in Live =>
              member'[j] = name[j]
    BY <1>1, <1>8 DEF applyToPid, Fails
  <2>4. \A i \in Jobs : i # j => at'[i] = at[i]
    BY <1>1, <2>1
  <2>5. \A i \in Jobs : at'[i] \in Holding /\ Made(i)' => name[i] \in dirs
    BY <1>2, <2>1, <2>3, <2>4 DEF PrivateShape, Made, Holding
  <2>6. \A i \in Jobs : at'[i] \in Holding \ {"caps"} /\ Written(i)' => name[i] \in caps
    BY <1>2, <2>1, <2>3, <2>4 DEF PrivateShape, Written, Made, Holding
  <2>7. \A i \in Jobs : at'[i] = "run" /\ child[i] \in Live /\ Joined(i)' =>
                       member'[i] = name[i]
    BY <1>2, <2>1, <2>3, <2>4 DEF PrivateShape, Joined, Made, Holding
  <2>8. \A i \in Jobs : at'[i] = "draw" => at[i] = "draw"
    BY <1>1, <2>1
  <2>. QED  BY <1>2, <2>1, <2>2, <2>5, <2>6, <2>7, <2>8 DEF PrivateShape
<1>9. CASE childEnds(j)
  <2>1. /\ child' = [child EXCEPT ![j] = "dead"]
        /\ UNCHANGED <<gen, name, at, dirs, caps, member, failed, hitBy>>
    BY <1>9 DEF childEnds
  <2>2. Drawn' = Drawn  BY <2>1 DEF Drawn
  <2>. QED  BY <1>1, <1>2, <2>1, <2>2 DEF PrivateShape, Live, Made, Written, Joined
<1>10. CASE reap(j)
  <2>1. /\ at[j] = "run" /\ at' = [at EXCEPT ![j] = "kill"]
        /\ UNCHANGED <<gen, name, dirs, caps, child, member, failed, hitBy>>
    BY <1>10 DEF reap, Advance
  <2>2. Drawn' = Drawn  BY <1>1, <2>1 DEF Drawn
  <2>. QED  BY <1>1, <1>2, <2>1, <2>2 DEF PrivateShape, Holding, Made, Written, Joined
<1>11. CASE killMembers(j)
  <2>1. at[j] = "kill"  BY <1>11 DEF killMembers, Advance
  <2>2. ASSUME NEW k \in Members(name[j]) PROVE FALSE
    <3>1. k \in Jobs /\ member[k] = name[j] /\ child[k] \in Live  BY DEF Members
    <3>2. name[j] # 0  BY <1>2, <2>1 DEF ChildShape
    <3>3. name[k] = name[j] /\ at[k] # "kill"  BY <1>2, <3>1, <3>2 DEF ChildShape
    <3>4. k = j  BY <1>2, <3>1, <3>2, <3>3 DEF PrivateShape
    <3>. QED  BY <2>1, <3>3, <3>4
  <2>3. /\ at' = [at EXCEPT ![j] = "remove"]
        /\ \A k \in Jobs : child'[k] = child[k] /\ hitBy'[k] = hitBy[k]
        /\ UNCHANGED <<gen, name, dirs, caps, member, failed>>
    BY <1>11, <2>2 DEF killMembers, Advance
  <2>4. Drawn' = Drawn  BY <1>1, <2>1, <2>3 DEF Drawn
  <2>. QED  BY <1>1, <1>2, <2>1, <2>3, <2>4 DEF PrivateShape, Holding, Made, Written, Joined
<1>12. CASE removeDirectory(j)
  <2>1. /\ at[j] = "remove" /\ \E to \in {"remove", "gone"} : at' = [at EXCEPT ![j] = to]
        /\ UNCHANGED <<gen, name, child, member, failed, hitBy>>
    BY <1>12 DEF removeDirectory, Advance
  <2>2. Members(name[j]) = {}
    <3> SUFFICES ASSUME NEW k \in Members(name[j]) PROVE FALSE
      OBVIOUS
    <3>1. k \in Jobs /\ member[k] = name[j] /\ child[k] \in Live  BY DEF Members
    <3>2. name[j] # 0  BY <1>2, <2>1 DEF ChildShape
    <3>3. name[k] = name[j] /\ at[k] # "remove"  BY <1>2, <3>1, <3>2 DEF ChildShape
    <3>4. k = j  BY <1>2, <3>1, <3>2, <3>3 DEF PrivateShape
    <3>. QED  BY <2>1, <3>3, <3>4
  <2>3. /\ dirs' = dirs \ {name[j]} /\ caps' = caps \ {name[j]}
        /\ name[j] \in dirs => at'[j] = "gone"
    BY <1>1, <1>12, <2>2 DEF removeDirectory, Advance
  <2>4. \A i \in Jobs : i # j => at'[i] = at[i]
    BY <1>1, <2>1
  <2>5. Drawn' = Drawn  BY <1>1, <2>1 DEF Drawn
  <2>6. name[j] # 0  BY <1>2, <2>1 DEF ChildShape
  <2>7. /\ \A i \in Jobs : at'[i] \in Holding /\ Made(i) => name[i] \in dirs'
        /\ \A i \in Jobs : at'[i] \in Holding \ {"caps"} /\ Written(i) => name[i] \in caps'
    BY <1>1, <1>2, <2>1, <2>3, <2>4, <2>6 DEF PrivateShape, Holding, Made, Written
  <2>8. \A i \in Jobs : at'[i] = at[i] \/ at'[i] \in {"remove", "gone"}
    BY <1>1, <2>1
  <2>. QED  BY <1>2, <2>1, <2>5, <2>7, <2>8 DEF PrivateShape, Made, Written, Joined
<1>. QED  BY <1>3, <1>4, <1>5, <1>6, <1>7, <1>8, <1>9, <1>10, <1>11, <1>12 DEF Step

-----------------------------------------------------------------------------
(* The theorems.                                                           *)

\* The invariant holds before the first constructor runs ...
LEMMA LimiterInit == Init => LimiterInv
<1> SUFFICES ASSUME Init PROVE LimiterInv
  OBVIOUS
<1>1. Drawn = {}
  BY DEF Init, Drawn
<1>2. Cardinality(Jobs) \in Nat /\ Cardinality(Drawn) \in Nat
  BY DrawnFacts
<1>3. TypeOK
  <2>1. gen \in 1..(Cardinality(Jobs) + 1)
    BY <1>2 DEF Init
  <2>2. tries \in [Jobs -> 0..MaxTries]
    BY LimiterAssumption DEF Init
  <2>3. /\ name \in [Jobs -> Names \cup {0}]
        /\ member \in [Jobs -> Names \cup {0}]
    BY DEF Init
  <2>4. at \in [Jobs -> {"new", "draw", "make", "caps", "clone", "apply", "run", "kill",
                         "remove", "gone"}]
    BY DEF Init
  <2>5. child \in [Jobs -> Live \cup {"none", "dead"}]
    BY DEF Init
  <2>6. hitBy \in [Jobs -> SUBSET Jobs] /\ failed \in [Jobs -> SUBSET Faults]
    BY DEF Init
  <2>7. dirs \in SUBSET Names /\ caps \in SUBSET dirs /\ raced \in BOOLEAN
    BY DEF Init
  <2>. QED  BY <2>1, <2>2, <2>3, <2>4, <2>5, <2>6, <2>7 DEF TypeOK
<1>4. CountShape
  BY <1>2 DEF Init, CountShape
<1>5. Responsible /\ PrivateShape
  BY <1>1 DEF Init, Responsible, PrivateShape, Holding
<1>6. \A k \in Jobs : ChildShape(k)
  BY LimiterAssumption DEF Init, ChildShape, Live
<1>. QED  BY <1>3, <1>4, <1>5, <1>6 DEF LimiterInv

\* ... and every step keeps it.
LEMMA LimiterNext == LimiterInv /\ [Next]_vars => LimiterInv'
<1> SUFFICES ASSUME LimiterInv, [Next]_vars PROVE LimiterInv'
  OBVIOUS
<1>1. ASSUME NEW j \in Jobs, Step(j) PROVE LimiterInv'
  <2>1. TypeOK' /\ Responsible'
    BY <1>1, TypeNext, ResponsibleNext
  <2>2. CountShape' /\ \A k \in Jobs : ChildShape(k)'
    BY <1>1, CountNext, ChildNext DEF LimiterInv
  <2>3. raced' \/ PrivateShape'
    <3>1. CASE raced
      BY <1>1, <3>1 DEF Step, loadIndex, storeIndex, makeDirectory, writeCaps, clone,
           applyToPid, childEnds, reap, killMembers, removeDirectory
    <3>2. CASE ~raced
      BY <1>1, <3>2, PrivateNext
    <3>. QED  BY <3>1, <3>2
  <2>. QED  BY <2>1, <2>2, <2>3 DEF LimiterInv
<1>2. CASE UNCHANGED vars
  BY <1>2 DEF vars, LimiterInv, TypeOK, CountShape, Responsible, ChildShape, PrivateShape,
              Drawn, Made, Written, Joined
<1>. QED  BY <1>1, <1>2 DEF Next, terminated

\* The variables keep their types; the generator is not advanced past the jobs' number.
THEOREM LimiterTypeCorrect == Spec => []TypeOK
<1>1. LimiterInv => TypeOK  BY DEF LimiterInv
<1>. QED  BY <1>1, LimiterInit, LimiterNext, PTL DEF Spec

\* Without two draws at the same moment the limiters are separate, however many there are,
\* however their constructors, children and destructors interleave and whatever fails.
THEOREM LimitersSeparate == Spec => []SeparateUnlessRaced
<1>1. LimiterInv => SeparateUnlessRaced
  <2> SUFFICES ASSUME LimiterInv, ~raced, NEW j \in Jobs
               PROVE  /\ hitBy[j] = {}
                      /\ member[j] # 0 => \A k \in Jobs \ {j} : member[k] # member[j]
                      /\ at[j] = "run" /\ child[j] \in Live =>
                            /\ failed[j] \cap {"directory", "attach"} = {} => member[j] = name[j]
                            /\ failed[j] \cap {"directory", "caps"} = {} => name[j] \in caps
    BY DEF SeparateUnlessRaced
  <2>1. PrivateShape /\ \A k \in Jobs : ChildShape(k)
    BY DEF LimiterInv
  <2>2. hitBy[j] = {}
    BY <2>1 DEF PrivateShape
  <2>3. ASSUME member[j] # 0, NEW k \in Jobs \ {j} PROVE member[k] # member[j]
    <3>1. member[j] = name[j]  BY <2>1, <2>3 DEF ChildShape
    <3>2. name[k] # name[j]  BY <2>1, <2>3, <3>1 DEF PrivateShape
    <3>. QED  BY <2>1, <2>3, <3>1, <3>2 DEF ChildShape
  <2>4. ASSUME at[j] = "run", child[j] \in Live
        PROVE  /\ failed[j] \cap {"directory", "attach"} = {} => member[j] = name[j]
               /\ failed[j] \cap {"directory", "caps"} = {} => name[j] \in caps
    BY <2>1, <2>4 DEF PrivateShape, Holding, Made, Written, Joined
  <2>. QED  BY <2>2, <2>3, <2>4
<1>. QED  BY <1>1, LimiterInit, LimiterNext, PTL DEF Spec

\* No directory outlives the last limiter, raced or not, with any number of attempts.
THEOREM DirectoriesRemoved == Spec => []NoDirectoryLeft
<1>1. LimiterInv => NoDirectoryLeft
  BY DEF LimiterInv, Responsible, Holding, NoDirectoryLeft
<1>. QED  BY <1>1, LimiterInit, LimiterNext, PTL DEF Spec

==============================================================================
