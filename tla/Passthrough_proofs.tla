------------------------ MODULE Passthrough_proofs ------------------------
(***************************************************************************)
(* For all names, objects, places, texts and attributes, and every number  *)
(* of open directories: through the mount the tree behaves as a plain      *)
(* directory, and a reader of a directory is given what stays in it        *)
(* exactly once.                                                           *)
(*                                                                         *)
(* The plain directory is the part of the file system below that the paths *)
(* with the prefix lead to.  It determines every call on such a path,      *)
(* because the names outside lead to an object of their own, which is      *)
(* neither free nor swept.                                                 *)
(***************************************************************************)
EXTENDS Passthrough, Induction_proofs, FiniteSetTheorems

MountPaths == {makePath(n) : n \in Names}
AllPaths   == {ROOT_PATH, Outside} \X Names

(* The part of a state of the file system below that the mount shows. *)
View(s) == [names |-> [p \in MountPaths |-> s.names[p]], obj |-> [i \in Inodes |-> s.obj[i]]]

(* The file system below is a function of its paths and objects, ... *)
Shaped(s) ==
  /\ s = [names |-> s.names, obj |-> s.obj]
  /\ s.names = [p \in AllPaths |-> s.names[p]]
  /\ s.obj = [i \in Inodes \union {OutsideIno} |-> s.obj[i]]

(* ... in which the names outside have their object and the mount's names have others. *)
Apart(s) ==
  /\ \A n \in Names : s.names[<<Outside, n>>].ino = OutsideIno
  /\ s.obj[OutsideIno] # Sys!NoObject
  /\ \A p \in MountPaths : s.names[p] = Sys!NoEntry \/ s.names[p].ino \in Inodes

Below(s) == Shaped(s) /\ Apart(s)

-----------------------------------------------------------------------------
(* The parts of a call *)

(* Objects inside have numbers from 1 on, and the one outside has a larger number. *)
LEMMA InodeNumbers == 0 \notin Inodes /\ OutsideIno \notin Inodes /\ OutsideIno # 0
<1>1. Cardinality(Inodes) \in Nat
  BY InodesAssumption, FS_CardinalityType
<1> QED BY <1>1, InodesAssumption DEF OutsideIno

LEMMA PathsApart ==
  /\ MountPaths \subseteq AllPaths
  /\ \A n \in Names : <<Outside, n>> \in AllPaths /\ <<Outside, n>> \notin MountPaths
  /\ \A p \in AllPaths : p \in MountPaths \/ \E n \in Names : p = <<Outside, n>>
  /\ \A p \in MountPaths : p[1] = ROOT_PATH
  /\ ROOT_PATH # Outside
BY DEF MountPaths, AllPaths, makePath, ROOT_PATH, Outside

LEMMA SameConstants ==
  Sys!NoEntry = Plain!NoEntry /\ Sys!NoObject = Plain!NoObject /\ Sys!Ok = Plain!Ok /\ Sys!NoEntry.ino = 0
BY DEF Sys!NoEntry, Plain!NoEntry, Sys!NoObject, Plain!NoObject, Sys!Ok, Plain!Ok, Sys!Reply, Plain!Reply

LEMMA SameErrors == \A e : Sys!Error(e) = Plain!Error(e)
BY DEF Sys!Error, Plain!Error, Sys!Reply, Plain!Reply

LEMMA SameCardinality == \A S : Sys!Cardinality(S) = Plain!Cardinality(S)
BY DEF Sys!Cardinality, Plain!Cardinality

(* An entry, its object and the links to it look the same through the mount. *)
LEMMA ViewOfEntry ==
  ASSUME NEW s, Below(s), NEW p \in MountPaths
  PROVE  /\ View(s).names[p] = s.names[p]
         /\ Sys!Exists(s, p) <=> Plain!Exists(View(s), p)
         /\ Sys!Exists(s, p) => s.names[p].ino \in Inodes /\ Sys!Object(s, p) = Plain!Object(View(s), p)
BY SameConstants DEF Below, Apart, View, Sys!Exists, Plain!Exists, Sys!Object, Plain!Object

LEMMA ViewOfLinks ==
  ASSUME NEW s, Below(s), NEW i \in Inodes
  PROVE  Sys!Links(s, i) = Plain!Links(View(s), i)
<1>1. DOMAIN s.names = AllPaths
  BY DEF Below, Shaped
<1>2. DOMAIN View(s).names = MountPaths /\ \A p \in MountPaths : View(s).names[p] = s.names[p]
  BY DEF View
<1>3. \A p \in AllPaths : s.names[p].ino = i => p \in MountPaths
  BY InodeNumbers, PathsApart DEF Below, Apart
<1> QED BY <1>1, <1>2, <1>3, PathsApart DEF Sys!Links, Plain!Links

LEMMA ViewOfFreeIds ==
  ASSUME NEW s, Below(s)
  PROVE  Sys!FreeIds(s) = Plain!FreeIds(View(s)) /\ Sys!FreeIds(s) \subseteq Inodes
<1>1. DOMAIN s.obj = Inodes \union {OutsideIno} /\ s.obj[OutsideIno] # Sys!NoObject
  BY DEF Below, Shaped, Apart
<1>2. DOMAIN View(s).obj = Inodes /\ \A i \in Inodes : View(s).obj[i] = s.obj[i]
  BY DEF View
<1> QED BY <1>1, <1>2, SameConstants DEF Sys!FreeIds, Plain!FreeIds

LEMMA ViewOfPlaces ==
  ASSUME NEW s, Below(s), NEW p \in MountPaths
  PROVE  Sys!FreePlaces(s, p) = Plain!FreePlaces(View(s), p)
<1>1. DOMAIN s.names = AllPaths
  BY DEF Below, Shaped
<1>2. DOMAIN View(s).names = MountPaths /\ \A q \in MountPaths : View(s).names[q] = s.names[q]
  BY DEF View
<1>3. {r \in DOMAIN s.names : r[1] = p[1]} = MountPaths
  BY <1>1, PathsApart
<1>4. {r \in DOMAIN View(s).names : r[1] = p[1]} = MountPaths
  BY <1>2, PathsApart
<1> QED BY <1>2, <1>3, <1>4 DEF Sys!FreePlaces, Plain!FreePlaces

(* A state of a directory with one part changed. *)
LEMMA NewParts ==
  ASSUME NEW N, NEW O, NEW p, NEW e
  PROVE  LET s == [names |-> N, obj |-> O]
         IN /\ [s EXCEPT !.names[p] = e] = [names |-> [N EXCEPT ![p] = e], obj |-> O]
            /\ [s EXCEPT !.obj[p] = e] = [names |-> N, obj |-> [O EXCEPT ![p] = e]]
            /\ [s EXCEPT !.obj = e] = [names |-> N, obj |-> e]
            /\ s.names = N /\ s.obj = O
OBVIOUS

(* A change of an entry of the mount, and of an object inside. *)
LEMMA ViewOfNewEntry ==
  ASSUME NEW s, Below(s), NEW p \in MountPaths, NEW e, e = Sys!NoEntry \/ e.ino \in Inodes
  PROVE  /\ Below([s EXCEPT !.names[p] = e])
         /\ View([s EXCEPT !.names[p] = e]) = [View(s) EXCEPT !.names[p] = e]
<1> DEFINE t == [s EXCEPT !.names[p] = e]
<1>1. t = [names |-> [s.names EXCEPT ![p] = e], obj |-> s.obj]
  BY DEF Below, Shaped
<1>2. t.names = [s.names EXCEPT ![p] = e] /\ t.obj = s.obj
  BY <1>1
<1>3. t = [names |-> t.names, obj |-> t.obj]
  BY <1>1, <1>2
<1> HIDE DEF t
<1>4. t.names = [q \in AllPaths |-> IF q = p THEN e ELSE s.names[q]]
  BY <1>2 DEF Below, Shaped
<1>5. Shaped(t)
  BY <1>2, <1>3, <1>4 DEF Below, Shaped
<1>6. Apart(t)
  BY <1>2, <1>4, PathsApart DEF Below, Apart
<1> DEFINE N == [q \in MountPaths |-> s.names[q]]
           O == [i \in Inodes |-> s.obj[i]]
<1>7. View(t) = [names |-> [N EXCEPT ![p] = e], obj |-> O]
  BY <1>2, <1>4, PathsApart DEF View
<1>8. View(s) = [names |-> N, obj |-> O]
  BY DEF View
<1> HIDE DEF N, O
<1>9. View(t) = [View(s) EXCEPT !.names[p] = e]
  BY <1>7, <1>8, NewParts
<1> QED BY <1>5, <1>6, <1>9 DEF Below, t

LEMMA ViewOfNoEntry ==
  ASSUME NEW s, Below(s), NEW p \in MountPaths
  PROVE  /\ Below([s EXCEPT !.names[p] = Sys!NoEntry])
         /\ View([s EXCEPT !.names[p] = Sys!NoEntry]) = [View(s) EXCEPT !.names[p] = Plain!NoEntry]
BY ViewOfNewEntry, SameConstants

LEMMA ViewOfNewObject ==
  ASSUME NEW s, Below(s), NEW i \in Inodes, NEW o
  PROVE  /\ Below([s EXCEPT !.obj[i] = o])
         /\ View([s EXCEPT !.obj[i] = o]) = [View(s) EXCEPT !.obj[i] = o]
<1> DEFINE t == [s EXCEPT !.obj[i] = o]
<1>1. t = [names |-> s.names, obj |-> [s.obj EXCEPT ![i] = o]]
  BY DEF Below, Shaped
<1>2. t.names = s.names /\ t.obj = [s.obj EXCEPT ![i] = o]
  BY <1>1
<1>3. t = [names |-> t.names, obj |-> t.obj]
  BY <1>1, <1>2
<1> HIDE DEF t
<1>4. t.obj = [j \in Inodes \union {OutsideIno} |-> IF j = i THEN o ELSE s.obj[j]]
  BY <1>2 DEF Below, Shaped
<1>5. Shaped(t)
  BY <1>2, <1>3, <1>4 DEF Below, Shaped
<1>6. Apart(t)
  BY <1>2, <1>4, InodeNumbers DEF Below, Apart
<1> DEFINE N == [q \in MountPaths |-> s.names[q]]
           O == [j \in Inodes |-> s.obj[j]]
<1>7. View(t) = [names |-> N, obj |-> [O EXCEPT ![i] = o]]
  BY <1>2, <1>4 DEF View
<1>8. View(s) = [names |-> N, obj |-> O]
  BY DEF View
<1> HIDE DEF N, O
<1>9. View(t) = [View(s) EXCEPT !.obj[i] = o]
  BY <1>7, <1>8, NewParts
<1> QED BY <1>5, <1>6, <1>9 DEF Below, t

(* Objects without a name go; the one outside keeps its names. *)
LEMMA ViewOfSwept ==
  ASSUME NEW s, Below(s), Names # {}
  PROVE  Below(Sys!Swept(s)) /\ View(Sys!Swept(s)) = Plain!Swept(View(s))
<1> DEFINE t == Sys!Swept(s)
           new(i) == IF Sys!Links(s, i) = {} THEN Sys!NoObject ELSE s.obj[i]
<1>1. DOMAIN s.obj = Inodes \union {OutsideIno} /\ DOMAIN s.names = AllPaths
  BY DEF Below, Shaped
<1>2. t = [names |-> s.names, obj |-> [i \in Inodes \union {OutsideIno} |-> new(i)]]
  BY <1>1 DEF Below, Shaped, Sys!Swept
<1>3. t.names = s.names /\ t.obj = [i \in Inodes \union {OutsideIno} |-> new(i)]
  BY <1>2
<1>4. t = [names |-> t.names, obj |-> t.obj]
  BY <1>2, <1>3
<1>5. Sys!Links(s, OutsideIno) # {}
  BY <1>1, PathsApart DEF Below, Apart, Sys!Links
<1>6. t.obj[OutsideIno] = s.obj[OutsideIno]
  BY <1>3, <1>5
<1> HIDE DEF t, new
<1>7. Shaped(t)
  BY <1>3, <1>4 DEF Below, Shaped
<1>8. Apart(t)
  BY <1>3, <1>6 DEF Below, Apart
<1>9. View(t) = [names |-> View(s).names, obj |-> [i \in Inodes |-> new(i)]]
  BY <1>3 DEF View
<1>10. \A i \in Inodes : new(i) = IF Plain!Links(View(s), i) = {} THEN Plain!NoObject ELSE View(s).obj[i]
  BY ViewOfLinks, SameConstants DEF new, View
<1>11. DOMAIN View(s).obj = Inodes
  BY DEF View
<1> DEFINE N == [q \in MountPaths |-> s.names[q]]
           O == [j \in Inodes |-> s.obj[j]]
           P == [i \in Inodes |-> IF Plain!Links(View(s), i) = {} THEN Plain!NoObject ELSE View(s).obj[i]]
<1>12. P = [i \in Inodes |-> new(i)]
  BY <1>10
<1>13. Plain!Swept(View(s)) = [View(s) EXCEPT !.obj = P]
  BY <1>11 DEF Plain!Swept
<1>14. View(s) = [names |-> N, obj |-> O]
  BY DEF View
<1> HIDE DEF P, N, O
<1>15. Plain!Swept(View(s)) = [names |-> View(s).names, obj |-> [i \in Inodes |-> new(i)]]
  BY <1>12, <1>13, <1>14, NewParts
<1> QED BY <1>7, <1>8, <1>9, <1>15 DEF Below, t

-----------------------------------------------------------------------------
(* The calls *)

(* Every outcome below is, seen through the mount, an outcome of the plain directory. *)
Shows(S, P) == \A r \in S : Below(r.s) /\ \E q \in P : q.res = r.res /\ q.s = View(r.s)

LEMMA ShowsSame ==
  ASSUME NEW s, Below(s), NEW res
  PROVE  Shows(Sys!Same(s, res), Plain!Same(View(s), res))
BY DEF Shows, Sys!Same, Plain!Same

LEMMA ShowsEnter ==
  ASSUME NEW s, Below(s), NEW p \in MountPaths, NEW i \in Inodes
  PROVE  Shows(Sys!Enter(s, p, i), Plain!Enter(View(s), p, i))
<1> SUFFICES ASSUME NEW r \in Sys!Enter(s, p, i)
             PROVE  Below(r.s) /\ \E q \in Plain!Enter(View(s), p, i) : q.res = r.res /\ q.s = View(r.s)
  BY DEF Shows
<1> DEFINE e(k) == [ino |-> i, place |-> k]
           t(k) == [s EXCEPT !.names[p] = e(k)]
           u(k) == [View(s) EXCEPT !.names[p] = e(k)]
<1>1. PICK k \in Sys!FreePlaces(s, p) : r = [res |-> Sys!Ok, s |-> t(k)]
  BY DEF Sys!Enter
<1>2. Plain!Enter(View(s), p, i) = {[res |-> Plain!Ok, s |-> u(j)] : j \in Plain!FreePlaces(View(s), p)}
  BY DEF Plain!Enter
<1>3. Below(t(k)) /\ View(t(k)) = u(k)
  BY ViewOfNewEntry
<1> HIDE DEF t, u
<1>4. [res |-> Plain!Ok, s |-> u(k)] \in Plain!Enter(View(s), p, i)
  BY <1>2, ViewOfPlaces
<1> QED BY <1>1, <1>3, <1>4, SameConstants

LEMMA ShowsMake ==
  ASSUME NEW s, Below(s), NEW p \in MountPaths, NEW object
  PROVE  Shows(Sys!Make(s, p, object), Plain!Make(View(s), p, object))
<1>1. CASE Sys!Exists(s, p)
  BY <1>1, ViewOfEntry, ShowsSame, SameErrors DEF Sys!Make, Plain!Make
<1>2. CASE ~Sys!Exists(s, p) /\ Sys!FreeIds(s) = {}
  BY <1>2, ViewOfEntry, ViewOfFreeIds, ShowsSame, SameErrors DEF Sys!Make, Plain!Make
<1>3. CASE ~Sys!Exists(s, p) /\ Sys!FreeIds(s) # {}
  <2> DEFINE i == CHOOSE k \in Sys!FreeIds(s) : TRUE
             t == [s EXCEPT !.obj[i] = object]
  <2>1. i \in Inodes
    BY <1>3, ViewOfFreeIds
  <2>2. Sys!Make(s, p, object) = Sys!Enter(t, p, i)
    BY <1>3 DEF Sys!Make
  <2>3. Plain!Make(View(s), p, object) = Plain!Enter([View(s) EXCEPT !.obj[i] = object], p, i)
    BY <1>3, ViewOfEntry, ViewOfFreeIds DEF Plain!Make
  <2> HIDE DEF i
  <2>4. Below(t) /\ View(t) = [View(s) EXCEPT !.obj[i] = object]
    BY <2>1, ViewOfNewObject
  <2> QED BY <2>1, <2>2, <2>3, <2>4, ShowsEnter
<1> QED BY <1>1, <1>2, <1>3

(* Removing an entry, and what the last link to an object takes with it. *)
LEMMA ShowsRemove ==
  ASSUME NEW s, Below(s), NEW p \in MountPaths, NEW res
  PROVE  Shows(Sys!Same(Sys!Swept([s EXCEPT !.names[p] = Sys!NoEntry]), res),
               Plain!Same(Plain!Swept([View(s) EXCEPT !.names[p] = Plain!NoEntry]), res))
<1> DEFINE t == [s EXCEPT !.names[p] = Sys!NoEntry]
<1>1. Below(t) /\ View(t) = [View(s) EXCEPT !.names[p] = Plain!NoEntry]
  BY ViewOfNoEntry
<1> HIDE DEF t
<1>2. Names # {}
  BY DEF MountPaths
<1>3. Below(Sys!Swept(t)) /\ View(Sys!Swept(t)) = Plain!Swept(View(t))
  BY <1>1, <1>2, ViewOfSwept
<1> QED BY <1>1, <1>3, ShowsSame DEF t

LEMMA ShowsRmdir ==
  ASSUME NEW s, Below(s), NEW p \in MountPaths
  PROVE  Shows(Sys!rmdir(s, p), Plain!rmdir(View(s), p))
<1>1. CASE ~Sys!Exists(s, p)
  BY <1>1, ViewOfEntry, ShowsSame, SameErrors DEF Sys!rmdir, Plain!rmdir
<1>2. CASE Sys!Exists(s, p) /\ Sys!Object(s, p).kind # "dir"
  BY <1>2, ViewOfEntry, ShowsSame, SameErrors DEF Sys!rmdir, Plain!rmdir
<1>3. CASE Sys!Exists(s, p) /\ Sys!Object(s, p).kind = "dir"
  BY <1>3, ViewOfEntry, ShowsRemove, SameConstants DEF Sys!rmdir, Plain!rmdir
<1> QED BY <1>1, <1>2, <1>3

LEMMA ShowsLink ==
  ASSUME NEW s, Below(s), NEW p \in MountPaths, NEW q \in MountPaths
  PROVE  Shows(Sys!link(s, p, q), Plain!link(View(s), p, q))
<1>1. CASE ~Sys!Exists(s, p)
  BY <1>1, ViewOfEntry, ShowsSame, SameErrors DEF Sys!link, Plain!link
<1>2. CASE Sys!Exists(s, p) /\ Sys!Exists(s, q)
  BY <1>2, ViewOfEntry, ShowsSame, SameErrors DEF Sys!link, Plain!link
<1>3. CASE Sys!Exists(s, p) /\ ~Sys!Exists(s, q) /\ Sys!Object(s, p).kind = "dir"
  BY <1>3, ViewOfEntry, ShowsSame, SameErrors DEF Sys!link, Plain!link
<1>4. CASE Sys!Exists(s, p) /\ ~Sys!Exists(s, q) /\ Sys!Object(s, p).kind # "dir"
  BY <1>4, ViewOfEntry, ShowsEnter DEF Sys!link, Plain!link
<1> QED BY <1>1, <1>2, <1>3, <1>4

(* The new entry is made first, then the old one goes. *)
LEMMA ShowsMoved ==
  ASSUME NEW s, Below(s), NEW p \in MountPaths, NEW q \in MountPaths, Sys!Exists(s, p), NEW k
  PROVE  LET e    == [ino |-> s.names[p].ino, place |-> k]
             t    == [s EXCEPT !.names = [@ EXCEPT ![q] = e, ![p] = Sys!NoEntry]]
             u    == [View(s) EXCEPT !.names = [@ EXCEPT ![q] = e, ![p] = Plain!NoEntry]]
         IN Below(Sys!Swept(t)) /\ View(Sys!Swept(t)) = Plain!Swept(u)
<1> DEFINE e == [ino |-> s.names[p].ino, place |-> k]
           t == [s EXCEPT !.names = [@ EXCEPT ![q] = e, ![p] = Sys!NoEntry]]
           u == [View(s) EXCEPT !.names = [@ EXCEPT ![q] = e, ![p] = Plain!NoEntry]]
           t1 == [s EXCEPT !.names[q] = e]
<1>1. e.ino \in Inodes
  BY ViewOfEntry
<1>2. Below(t1) /\ View(t1) = [View(s) EXCEPT !.names[q] = e]
  BY <1>1, ViewOfNewEntry
<1>3. /\ Below([t1 EXCEPT !.names[p] = Sys!NoEntry])
      /\ View([t1 EXCEPT !.names[p] = Sys!NoEntry]) = [View(t1) EXCEPT !.names[p] = Plain!NoEntry]
  <2> HIDE DEF t1
  <2> QED BY <1>2, ViewOfNoEntry, Zenon
<1>4. [t1 EXCEPT !.names[p] = Sys!NoEntry] = t
  <2>1. s = [names |-> s.names, obj |-> s.obj]
    BY DEF Below, Shaped
  <2>2. t1 = [names |-> [s.names EXCEPT ![q] = e], obj |-> s.obj]
    BY <2>1
  <2>3. t = [names |-> [[s.names EXCEPT ![q] = e] EXCEPT ![p] = Sys!NoEntry], obj |-> s.obj]
    BY <2>1
  <2> QED BY <2>2, <2>3
<1>5. [[View(s) EXCEPT !.names[q] = e] EXCEPT !.names[p] = Plain!NoEntry] = u
  <2> DEFINE N == [r \in MountPaths |-> s.names[r]]
             O == [i \in Inodes |-> s.obj[i]]
             v == [names |-> N, obj |-> O]
  <2>1. View(s) = v
    BY DEF View
  <2> SUFFICES [[v EXCEPT !.names[q] = e] EXCEPT !.names[p] = Plain!NoEntry]
                 = [v EXCEPT !.names = [@ EXCEPT ![q] = e, ![p] = Plain!NoEntry]]
    BY <2>1
  <2> HIDE DEF N, O
  <2> QED OBVIOUS
<1>6. Below(t) /\ View(t) = u
  BY <1>2, <1>3, <1>4, <1>5
<1> HIDE DEF t, u
<1>7. Names # {}
  BY DEF MountPaths
<1>8. Below(Sys!Swept(t)) /\ View(Sys!Swept(t)) = Plain!Swept(u)
  BY <1>6, <1>7, ViewOfSwept
<1> QED BY <1>8 DEF t, u

LEMMA ShowsRename ==
  ASSUME NEW s, Below(s), NEW p \in MountPaths, NEW q \in MountPaths
  PROVE  Shows(Sys!rename(s, p, q), Plain!rename(View(s), p, q))
<1> DEFINE e(k) == [ino |-> s.names[p].ino, place |-> k]
           t(k) == Sys!Swept([s EXCEPT !.names = [@ EXCEPT ![q] = e(k), ![p] = Sys!NoEntry]])
           u(k) == Plain!Swept([View(s) EXCEPT !.names = [@ EXCEPT ![q] = e(k), ![p] = Plain!NoEntry]])
           v == View(s)
<1>0. /\ v.names[p] = s.names[p] /\ v.names[q] = s.names[q]
      /\ Sys!Exists(s, p) <=> Plain!Exists(v, p)
      /\ Sys!Exists(s, q) <=> Plain!Exists(v, q)
      /\ Sys!Exists(s, p) => Sys!Object(s, p) = Plain!Object(v, p)
      /\ Sys!Exists(s, q) => Sys!Object(s, q) = Plain!Object(v, q)
  BY ViewOfEntry
<1>e. \A k : Sys!Exists(s, p) => Below(t(k)) /\ View(t(k)) = u(k)
  BY ShowsMoved
<1>s. Sys!rename(s, p, q) =
        IF ~Sys!Exists(s, p) THEN Sys!Same(s, Sys!Error("ENOENT"))
        ELSE IF s.names[p].ino = s.names[q].ino THEN Sys!Same(s, Sys!Ok)
        ELSE IF ~Sys!Exists(s, q) THEN {[res |-> Sys!Ok, s |-> t(k)] : k \in Sys!FreePlaces(s, q)}
        ELSE IF Sys!Object(s, p).kind = "dir" /\ Sys!Object(s, q).kind # "dir" THEN Sys!Same(s, Sys!Error("ENOTDIR"))
        ELSE IF Sys!Object(s, p).kind # "dir" /\ Sys!Object(s, q).kind = "dir" THEN Sys!Same(s, Sys!Error("EISDIR"))
        ELSE Sys!Same(t(s.names[q].place), Sys!Ok)
  BY DEF Sys!rename
<1>p. Plain!rename(v, p, q) =
        IF ~Plain!Exists(v, p) THEN Plain!Same(v, Plain!Error("ENOENT"))
        ELSE IF v.names[p].ino = v.names[q].ino THEN Plain!Same(v, Plain!Ok)
        ELSE IF ~Plain!Exists(v, q) THEN {[res |-> Plain!Ok, s |-> u(k)] : k \in Plain!FreePlaces(v, q)}
        ELSE IF Plain!Object(v, p).kind = "dir" /\ Plain!Object(v, q).kind # "dir" THEN Plain!Same(v, Plain!Error("ENOTDIR"))
        ELSE IF Plain!Object(v, p).kind # "dir" /\ Plain!Object(v, q).kind = "dir" THEN Plain!Same(v, Plain!Error("EISDIR"))
        ELSE Plain!Same(u(v.names[q].place), Plain!Ok)
  BY <1>0 DEF Plain!rename
<1> HIDE DEF t, u
<1>1. CASE ~Sys!Exists(s, p)
  BY <1>0, <1>s, <1>p, <1>1, ShowsSame, SameErrors
<1>2. CASE Sys!Exists(s, p) /\ s.names[p].ino = s.names[q].ino
  BY <1>0, <1>s, <1>p, <1>2, ShowsSame, SameConstants
<1>3. CASE Sys!Exists(s, p) /\ s.names[p].ino # s.names[q].ino /\ ~Sys!Exists(s, q)
  <2>1. Sys!rename(s, p, q) = {[res |-> Sys!Ok, s |-> t(k)] : k \in Sys!FreePlaces(s, q)}
    BY <1>3, <1>s
  <2>2. Plain!rename(v, p, q) = {[res |-> Plain!Ok, s |-> u(k)] : k \in Plain!FreePlaces(v, q)}
    BY <1>0, <1>3, <1>p
  <2>3. SUFFICES ASSUME NEW r \in Sys!rename(s, p, q)
                 PROVE  Below(r.s) /\ \E r2 \in Plain!rename(v, p, q) : r2.res = r.res /\ r2.s = View(r.s)
    BY DEF Shows
  <2>4. PICK k \in Sys!FreePlaces(s, q) : r = [res |-> Sys!Ok, s |-> t(k)]
    BY <2>1
  <2>5. [res |-> Plain!Ok, s |-> u(k)] \in Plain!rename(v, p, q)
    BY <2>2, ViewOfPlaces
  <2> HIDE DEF v
  <2> QED BY <2>4, <2>5, <1>e, <1>3, SameConstants
<1>4. CASE Sys!Exists(s, p) /\ s.names[p].ino # s.names[q].ino /\ Sys!Exists(s, q)
  <2>1. CASE Sys!Object(s, p).kind = "dir" /\ Sys!Object(s, q).kind # "dir"
    BY <1>0, <1>s, <1>p, <1>4, <2>1, ShowsSame, SameErrors
  <2>2. CASE Sys!Object(s, p).kind # "dir" /\ Sys!Object(s, q).kind = "dir"
    BY <1>0, <1>s, <1>p, <1>4, <2>2, ShowsSame, SameErrors
  <2>3. CASE ~(Sys!Object(s, p).kind = "dir" /\ Sys!Object(s, q).kind # "dir")
             /\ ~(Sys!Object(s, p).kind # "dir" /\ Sys!Object(s, q).kind = "dir")
    <3>1. Sys!rename(s, p, q) = Sys!Same(t(s.names[q].place), Sys!Ok)
      BY <1>s, <1>4, <2>3
    <3>2. Plain!rename(v, p, q) = Plain!Same(u(s.names[q].place), Plain!Ok)
      BY <1>0, <1>p, <1>4, <2>3
    <3> QED BY <3>1, <3>2, <1>e, <1>4, ShowsSame, SameConstants
  <2> QED BY <2>1, <2>2, <2>3
<1> QED BY <1>1, <1>2, <1>3, <1>4

(* Attributes of an object inside. *)
LEMMA ShowsAttrs ==
  ASSUME NEW s, Below(s), NEW p \in MountPaths, Sys!Exists(s, p), NEW N
  PROVE  LET o == [Sys!Object(s, p) EXCEPT !.attrs = N]
         IN Shows(Sys!Same([s EXCEPT !.obj[s.names[p].ino] = o], Sys!Ok),
                  Plain!Same([View(s) EXCEPT !.obj[View(s).names[p].ino] = o], Plain!Ok))
<1> DEFINE o == [Sys!Object(s, p) EXCEPT !.attrs = N]
           i == s.names[p].ino
           t == [s EXCEPT !.obj[i] = o]
<1>1. i \in Inodes /\ View(s).names[p] = s.names[p]
  BY ViewOfEntry
<1> HIDE DEF i, o
<1>2. Below(t) /\ View(t) = [View(s) EXCEPT !.obj[i] = o]
  BY <1>1, ViewOfNewObject
<1> HIDE DEF t
<1>3. Shows(Sys!Same(t, Sys!Ok), Plain!Same(View(t), Plain!Ok))
  BY <1>2, ShowsSame, SameConstants
<1> QED BY <1>1, <1>2, <1>3 DEF i, o, t

LEMMA ShowsSetxattr ==
  ASSUME NEW s, Below(s), NEW p \in MountPaths, NEW a
  PROVE  /\ Shows(Sys!lsetxattr(s, p, a), Plain!lsetxattr(View(s), p, a))
         /\ Shows(Sys!lremovexattr(s, p, a), Plain!lremovexattr(View(s), p, a))
<1> DEFINE v == View(s)
           i == s.names[p].ino
           N == [q \in MountPaths |-> s.names[q]]
           O == [j \in Inodes |-> s.obj[j]]
           with(x) == [Sys!Object(s, p) EXCEPT !.attrs = x]
<1>0. /\ v.names[p] = s.names[p]
      /\ Sys!Exists(s, p) <=> Plain!Exists(v, p)
      /\ Sys!Exists(s, p) => i \in Inodes /\ Sys!Object(s, p) = Plain!Object(v, p)
  BY ViewOfEntry
<1>1. v = [names |-> N, obj |-> O] /\ DOMAIN O = Inodes /\ v.obj = O
  BY DEF View
<1>2. s = [names |-> s.names, obj |-> s.obj] /\ DOMAIN s.obj = Inodes \union {OutsideIno}
  BY DEF Below, Shaped
<1>3. CASE ~Sys!Exists(s, p)
  BY <1>0, <1>3, ShowsSame, SameErrors DEF Sys!lsetxattr, Plain!lsetxattr, Sys!lremovexattr, Plain!lremovexattr
<1>4. CASE Sys!Exists(s, p)
  <2> DEFINE S(x) == Sys!Same([s EXCEPT !.obj[i] = with(x)], Sys!Ok)
             P(x) == Plain!Same([v EXCEPT !.obj[i] = with(x)], Plain!Ok)
  <2>0. Sys!Object(s, p) = s.obj[i] /\ Sys!Object(s, p) = v.obj[i] /\ Plain!Object(v, p) = v.obj[i]
        /\ i \in DOMAIN s.obj /\ i \in DOMAIN O
    BY <1>0, <1>1, <1>2, <1>4 DEF Sys!Object, Plain!Object
  <2>1. \A x : Shows(S(x), P(x))
    BY <1>0, <1>4, ShowsAttrs
  <2>2. [s EXCEPT !.obj[i].attrs = @ \union {a}] = [s EXCEPT !.obj[i] = with(s.obj[i].attrs \union {a})]
    BY <1>2, <2>0
  <2>3. [v EXCEPT !.obj[i].attrs = @ \union {a}] = [v EXCEPT !.obj[i] = with(s.obj[i].attrs \union {a})]
    BY <1>1, <2>0
  <2>4. [s EXCEPT !.obj[i].attrs = @ \ {a}] = [s EXCEPT !.obj[i] = with(s.obj[i].attrs \ {a})]
    BY <1>2, <2>0
  <2>5. [v EXCEPT !.obj[i].attrs = @ \ {a}] = [v EXCEPT !.obj[i] = with(s.obj[i].attrs \ {a})]
    BY <1>1, <2>0
  <2>6. Sys!lsetxattr(s, p, a) = S(s.obj[i].attrs \union {a})
    BY <1>4, <2>2 DEF Sys!lsetxattr
  <2>7. Plain!lsetxattr(v, p, a) = P(s.obj[i].attrs \union {a})
    BY <1>0, <1>4, <2>3 DEF Plain!lsetxattr
  <2>8. Shows(Sys!lremovexattr(s, p, a), Plain!lremovexattr(v, p, a))
    <3>1. CASE a \notin Sys!Object(s, p).attrs
      BY <1>0, <1>4, <3>1, ShowsSame, SameErrors DEF Sys!lremovexattr, Plain!lremovexattr
    <3>2. CASE a \in Sys!Object(s, p).attrs
      <4>1. Sys!lremovexattr(s, p, a) = S(s.obj[i].attrs \ {a})
        BY <1>4, <3>2, <2>4 DEF Sys!lremovexattr
      <4>2. Plain!lremovexattr(v, p, a) = P(s.obj[i].attrs \ {a})
        BY <1>0, <1>4, <3>2, <2>5 DEF Plain!lremovexattr
      <4> HIDE DEF S, P
      <4> QED BY <2>1, <4>1, <4>2
    <3> QED BY <3>1, <3>2
  <2> HIDE DEF S, P
  <2> QED BY <2>1, <2>6, <2>7, <2>8
<1> QED BY <1>3, <1>4

(* Calls that only ask. *)
Asks(S, P, s) == Shows(S, P) /\ \A r \in S : r.s = s

LEMMA AsksSame ==
  ASSUME NEW s, Below(s), NEW res
  PROVE  Asks(Sys!Same(s, res), Plain!Same(View(s), res), s)
BY ShowsSame DEF Asks, Sys!Same

LEMMA BufferIsLongest == BufSize - 1 = Plain!Longest
<1> DEFINE T == {t + 1 : t \in Targets}
<1>1. PICK m \in Targets : \A u \in Targets : u <= m
  BY TargetsAssumption
<1>2. Targets \subseteq Nat
  BY TargetsAssumption
<1>3. Plain!Longest \in Targets /\ \A u \in Targets : u <= Plain!Longest
  BY <1>1 DEF Plain!Longest
<1>4. Plain!Longest = m
  BY <1>1, <1>2, <1>3
<1>5. m + 1 \in T /\ \A t \in Targets : t < m + 1
  BY <1>1, <1>2
<1>6. BufSize \in T /\ \A t \in Targets : t < BufSize
  BY <1>5 DEF BufSize
<1>7. PICK t \in Targets : BufSize = t + 1
  BY <1>6
<1>8. t = m
  BY <1>1, <1>2, <1>6, <1>7
<1> QED BY <1>2, <1>4, <1>7, <1>8

LEMMA AsksAll ==
  ASSUME NEW s, Below(s), NEW p \in MountPaths
  PROVE  /\ Asks(Sys!lstat(s, p), Plain!lstat(View(s), p), s)
         /\ Asks(Sys!access(s, p), Plain!access(View(s), p), s)
         /\ Asks(Sys!readlink(s, p, BufSize - 1), Plain!readlink(View(s), p, Plain!Longest), s)
         /\ Asks(Sys!llistxattr(s, p), Plain!llistxattr(View(s), p), s)
         /\ \A a : Asks(Sys!lgetxattr(s, p, a), Plain!lgetxattr(View(s), p, a), s)
<1> DEFINE v == View(s)
<1>0. /\ v.names[p] = s.names[p]
      /\ Sys!Exists(s, p) <=> Plain!Exists(v, p)
      /\ Sys!Exists(s, p) => /\ s.names[p].ino \in Inodes
                             /\ Sys!Object(s, p) = Plain!Object(v, p)
  BY ViewOfEntry
<1>1. Sys!Exists(s, p) => Sys!Links(s, s.names[p].ino) = Plain!Links(v, v.names[p].ino)
  BY <1>0, ViewOfLinks
<1> HIDE DEF v
<1>2. \A e, k, n, A : Sys!Reply(e, k, n, A) = Plain!Reply(e, k, n, A)
  BY DEF Sys!Reply, Plain!Reply
<1>3. \A res : Asks(Sys!Same(s, res), Plain!Same(v, res), s)
  BY AsksSame DEF v
<1>4. Asks(Sys!lstat(s, p), Plain!lstat(v, p), s)
  BY <1>0, <1>1, <1>2, <1>3, SameErrors, SameCardinality DEF Sys!lstat, Plain!lstat
<1>5. Asks(Sys!access(s, p), Plain!access(v, p), s)
  BY <1>0, <1>3, SameErrors, SameConstants DEF Sys!access, Plain!access
<1>6. Asks(Sys!readlink(s, p, BufSize - 1), Plain!readlink(v, p, Plain!Longest), s)
  BY <1>0, <1>2, <1>3, SameErrors, BufferIsLongest DEF Sys!readlink, Plain!readlink
<1>7. Asks(Sys!llistxattr(s, p), Plain!llistxattr(v, p), s)
  BY <1>0, <1>2, <1>3, SameErrors DEF Sys!llistxattr, Plain!llistxattr
<1>8. ASSUME NEW a PROVE Asks(Sys!lgetxattr(s, p, a), Plain!lgetxattr(v, p, a), s)
  BY <1>0, <1>2, <1>3, SameErrors DEF Sys!lgetxattr, Plain!lgetxattr
<1> QED BY <1>4, <1>5, <1>6, <1>7, <1>8 DEF v

-----------------------------------------------------------------------------
(* The steps *)

(* The step to t with answer y is the outcome r of a call. *)
LEMMA CallDoes ==
  ASSUME NEW S, NEW P, Shows(S, P), NEW r \in S
  PROVE  Below(r.s) /\ \E q \in P : q.res = r.res /\ q.s = View(r.s)
BY DEF Shows

LEMMA CallAsks ==
  ASSUME NEW S, NEW P, NEW s, Asks(S, P, s), NEW r \in S
  PROVE  Below(r.s) /\ r.s = s /\ \E q \in P : q.res = r.res /\ q.s = View(r.s)
BY DEF Asks, Shows

LEMMA MountInit == PtInit => Below(under) /\ Plain!PlainInit
<1> SUFFICES ASSUME PtInit PROVE Below(under) /\ Plain!PlainInit
  OBVIOUS
<1>1. under.names = [p \in AllPaths |-> IF p[1] = Outside THEN [ino |-> OutsideIno, place |-> p[2]] ELSE Sys!NoEntry]
  BY DEF PtInit, AllPaths
<1>2. under.obj = [i \in Inodes \union {OutsideIno} |->
                     IF i = OutsideIno THEN [Sys!NoObject EXCEPT !.kind = "file"] ELSE Sys!NoObject]
  BY DEF PtInit
<1>3. under = [names |-> under.names, obj |-> under.obj]
  BY DEF PtInit
<1>4. [Sys!NoObject EXCEPT !.kind = "file"] # Sys!NoObject
  BY DEF Sys!NoObject
<1>5. \A n \in Names : under.names[<<Outside, n>>].ino = OutsideIno
  BY <1>1 DEF AllPaths
<1>6. \A p \in MountPaths : under.names[p] = Sys!NoEntry
  BY <1>1, PathsApart
<1>7. Below(under)
  BY <1>1, <1>2, <1>3, <1>4, <1>5, <1>6 DEF Below, Shaped, Apart
<1>8. \A i \in Inodes : under.obj[i] = Sys!NoObject
  BY <1>2, InodeNumbers
<1>9. reply = Plain!Ok
  BY SameConstants DEF PtInit
<1> QED BY <1>6, <1>7, <1>8, <1>9, SameConstants DEF Plain!PlainInit, MountPaths

(* Every step of a handler is a step of the plain directory, or leaves it as it is. *)
LEMMA TreeStep ==
  ASSUME Below(under), NEW n \in Names,
         \/ xmp_getattr(n) \/ xmp_access(n) \/ xmp_readlink(n) \/ xmp_listxattr(n)
         \/ \E a \in Attrs : xmp_getxattr(n, a)
  PROVE  Below(under') /\ Plain!PlainNext
<1> DEFINE p == makePath(n)
           v == View(under)
<1>0. p \in MountPaths
  BY DEF MountPaths
<1>1. /\ Asks(Sys!lstat(under, p), Plain!lstat(v, p), under)
      /\ Asks(Sys!access(under, p), Plain!access(v, p), under)
      /\ Asks(Sys!readlink(under, p, BufSize - 1), Plain!readlink(v, p, Plain!Longest), under)
      /\ Asks(Sys!llistxattr(under, p), Plain!llistxattr(v, p), under)
      /\ \A a : Asks(Sys!lgetxattr(under, p, a), Plain!lgetxattr(v, p, a), under)
  BY <1>0, AsksAll
<1> HIDE DEF p, v
<1>2. CASE xmp_getattr(n)
  <2>1. \E r \in Sys!lstat(under, p) : under' = r.s /\ reply' = r.res
    BY <1>2 DEF xmp_getattr, Call, p
  <2>2. Below(under') /\ under' = under /\ \E q \in Plain!lstat(v, p) : q.res = reply' /\ q.s = View(under')
    BY <1>1, <2>1, CallAsks
  <2>3. Plain!Query(p)
    BY <2>2 DEF Plain!Query, Plain!Does, View, MountPaths, v
  <2> QED BY <1>0, <2>2, <2>3 DEF Plain!PlainNext, MountPaths
<1>3. CASE xmp_access(n)
  <2>1. \E r \in Sys!access(under, p) : under' = r.s /\ reply' = r.res
    BY <1>3 DEF xmp_access, Call, p
  <2>2. Below(under') /\ under' = under /\ \E q \in Plain!access(v, p) : q.res = reply' /\ q.s = View(under')
    BY <1>1, <2>1, CallAsks
  <2>3. Plain!Query(p)
    BY <2>2 DEF Plain!Query, Plain!Does, View, MountPaths, v
  <2> QED BY <1>0, <2>2, <2>3 DEF Plain!PlainNext, MountPaths
<1>4. CASE xmp_readlink(n)
  <2>1. \E r \in Sys!readlink(under, p, BufSize - 1) : under' = r.s /\ reply' = r.res
    BY <1>4 DEF xmp_readlink, Call, p
  <2>2. Below(under') /\ under' = under /\ \E q \in Plain!readlink(v, p, Plain!Longest) : q.res = reply' /\ q.s = View(under')
    BY <1>1, <2>1, CallAsks
  <2>3. Plain!Query(p)
    BY <2>2 DEF Plain!Query, Plain!Does, View, MountPaths, v
  <2> QED BY <1>0, <2>2, <2>3 DEF Plain!PlainNext, MountPaths
<1>5. CASE xmp_listxattr(n)
  <2>1. \E r \in Sys!llistxattr(under, p) : under' = r.s /\ reply' = r.res
    BY <1>5 DEF xmp_listxattr, Call, p
  <2>2. Below(under') /\ under' = under /\ \E q \in Plain!llistxattr(v, p) : q.res = reply' /\ q.s = View(under')
    BY <1>1, <2>1, CallAsks
  <2>3. Plain!Query(p)
    BY <2>2 DEF Plain!Query, Plain!Does, View, MountPaths, v
  <2> QED BY <1>0, <2>2, <2>3 DEF Plain!PlainNext, MountPaths
<1>6. CASE \E a \in Attrs : xmp_getxattr(n, a)
  <2>0. PICK a \in Attrs : xmp_getxattr(n, a)
    BY <1>6
  <2>1. \E r \in Sys!lgetxattr(under, p, a) : under' = r.s /\ reply' = r.res
    BY <2>0 DEF xmp_getxattr, Call, p
  <2>2. Below(under') /\ under' = under /\ \E q \in Plain!lgetxattr(v, p, a) : q.res = reply' /\ q.s = View(under')
    BY <1>1, <2>1, CallAsks
  <2>3. Plain!Query(p)
    BY <2>2 DEF Plain!Query, Plain!Does, View, MountPaths, v
  <2> QED BY <1>0, <2>2, <2>3 DEF Plain!PlainNext, MountPaths
<1> QED BY <1>2, <1>3, <1>4, <1>5, <1>6

LEMMA ChangeStep ==
  ASSUME Below(under), NEW n \in Names,
         \/ xmp_mkdir(n) \/ xmp_rmdir(n)
         \/ \E kind \in {"file", "fifo"} : xmp_mknod(n, kind)
         \/ \E from \in Targets : xmp_symlink(from, n)
         \/ \E a \in Attrs : xmp_setxattr(n, a)
         \/ \E a \in Attrs : xmp_removexattr(n, a)
  PROVE  Below(under') /\ Plain!PlainNext
<1> DEFINE p == makePath(n)
           v == View(under)
<1>0. p \in MountPaths
  BY DEF MountPaths
<1> HIDE DEF p, v
<1>2. CASE xmp_mkdir(n)
  <2>1. \E r \in Sys!mkdir(under, p) : under' = r.s /\ reply' = r.res
    BY <1>2 DEF xmp_mkdir, Call, p
  <2>2. Shows(Sys!mkdir(under, p), Plain!mkdir(v, p))
    BY <1>0, ShowsMake DEF v, Sys!mkdir, Plain!mkdir, Sys!NoObject, Plain!NoObject
  <2>3. Below(under') /\ \E q \in Plain!mkdir(v, p) : q.res = reply' /\ q.s = View(under')
    BY <2>1, <2>2, CallDoes
  <2>4. Plain!Change(p)
    BY <2>3 DEF Plain!Change, Plain!Does, View, MountPaths, v
  <2> QED BY <1>0, <2>3, <2>4 DEF Plain!PlainNext, MountPaths
<1>3. CASE xmp_rmdir(n)
  <2>1. \E r \in Sys!rmdir(under, p) : under' = r.s /\ reply' = r.res
    BY <1>3 DEF xmp_rmdir, Call, p
  <2>2. Shows(Sys!rmdir(under, p), Plain!rmdir(v, p))
    BY <1>0, ShowsRmdir DEF v
  <2>3. Below(under') /\ \E q \in Plain!rmdir(v, p) : q.res = reply' /\ q.s = View(under')
    BY <2>1, <2>2, CallDoes
  <2>4. Plain!Change(p)
    BY <2>3 DEF Plain!Change, Plain!Does, View, MountPaths, v
  <2> QED BY <1>0, <2>3, <2>4 DEF Plain!PlainNext, MountPaths
<1>4. CASE \E kind \in {"file", "fifo"} : xmp_mknod(n, kind)
  <2>0. PICK kind \in {"file", "fifo"} : xmp_mknod(n, kind)
    BY <1>4
  <2>1. \E r \in Sys!mknod(under, p, kind) : under' = r.s /\ reply' = r.res
    BY <2>0 DEF xmp_mknod, Call, p
  <2>2. Shows(Sys!mknod(under, p, kind), Plain!mknod(v, p, kind))
    BY <1>0, ShowsMake DEF v, Sys!mknod, Plain!mknod, Sys!NoObject, Plain!NoObject
  <2>3. Below(under') /\ \E q \in Plain!mknod(v, p, kind) : q.res = reply' /\ q.s = View(under')
    BY <2>1, <2>2, CallDoes
  <2>4. Plain!Change(p)
    BY <2>3 DEF Plain!Change, Plain!Does, View, MountPaths, v
  <2> QED BY <1>0, <2>3, <2>4 DEF Plain!PlainNext, MountPaths
<1>5. CASE \E from \in Targets : xmp_symlink(from, n)
  <2>0. PICK from \in Targets : xmp_symlink(from, n)
    BY <1>5
  <2>1. \E r \in Sys!symlink(under, from, p) : under' = r.s /\ reply' = r.res
    BY <2>0 DEF xmp_symlink, Call, p
  <2>2. Shows(Sys!symlink(under, from, p), Plain!symlink(v, from, p))
    BY <1>0, ShowsMake DEF v, Sys!symlink, Plain!symlink, Sys!NoObject, Plain!NoObject
  <2>3. Below(under') /\ \E q \in Plain!symlink(v, from, p) : q.res = reply' /\ q.s = View(under')
    BY <2>1, <2>2, CallDoes
  <2>4. Plain!Change(p)
    BY <2>3 DEF Plain!Change, Plain!Does, View, MountPaths, v
  <2> QED BY <1>0, <2>3, <2>4 DEF Plain!PlainNext, MountPaths
<1>6. CASE \E a \in Attrs : xmp_setxattr(n, a)
  <2>0. PICK a \in Attrs : xmp_setxattr(n, a)
    BY <1>6
  <2>1. \E r \in Sys!lsetxattr(under, p, a) : under' = r.s /\ reply' = r.res
    BY <2>0 DEF xmp_setxattr, Call, p
  <2>2. Shows(Sys!lsetxattr(under, p, a), Plain!lsetxattr(v, p, a))
    BY <1>0, ShowsSetxattr DEF v
  <2>3. Below(under') /\ \E q \in Plain!lsetxattr(v, p, a) : q.res = reply' /\ q.s = View(under')
    BY <2>1, <2>2, CallDoes
  <2>4. Plain!Change(p)
    BY <2>3 DEF Plain!Change, Plain!Does, View, MountPaths, v
  <2> QED BY <1>0, <2>3, <2>4 DEF Plain!PlainNext, MountPaths
<1>7. CASE \E a \in Attrs : xmp_removexattr(n, a)
  <2>0. PICK a \in Attrs : xmp_removexattr(n, a)
    BY <1>7
  <2>1. \E r \in Sys!lremovexattr(under, p, a) : under' = r.s /\ reply' = r.res
    BY <2>0 DEF xmp_removexattr, Call, p
  <2>2. Shows(Sys!lremovexattr(under, p, a), Plain!lremovexattr(v, p, a))
    BY <1>0, ShowsSetxattr DEF v
  <2>3. Below(under') /\ \E q \in Plain!lremovexattr(v, p, a) : q.res = reply' /\ q.s = View(under')
    BY <2>1, <2>2, CallDoes
  <2>4. Plain!Change(p)
    BY <2>3 DEF Plain!Change, Plain!Does, View, MountPaths, v
  <2> QED BY <1>0, <2>3, <2>4 DEF Plain!PlainNext, MountPaths
<1> QED BY <1>2, <1>3, <1>4, <1>5, <1>6, <1>7

LEMMA Change2Step ==
  ASSUME Below(under), NEW n \in Names, NEW to \in Names,
         xmp_link(n, to) \/ \E flags \in BOOLEAN : xmp_rename(n, to, flags)
  PROVE  Below(under') /\ Plain!PlainNext
<1> DEFINE p == makePath(n)
           q == makePath(to)
           v == View(under)
<1>0. p \in MountPaths /\ q \in MountPaths
  BY DEF MountPaths
<1> HIDE DEF p, q, v
<1>1. CASE xmp_link(n, to)
  <2>1. \E r \in Sys!link(under, p, q) : under' = r.s /\ reply' = r.res
    BY <1>1 DEF xmp_link, Call, p, q
  <2>2. Shows(Sys!link(under, p, q), Plain!link(v, p, q))
    BY <1>0, ShowsLink DEF v
  <2>3. Below(under') /\ \E r \in Plain!link(v, p, q) : r.res = reply' /\ r.s = View(under')
    BY <2>1, <2>2, CallDoes
  <2>4. Plain!Change2(p, q)
    BY <2>3 DEF Plain!Change2, Plain!Does, View, MountPaths, v
  <2> QED BY <1>0, <2>3, <2>4 DEF Plain!PlainNext, MountPaths
<1>2. CASE xmp_rename(n, to, FALSE)
  <2>1. \E r \in Sys!rename(under, p, q) : under' = r.s /\ reply' = r.res
    BY <1>2 DEF xmp_rename, Call, p, q
  <2>2. Shows(Sys!rename(under, p, q), Plain!rename(v, p, q))
    BY <1>0, ShowsRename DEF v
  <2>3. Below(under') /\ \E r \in Plain!rename(v, p, q) : r.res = reply' /\ r.s = View(under')
    BY <2>1, <2>2, CallDoes
  <2>4. Plain!Change2(p, q)
    BY <2>3 DEF Plain!Change2, Plain!Does, View, MountPaths, v
  <2> QED BY <1>0, <2>3, <2>4 DEF Plain!PlainNext, MountPaths
<1>3. CASE xmp_rename(n, to, TRUE)
  <2>1. \E r \in Sys!Same(under, Sys!Error("EINVAL")) : under' = r.s /\ reply' = r.res
    BY <1>3 DEF xmp_rename, Call
  <2>2. Shows(Sys!Same(under, Sys!Error("EINVAL")), Plain!Same(v, Plain!Error("EINVAL")))
    BY ShowsSame, SameErrors DEF v
  <2>3. Below(under') /\ \E r \in Plain!Same(v, Plain!Error("EINVAL")) : r.res = reply' /\ r.s = View(under')
    BY <2>1, <2>2, CallDoes
  <2>4. Plain!Lost
    BY <2>3 DEF Plain!Lost, Plain!Does, View, MountPaths, v
  <2> QED BY <2>3, <2>4 DEF Plain!PlainNext
<1> QED BY <1>1, <1>2, <1>3

(* A daemon that dies loses a call and nothing else. *)
LEMMA LostStep ==
  ASSUME Below(under), unimplemented
  PROVE  Below(under') /\ Plain!PlainNext
<1> DEFINE v == View(under)
           e == Plain!Error("ENOTCONN")
<1>1. under' = under /\ reply' = e
  BY SameErrors DEF unimplemented
<1>2. \E r \in Plain!Same(v, e) : reply' = r.res /\ View(under') = r.s
  BY <1>1 DEF Plain!Same
<1>3. Plain!Lost
  BY <1>2 DEF Plain!Lost, Plain!Does, View, MountPaths
<1> QED BY <1>1, <1>3 DEF Plain!PlainNext

(* Every step of a handler is a step of the plain directory, or leaves it as it is. *)
LEMMA MountNext ==
  ASSUME Below(under), [PtNext]_ptVars
  PROVE  Below(under') /\ (Plain!PlainNext \/ UNCHANGED <<under, reply>>)
<1>1. CASE UNCHANGED ptVars
  BY <1>1 DEF ptVars
<1>2. CASE ScanNext
  BY <1>2 DEF ScanNext, xmp_opendir, xmp_releasedir, xmp_readdir, ReadFrom
<1>3. CASE TreeNext(Names)
  <2>1. CASE unimplemented
    BY <2>1, LostStep
  <2>2. CASE ~unimplemented
    <3>1. PICK n \in Names :
            \/ xmp_getattr(n) \/ xmp_access(n) \/ xmp_readlink(n) \/ xmp_mkdir(n) \/ xmp_rmdir(n) \/ xmp_listxattr(n)
            \/ \E kind \in {"file", "fifo"} : xmp_mknod(n, kind)
            \/ \E from \in Targets : xmp_symlink(from, n)
            \/ \E to \in Names : xmp_link(n, to) \/ \E flags \in BOOLEAN : xmp_rename(n, to, flags)
            \/ \E a \in Attrs : xmp_setxattr(n, a) \/ xmp_getxattr(n, a) \/ xmp_removexattr(n, a)
      BY <1>3, <2>2 DEF TreeNext, xmp_chmod, xmp_chown, xmp_truncate, xmp_utimens, xmp_write, xmp_fsync,
                        xmp_fallocate, xmp_flock
    <3>2. CASE \E to \in Names : xmp_link(n, to) \/ \E flags \in BOOLEAN : xmp_rename(n, to, flags)
      BY <3>2, Change2Step
    <3>3. CASE ~\E to \in Names : xmp_link(n, to) \/ \E flags \in BOOLEAN : xmp_rename(n, to, flags)
      BY <3>1, <3>3, TreeStep, ChangeStep
    <3> QED BY <3>2, <3>3
  <2> QED BY <2>1, <2>2
<1> QED BY <1>1, <1>2, <1>3 DEF PtNext

(* Through the mount, the tree behaves as a plain directory in its state and in every   *)
(* answer, whatever calls follow each other and whenever the daemon dies (the handlers  *)
(* xmp_getattr .. xmp_removexattr with their makePath, and those not written yet).      *)
THEOREM TreeIsPlain == PtSpec => MountIsPlain
<1>1. PtInit => Below(under) /\ Plain!PlainInit
  BY MountInit
<1>2. Below(under) /\ [PtNext]_ptVars => Below(under)' /\ (Plain!PlainNext \/ UNCHANGED <<under, reply>>)
  BY MountNext
<1>3. UNCHANGED <<under, reply>>
        => UNCHANGED <<[names |-> [p \in {makePath(n) : n \in Names} |-> under.names[p]],
                        obj |-> [i \in Inodes |-> under.obj[i]]], reply>>
  OBVIOUS
<1> QED BY <1>1, <1>2, <1>3, PTL DEF PtSpec, MountIsPlain, Plain!PlainSpec

-----------------------------------------------------------------------------
(* Reading a directory while it changes *)

(* Entries of the mount have places of their own, none of which is the start. *)
Placed(s) ==
  /\ \A p \in MountPaths : s.names[p] # Sys!NoEntry => s.names[p].place \in Places
  /\ \A p, q \in MountPaths :
       p # q /\ s.names[p] # Sys!NoEntry /\ s.names[q] # Sys!NoEntry => s.names[p].place # s.names[q].place

PlacesIn(s) == [n \in Names |-> s.names[makePath(n)].place]

(* A position: no entry that has stayed lies between it and the entry that was kept. *)
PositionOk(d, stable, place) ==
  /\ d \in [dp : Nat, entry : Names \union {0}, offset : Nat]
  /\ d.entry = 0 => d.dp = d.offset
  /\ d.entry # 0 =>
       /\ d.dp \in Places /\ d.offset < d.dp
       /\ d.entry \in stable => place[d.entry] = d.dp
       /\ \A n \in stable : n # d.entry /\ place[n] > d.offset => place[n] > d.dp

(* What was given: each entry that has stayed once, with its place, up to the offset. *)
GivenOk(listed, off, stable, place) ==
  /\ listed \in [Names \X Places -> Nat] /\ off \in Nat
  /\ \A n \in stable, k \in Places : listed[<<n, k>>] = IF k = place[n] /\ k <= off THEN 1 ELSE 0

Readers == [off : Nat, listed : [Names \X Places -> Nat], stable : SUBSET Names]
ReaderOk(k, d, s) ==
  /\ k \in Readers
  /\ \A n \in k.stable : s.names[makePath(n)] # Sys!NoEntry
  /\ GivenOk(k.listed, k.off, k.stable, PlacesIn(s))
  /\ \A n \in Names \ k.stable, j \in Places : k.listed[<<n, j>>] = 0
  /\ d # Closed => PositionOk(d, k.stable, PlacesIn(s))

ScanInv ==
  /\ Below(under) /\ Placed(under)
  /\ dirp = [h \in DirHandles |-> dirp[h]] /\ scan = [h \in DirHandles |-> scan[h]]
  /\ \A h \in DirHandles : ReaderOk(scan[h], dirp[h], under)

(* Every outcome leaves the entries with places of their own. *)
LEMMA PlacedEntry ==
  ASSUME NEW s, Below(s), Placed(s), NEW p \in MountPaths, NEW e,
         \/ e = Sys!NoEntry
         \/ e.place \in Places /\ \A q \in MountPaths : q # p /\ s.names[q] # Sys!NoEntry => s.names[q].place # e.place
  PROVE  Placed([s EXCEPT !.names[p] = e])
<1> DEFINE t == [s EXCEPT !.names[p] = e]
<1>1. \A q \in MountPaths : t.names[q] = IF q = p THEN e ELSE s.names[q]
  BY PathsApart DEF Below, Shaped
<1> HIDE DEF t
<1>2. Placed(t)
  BY <1>1 DEF Placed
<1> QED BY <1>2 DEF t

LEMMA PlacedEnter ==
  ASSUME NEW s, Below(s), Placed(s), NEW p \in MountPaths, NEW i, NEW r \in Sys!Enter(s, p, i)
  PROVE  Placed(r.s)
<1> DEFINE e(k) == [ino |-> i, place |-> k]
<1>1. PICK k \in Sys!FreePlaces(s, p) : r = [res |-> Sys!Ok, s |-> [s EXCEPT !.names[p] = e(k)]]
  BY DEF Sys!Enter
<1>2. k \in Places /\ \A q \in MountPaths : s.names[q].place # k
  BY PathsApart DEF Sys!FreePlaces, Below, Shaped
<1>3. r.s = [s EXCEPT !.names[p] = e(k)]
  BY <1>1
<1>4. e(k).place = k
  OBVIOUS
<1> HIDE DEF e
<1> QED BY <1>2, <1>3, <1>4, PlacedEntry

LEMMA PlacedMake ==
  ASSUME NEW s, Below(s), Placed(s), NEW p \in MountPaths, NEW object, NEW r \in Sys!Make(s, p, object)
  PROVE  Placed(r.s)
<1>1. CASE Sys!Exists(s, p) \/ Sys!FreeIds(s) = {}
  BY <1>1 DEF Sys!Make, Sys!Same
<1>2. CASE ~Sys!Exists(s, p) /\ Sys!FreeIds(s) # {}
  <2> DEFINE i == CHOOSE k \in Sys!FreeIds(s) : TRUE
             t == [s EXCEPT !.obj[i] = object]
  <2>1. r \in Sys!Enter(t, p, i)
    BY <1>2 DEF Sys!Make
  <2>2. i \in Inodes
    BY <1>2, ViewOfFreeIds
  <2>3. Below(t)
    BY <2>2, ViewOfNewObject
  <2>4. t.names = s.names
    BY DEF Below, Shaped
  <2> HIDE DEF t, i
  <2>5. Placed(t)
    BY <2>4 DEF Placed
  <2> QED BY <2>1, <2>3, <2>5, PlacedEnter
<1> QED BY <1>1, <1>2

LEMMA SweptNames ==
  ASSUME NEW s, Below(s)
  PROVE  Sys!Swept(s).names = s.names
BY DEF Below, Shaped, Sys!Swept

LEMMA PlacedRename ==
  ASSUME NEW s, Below(s), Placed(s), NEW p \in MountPaths, NEW q \in MountPaths, NEW r \in Sys!rename(s, p, q)
  PROVE  Placed(r.s)
<1> DEFINE e(k) == [ino |-> s.names[p].ino, place |-> k]
           t(k) == [s EXCEPT !.names = [@ EXCEPT ![q] = e(k), ![p] = Sys!NoEntry]]
<1>1. r.s = s \/ \E k : Sys!Exists(s, p) /\ r.s = Sys!Swept(t(k))
                      /\ (k \in Sys!FreePlaces(s, q) \/ (Sys!Exists(s, q) /\ k = s.names[q].place))
  <2>1. Sys!rename(s, p, q) =
          IF ~Sys!Exists(s, p) THEN Sys!Same(s, Sys!Error("ENOENT"))
          ELSE IF s.names[p].ino = s.names[q].ino THEN Sys!Same(s, Sys!Ok)
          ELSE IF ~Sys!Exists(s, q) THEN {[res |-> Sys!Ok, s |-> Sys!Swept(t(k))] : k \in Sys!FreePlaces(s, q)}
          ELSE IF Sys!Object(s, p).kind = "dir" /\ Sys!Object(s, q).kind # "dir" THEN Sys!Same(s, Sys!Error("ENOTDIR"))
          ELSE IF Sys!Object(s, p).kind # "dir" /\ Sys!Object(s, q).kind = "dir" THEN Sys!Same(s, Sys!Error("EISDIR"))
          ELSE Sys!Same(Sys!Swept(t(s.names[q].place)), Sys!Ok)
    BY DEF Sys!rename
  <2> HIDE DEF t
  <2>2. \A x, res : r \in Sys!Same(x, res) => r.s = x
    BY DEF Sys!Same
  <2>3. CASE ~Sys!Exists(s, p) \/ s.names[p].ino = s.names[q].ino
    BY <2>1, <2>2, <2>3
  <2>4. CASE Sys!Exists(s, p) /\ s.names[p].ino # s.names[q].ino /\ ~Sys!Exists(s, q)
    <3>1. PICK k \in Sys!FreePlaces(s, q) : r = [res |-> Sys!Ok, s |-> Sys!Swept(t(k))]
      BY <2>1, <2>4
    <3> QED BY <3>1, <2>4
  <2>5. CASE Sys!Exists(s, p) /\ s.names[p].ino # s.names[q].ino /\ Sys!Exists(s, q)
    BY <2>1, <2>2, <2>5
  <2> QED BY <2>3, <2>4, <2>5
<1>2. ASSUME NEW k, Sys!Exists(s, p), r.s = Sys!Swept(t(k)),
             k \in Sys!FreePlaces(s, q) \/ (Sys!Exists(s, q) /\ k = s.names[q].place)
      PROVE  Placed(r.s)
  <2>1. k \in Places /\ \A x \in MountPaths : x # q /\ s.names[x] # Sys!NoEntry => s.names[x].place # k
    <3>1. DOMAIN s.names = AllPaths
      BY DEF Below, Shaped
    <3>2. \A x \in MountPaths : x \in AllPaths /\ x[1] = q[1]
      BY PathsApart DEF AllPaths, MountPaths, makePath
    <3>3. CASE k \in Sys!FreePlaces(s, q)
      <4>1. k \in Places /\ \A x \in {y \in DOMAIN s.names : y[1] = q[1]} : s.names[x].place # k
        BY <3>3 DEF Sys!FreePlaces
      <4>2. \A x \in MountPaths : x \in {y \in DOMAIN s.names : y[1] = q[1]}
        BY <3>1, <3>2
      <4> QED BY <4>1, <4>2
    <3>4. CASE Sys!Exists(s, q) /\ k = s.names[q].place
      <4>1. s.names[q] # Sys!NoEntry
        BY <3>4 DEF Sys!Exists
      <4> QED BY <3>4, <4>1 DEF Placed
    <3> QED BY <1>2, <3>3, <3>4
  <2>2. t(k) = [names |-> [[s.names EXCEPT ![q] = e(k)] EXCEPT ![p] = Sys!NoEntry], obj |-> s.obj]
    BY DEF Below, Shaped
  <2>3. t(k).names = [[s.names EXCEPT ![q] = e(k)] EXCEPT ![p] = Sys!NoEntry] /\ t(k).obj = s.obj
    BY <2>2
  <2>4. Sys!Swept(t(k)).names = t(k).names
    BY <2>2 DEF Sys!Swept
  <2>5. \A x \in MountPaths : r.s.names[x] = IF x = p THEN Sys!NoEntry ELSE IF x = q THEN e(k) ELSE s.names[x]
    BY <1>2, <2>3, <2>4, PathsApart DEF Below, Shaped
  <2>6. e(k).place = k
    OBVIOUS
  <2> HIDE DEF e, t
  <2> QED BY <2>1, <2>5, <2>6 DEF Placed
<1> HIDE DEF t
<1> QED BY <1>1, <1>2

LEMMA PlacedCalls ==
  ASSUME NEW s, Below(s), Placed(s), NEW p \in MountPaths, NEW q \in MountPaths, NEW r, NEW x, NEW a, NEW n,
         \/ r \in Sys!lstat(s, p) \/ r \in Sys!access(s, p) \/ r \in Sys!readlink(s, p, x)
         \/ r \in Sys!llistxattr(s, p) \/ r \in Sys!lgetxattr(s, p, a) \/ r \in Sys!Same(s, x)
         \/ r \in Sys!mkdir(s, p) \/ r \in Sys!rmdir(s, p) \/ r \in Sys!mknod(s, p, x) \/ r \in Sys!symlink(s, x, p)
         \/ r \in Sys!lsetxattr(s, p, a) \/ r \in Sys!lremovexattr(s, p, a)
         \/ r \in Sys!link(s, p, q) \/ r \in Sys!rename(s, p, q)
  PROVE  Placed(r.s)
<1>0. \A y, res : r \in Sys!Same(y, res) => r.s = y
  BY DEF Sys!Same
<1>1. CASE \/ r \in Sys!lstat(s, p) \/ r \in Sys!access(s, p) \/ r \in Sys!readlink(s, p, x)
           \/ r \in Sys!llistxattr(s, p) \/ r \in Sys!lgetxattr(s, p, a) \/ r \in Sys!Same(s, x)
  BY <1>0, <1>1 DEF Sys!lstat, Sys!access, Sys!readlink, Sys!llistxattr, Sys!lgetxattr
<1>2. CASE r \in Sys!mkdir(s, p) \/ r \in Sys!mknod(s, p, x) \/ r \in Sys!symlink(s, x, p)
  BY <1>2, PlacedMake DEF Sys!mkdir, Sys!mknod, Sys!symlink
<1>3. CASE r \in Sys!rmdir(s, p)
  <2> DEFINE t == [s EXCEPT !.names[p] = Sys!NoEntry]
  <2>1. r.s = s \/ r.s = Sys!Swept(t)
    BY <1>0, <1>3 DEF Sys!rmdir
  <2>2. Below(t) /\ Placed(t)
    BY ViewOfNoEntry, PlacedEntry
  <2> HIDE DEF t
  <2> QED BY <2>1, <2>2, SweptNames DEF Placed
<1>4. CASE r \in Sys!lsetxattr(s, p, a) \/ r \in Sys!lremovexattr(s, p, a)
  <2> DEFINE i == s.names[p].ino
             t == [s EXCEPT !.obj[i].attrs = @ \union {a}]
             u == [s EXCEPT !.obj[i].attrs = @ \ {a}]
  <2>1. r.s = s \/ r.s = t \/ r.s = u
    BY <1>0, <1>4 DEF Sys!lsetxattr, Sys!lremovexattr
  <2>2. t.names = s.names /\ u.names = s.names
    BY DEF Below, Shaped
  <2> HIDE DEF t, u
  <2> QED BY <2>1, <2>2 DEF Placed
<1>5. CASE r \in Sys!link(s, p, q)
  BY <1>0, <1>5, PlacedEnter DEF Sys!link
<1>6. CASE r \in Sys!rename(s, p, q)
  BY <1>6, PlacedRename
<1> QED BY <1>1, <1>2, <1>3, <1>4, <1>5, <1>6

(* What a call by path does to those who read. *)
Followed ==
  /\ UNCHANGED dirp
  /\ scan' = [h \in DirHandles |->
                Kept(scan[h], {n \in scan[h].stable : PlacesIn(under')[n] = PlacesIn(under)[n]})]

LEMMA TreePlaced ==
  ASSUME Below(under), Placed(under), \A h \in DirHandles : scan[h].stable \subseteq Names,
         TreeNext(Names), ~unimplemented
  PROVE  Placed(under') /\ Followed
<1>0. \A n \in Names : makePath(n) \in MountPaths
  BY DEF MountPaths
<1>1. ASSUME [h \in DirHandles |-> Kept(scan[h], {n \in scan[h].stable :
                under'.names[makePath(n)].place = under.names[makePath(n)].place})] = scan',
             UNCHANGED dirp
      PROVE  Followed
  <2>1. \A h \in DirHandles :
          {n \in scan[h].stable : under'.names[makePath(n)].place = under.names[makePath(n)].place}
            = {n \in scan[h].stable : PlacesIn(under')[n] = PlacesIn(under)[n]}
    BY DEF PlacesIn
  <2> QED BY <1>1, <2>1 DEF Followed
<1>2. PICK n \in Names :
        \/ xmp_getattr(n) \/ xmp_access(n) \/ xmp_readlink(n) \/ xmp_mkdir(n) \/ xmp_rmdir(n) \/ xmp_listxattr(n)
        \/ \E kind \in {"file", "fifo"} : xmp_mknod(n, kind)
        \/ \E from \in Targets : xmp_symlink(from, n)
        \/ \E to \in Names : xmp_link(n, to) \/ \E flags \in BOOLEAN : xmp_rename(n, to, flags)
        \/ \E a \in Attrs : xmp_setxattr(n, a) \/ xmp_getxattr(n, a) \/ xmp_removexattr(n, a)
  BY DEF TreeNext, xmp_chmod, xmp_chown, xmp_truncate, xmp_utimens, xmp_write, xmp_fsync, xmp_fallocate, xmp_flock
<1>3. CASE xmp_getattr(n) \/ xmp_access(n) \/ xmp_readlink(n) \/ xmp_listxattr(n)
           \/ \E a \in Attrs : xmp_getxattr(n, a)
  <2>1. CASE xmp_getattr(n)
    BY <1>0, <1>1, <2>1, PlacedCalls DEF xmp_getattr, Call
  <2>2. CASE xmp_access(n)
    BY <1>0, <1>1, <2>2, PlacedCalls DEF xmp_access, Call
  <2>3. CASE xmp_readlink(n)
    BY <1>0, <1>1, <2>3, PlacedCalls DEF xmp_readlink, Call
  <2>4. CASE xmp_listxattr(n)
    BY <1>0, <1>1, <2>4, PlacedCalls DEF xmp_listxattr, Call
  <2>5. CASE \E a \in Attrs : xmp_getxattr(n, a)
    BY <1>0, <1>1, <2>5, PlacedCalls DEF xmp_getxattr, Call
  <2> QED BY <1>3, <2>1, <2>2, <2>3, <2>4, <2>5
<1>4. CASE xmp_mkdir(n) \/ xmp_rmdir(n) \/ (\E kind \in {"file", "fifo"} : xmp_mknod(n, kind))
           \/ \E from \in Targets : xmp_symlink(from, n)
  <2>1. CASE xmp_mkdir(n)
    BY <1>0, <1>1, <2>1, PlacedCalls DEF xmp_mkdir, Call
  <2>2. CASE xmp_rmdir(n)
    BY <1>0, <1>1, <2>2, PlacedCalls DEF xmp_rmdir, Call
  <2>3. CASE \E kind \in {"file", "fifo"} : xmp_mknod(n, kind)
    BY <1>0, <1>1, <2>3, PlacedCalls DEF xmp_mknod, Call
  <2>4. CASE \E from \in Targets : xmp_symlink(from, n)
    BY <1>0, <1>1, <2>4, PlacedCalls DEF xmp_symlink, Call
  <2> QED BY <1>4, <2>1, <2>2, <2>3, <2>4
<1>5. CASE \E a \in Attrs : xmp_setxattr(n, a) \/ xmp_removexattr(n, a)
  BY <1>0, <1>1, <1>5, PlacedCalls DEF xmp_setxattr, xmp_removexattr, Call
<1>6. CASE \E to \in Names : xmp_link(n, to) \/ \E flags \in BOOLEAN : xmp_rename(n, to, flags)
  <2>1. PICK to \in Names : xmp_link(n, to) \/ \E flags \in BOOLEAN : xmp_rename(n, to, flags)
    BY <1>6
  <2>2. CASE xmp_link(n, to)
    BY <1>0, <1>1, <2>2, PlacedCalls DEF xmp_link, Call
  <2>3. CASE xmp_rename(n, to, TRUE)
    BY <1>0, <1>1, <2>3, PlacedCalls DEF xmp_rename, Call
  <2>4. CASE xmp_rename(n, to, FALSE)
    BY <1>0, <1>1, <2>4, PlacedCalls DEF xmp_rename, Call
  <2> QED BY <2>1, <2>2, <2>3, <2>4
<1> QED BY <1>2, <1>3, <1>4, <1>5, <1>6

(* A reader whose entries go or stay where they are. *)
LEMMA KeptReader ==
  ASSUME NEW k, NEW d, NEW s, NEW t, Placed(s), Placed(t), ReaderOk(k, d, s),
         NEW N, N = {n \in k.stable : PlacesIn(t)[n] = PlacesIn(s)[n]}
  PROVE  ReaderOk(Kept(k, N), d, t)
<1> DEFINE L == [e \in Names \X Places |-> IF e[1] \in N THEN k.listed[e] ELSE 0]
           q == Kept(k, N)
<1>1. /\ k \in Readers /\ k.stable \subseteq Names /\ N \subseteq k.stable
      /\ k.listed \in [Names \X Places -> Nat] /\ k.off \in Nat
  BY DEF ReaderOk, Readers
<1>2. q = [off |-> k.off, listed |-> L, stable |-> N]
  <2>1. k = [off |-> k.off, listed |-> k.listed, stable |-> k.stable]
    BY <1>1 DEF Readers
  <2>2. q = [k EXCEPT !.stable = N, !.listed = L]
    BY DEF Kept
  <2> HIDE DEF q, L
  <2> QED BY <2>1, <2>2
<1>3. L \in [Names \X Places -> Nat]
  BY <1>1
<1>4. q \in Readers /\ q.off = k.off /\ q.listed = L /\ q.stable = N
  <2> HIDE DEF q, L
  <2> QED BY <1>1, <1>2, <1>3 DEF Readers
<1>5. \A n \in Names, j \in Places : L[<<n, j>>] = IF n \in N THEN k.listed[<<n, j>>] ELSE 0
  OBVIOUS
<1> HIDE DEF q, L
<1>6. ASSUME NEW n \in N PROVE t.names[makePath(n)] # Sys!NoEntry
  <2>1. s.names[makePath(n)] # Sys!NoEntry /\ makePath(n) \in MountPaths
    BY <1>1 DEF ReaderOk, MountPaths
  <2>2. s.names[makePath(n)].place \in Places
    BY <2>1 DEF Placed
  <2>3. t.names[makePath(n)].place = s.names[makePath(n)].place
    BY <1>1 DEF PlacesIn
  <2>4. Sys!NoEntry.place = 0 /\ 0 \notin Places
    BY PlacesAssumption DEF Sys!NoEntry
  <2> QED BY <2>2, <2>3, <2>4
<1>7. GivenOk(q.listed, q.off, q.stable, PlacesIn(t))
  <2>1. \A n \in k.stable, j \in Places : k.listed[<<n, j>>] = IF j = PlacesIn(s)[n] /\ j <= k.off THEN 1 ELSE 0
    BY DEF ReaderOk, GivenOk
  <2> QED BY <1>1, <1>3, <1>4, <1>5, <2>1 DEF GivenOk
<1>8. \A n \in Names \ q.stable, j \in Places : q.listed[<<n, j>>] = 0
  BY <1>4, <1>5
<1>9. d # Closed => PositionOk(d, q.stable, PlacesIn(t))
  BY <1>1, <1>4 DEF ReaderOk, PositionOk
<1> QED BY <1>4, <1>6, <1>7, <1>8, <1>9 DEF ReaderOk, q

(* readdir(3) passes over no entry that has stayed. *)
LEMMA ReadEntryOk ==
  ASSUME Placed(under), NEW d, NEW N \in SUBSET Names, \A n \in N : under.names[makePath(n)] # Sys!NoEntry,
         PositionOk(d, N, PlacesIn(under))
  PROVE  PositionOk(ReadEntry(d), N, PlacesIn(under)) /\ ReadEntry(d).offset = d.offset
<1>1. CASE d.entry # 0 \/ Behind(d.dp) = {}
  BY <1>1 DEF ReadEntry
<1>2. CASE d.entry = 0 /\ Behind(d.dp) # {}
  <2> DEFINE B == Behind(d.dp)
             m == CHOOSE x \in B : \A k \in B : Place(x) <= Place(k)
  <2>1. \A n \in Present : n \in Names /\ makePath(n) \in MountPaths /\ Place(n) \in Places /\ Place(n) \in Nat
    BY PlacesAssumption DEF Present, MountPaths, Placed, Place
  <2>2. B \subseteq Present /\ \A n \in B : Place(n) > d.dp
    BY DEF Behind
  <2>3. PICK x \in {Place(n) : n \in B} : \A y \in {Place(n) : n \in B} : x <= y
    <3>1. {Place(n) : n \in B} \in SUBSET Nat /\ {Place(n) : n \in B} # {}
      BY <1>2, <2>1, <2>2
    <3> QED BY <3>1, SmallestOf
  <2>4. m \in B /\ \A k \in B : Place(m) <= Place(k)
    BY <2>3
  <2>5. ReadEntry(d) = [d EXCEPT !.entry = m, !.dp = Place(m)]
    BY <1>2 DEF ReadEntry
  <2>6. d.dp \in Nat /\ d.offset \in Nat /\ d.dp = d.offset /\ d \in [dp : Nat, entry : Names \union {0}, offset : Nat]
    BY <1>2 DEF PositionOk
  <2>7. ASSUME NEW n \in N, n # m, Place(n) > d.offset PROVE Place(n) > Place(m)
    <3>1. n \in Present
      BY DEF Present
    <3>2. n \in B
      BY <2>6, <2>7, <3>1 DEF Behind
    <3>3. makePath(n) # makePath(m)
      BY <2>7 DEF makePath
    <3>4. m \in Present
      BY <2>2, <2>4
    <3>5. Place(n) # Place(m)
      BY <2>1, <3>1, <3>3, <3>4 DEF Placed, Place, Present
    <3>6. Place(m) <= Place(n)
      BY <2>4, <3>2
    <3>7. Place(n) \in Nat /\ Place(m) \in Nat
      BY <2>1, <3>1, <3>4
    <3> QED BY <3>5, <3>6, <3>7
  <2>8. m \in Names /\ m # 0 /\ Place(m) \in Places /\ Place(m) \in Nat /\ Place(m) > d.offset
    BY <2>1, <2>2, <2>4, <2>6, NamesAssumption
  <2>9. \A n \in Names : PlacesIn(under)[n] = Place(n)
    BY DEF PlacesIn, Place
  <2> HIDE DEF m, B
  <2> DEFINE e == ReadEntry(d)
  <2>10. e.entry = m /\ e.dp = Place(m) /\ e.offset = d.offset /\ e \in [dp : Nat, entry : Names \union {0}, offset : Nat]
    BY <2>5, <2>6, <2>8
  <2> HIDE DEF e
  <2>11. \A n \in N : n # m /\ PlacesIn(under)[n] > d.offset => PlacesIn(under)[n] > Place(m)
    BY <2>7, <2>9
  <2>12. PositionOk(e, N, PlacesIn(under))
    BY <2>8, <2>9, <2>10, <2>11 DEF PositionOk
  <2> QED BY <2>10, <2>12 DEF e
<1>3. d.entry = 0 \/ d.entry # 0
  OBVIOUS
<1> QED BY <1>1, <1>2

(* The states of the loop of xmp_readdir. *)
LoopStates(N) ==
  {c \in [d : [dp : Nat, entry : Names \union {0}, offset : Nat], off : Nat, listed : [Names \X Places -> Nat]] :
     /\ c.off = c.d.offset
     /\ PositionOk(c.d, N, PlacesIn(under))
     /\ GivenOk(c.listed, c.off, N, PlacesIn(under))}

(* A turn of the loop gives the next entry that has stayed, or none. *)
LEMMA FilledOk ==
  ASSUME Placed(under), NEW N \in SUBSET Names, \A n \in N : under.names[makePath(n)] # Sys!NoEntry,
         NEW c \in LoopStates(N)
  PROVE  Filled(c) \in LoopStates(N)
<1> DEFINE d == ReadEntry(c.d)
           place == PlacesIn(under)
<1>1. PositionOk(d, N, place) /\ d.offset = c.d.offset
  BY ReadEntryOk DEF LoopStates
<1>2. CASE d.entry = 0
  BY <1>2 DEF Filled
<1>3. CASE d.entry # 0
  <2> DEFINE D == Positioned(d.dp)
             L == [c.listed EXCEPT ![<<d.entry, d.dp>>] = @ + 1]
             f == [d |-> D, off |-> d.dp, listed |-> L]
  <2>1. Filled(c) = f
    BY <1>3 DEF Filled
  <2>2. d.entry \in Names /\ d.dp \in Places /\ d.dp \in Nat /\ d.offset \in Nat /\ d.offset < d.dp
        /\ (d.entry \in N => place[d.entry] = d.dp)
        /\ \A n \in N : n # d.entry /\ place[n] > d.offset => place[n] > d.dp
    BY <1>1, <1>3, PlacesAssumption DEF PositionOk
  <2>3. /\ c.listed \in [Names \X Places -> Nat] /\ c.off = d.offset
        /\ \A n \in N, k \in Places : c.listed[<<n, k>>] = IF k = place[n] /\ k <= c.off THEN 1 ELSE 0
    BY <1>1 DEF LoopStates, GivenOk
  <2>4. \A n \in N : place[n] \in Places /\ place[n] \in Nat
    BY PlacesAssumption DEF PlacesIn, Placed, MountPaths
  <2> HIDE DEF d, place
  <2>5. D = [dp |-> d.dp, entry |-> 0, offset |-> d.dp]
    BY DEF Positioned
  <2>6. PositionOk(D, N, place)
    BY <2>2, <2>5 DEF PositionOk
  <2>7. L \in [Names \X Places -> Nat]
    BY <2>2, <2>3
  <2>8. ASSUME NEW n \in N, NEW k \in Places
        PROVE  L[<<n, k>>] = IF k = place[n] /\ k <= d.dp THEN 1 ELSE 0
    <3>1. <<n, k>> \in Names \X Places /\ k \in Nat
      BY PlacesAssumption
    <3>2. c.listed[<<n, k>>] = IF k = place[n] /\ k <= d.offset THEN 1 ELSE 0
      BY <2>3
    <3>3. CASE n = d.entry /\ k = d.dp
      <4>1. L[<<n, k>>] = c.listed[<<n, k>>] + 1
        BY <2>3, <3>1, <3>3
      <4> QED BY <2>2, <3>2, <3>3, <4>1
    <3>4. CASE n = d.entry /\ k # d.dp
      <4>1. L[<<n, k>>] = c.listed[<<n, k>>]
        BY <2>3, <3>1, <3>4
      <4> QED BY <2>2, <3>2, <3>4, <4>1
    <3>5. CASE n # d.entry
      <4>1. L[<<n, k>>] = c.listed[<<n, k>>]
        BY <2>3, <3>1, <3>5
      <4>2. k = place[n] => (k <= d.offset <=> k <= d.dp)
        BY <2>2, <3>1, <3>5
      <4> QED BY <3>2, <4>1, <4>2
    <3> QED BY <3>3, <3>4, <3>5
  <2> HIDE DEF L
  <2>9. GivenOk(L, d.dp, N, place)
    BY <2>2, <2>7, <2>8 DEF GivenOk
  <2>10. D \in [dp : Nat, entry : Names \union {0}, offset : Nat] /\ D.offset = d.dp
    BY <2>2, <2>5
  <2> HIDE DEF D
  <2>11. f \in LoopStates(N)
    BY <2>2, <2>6, <2>7, <2>9, <2>10 DEF LoopStates, place
  <2> QED BY <2>1, <2>11
<1> QED BY <1>2, <1>3

(* So every number of turns does. *)
LEMMA TurnsOk ==
  ASSUME Placed(under), NEW N \in SUBSET Names, \A n \in N : under.names[makePath(n)] # Sys!NoEntry,
         NEW c \in LoopStates(N), NEW room \in Nat
  PROVE  Turns(c, room) \in LoopStates(N)
<1> DEFINE S == LoopStates(N)
           T(t) == t = [i \in Nat |-> IF i = 0 THEN c ELSE Filled(t[i - 1])]
           step == [x \in S \X Nat |-> Filled(x[1])]
           turn == CHOOSE t : T(t)
<1>1. \A x \in S : Filled(x) \in S
  BY FilledOk
<1> HIDE DEF S
<1>2. step \in [S \X Nat -> S]
  BY <1>1
<1>3. c \in S
  BY DEF S
<1>4. PICK h : Iterates(h, S, c, step)
  <2>1. StepIn(step, S)
    BY <1>2 DEF StepIn
  <2> HIDE DEF step
  <2> QED BY <1>3, <2>1, RecursionExists
<1>5. \A n \in Nat : h[n] = IF n = 0 THEN c ELSE Filled(h[n - 1])
  <2> TAKE n \in Nat
  <2>1. CASE n = 0
    BY <1>4, <2>1 DEF Iterates
  <2>2. CASE n # 0
    <3>1. n - 1 \in Nat /\ n - 1 + 1 = n
      BY <2>2
    <3>2. h[n - 1] \in S
      BY <1>4, <3>1 DEF Iterates
    <3>3. h[n] = step[<<h[n - 1], n>>]
      BY <1>4, <3>1 DEF Iterates
    <3> QED BY <2>2, <3>2, <3>3
  <2> QED BY <2>1, <2>2
<1>6. T(h)
  BY <1>4, <1>5 DEF Iterates
<1>7. T(turn)
  BY <1>6
<1>8. Turns(c, room) = turn[room]
  BY DEF Turns
<1> HIDE DEF turn
<1> DEFINE P == {i \in Nat : turn[i] \in S}
<1>9. 0 \in P
  BY <1>3, <1>7
<1>10. ASSUME NEW i \in Nat, i \in P PROVE i + 1 \in P
  <2>1. turn[i + 1] = Filled(turn[i])
    BY <1>7
  <2> QED BY <1>1, <1>10, <2>1
<1>11. \A i \in Nat : i \in P
  <2> HIDE DEF P
  <2> QED BY <1>9, <1>10, InductionOn
<1> QED BY <1>8, <1>11 DEF S

(* The kernel's call starts the loop there or further back, never further on. *)
LEMMA StartedOk ==
  ASSUME ScanInv, NEW h \in DirHandles, dirp[h] # Closed, NEW offset \in Askable(h)
  PROVE  Started(h, offset) \in LoopStates(scan[h].stable)
<1> DEFINE k == scan[h]
           place == PlacesIn(under)
           d == seekdir(dirp[h], offset)
           L == [e \in Names \X Places |-> IF e[2] <= offset THEN k.listed[e] ELSE 0]
<1>1. /\ k \in Readers /\ k.listed \in [Names \X Places -> Nat] /\ k.off \in Nat /\ k.stable \subseteq Names
      /\ \A n \in k.stable, j \in Places : k.listed[<<n, j>>] = IF j = place[n] /\ j <= k.off THEN 1 ELSE 0
      /\ \A n \in Names \ k.stable, j \in Places : k.listed[<<n, j>>] = 0
      /\ PositionOk(dirp[h], k.stable, place)
  BY DEF ScanInv, ReaderOk, GivenOk, Readers
<1>2. offset \in Nat /\ offset <= k.off
  <2>1. CASE offset = 0 \/ offset = k.off
    BY <1>1, <2>1
  <2>2. CASE offset # 0 /\ offset # k.off
    <3>1. PICK n \in Names : offset \in Places /\ k.listed[<<n, offset>>] > 0
      BY <2>2 DEF Askable
    <3>2. n \in k.stable
      BY <1>1, <3>1
    <3>3. offset <= k.off
      BY <1>1, <3>1, <3>2
    <3> QED BY <3>1, <3>3, PlacesAssumption
  <2> QED BY <2>1, <2>2
<1> HIDE DEF k, place
<1>3. PositionOk(d, k.stable, place) /\ d.offset = offset
  <2>1. CASE offset = dirp[h].offset
    BY <1>1, <2>1 DEF seekdir
  <2>2. CASE offset # dirp[h].offset
    <3>1. d = [dp |-> offset, entry |-> 0, offset |-> offset]
      BY <2>2 DEF seekdir, Positioned
    <3> HIDE DEF d
    <3> QED BY <1>2, <3>1 DEF PositionOk
  <2> QED BY <2>1, <2>2
<1>4. L \in [Names \X Places -> Nat]
  BY <1>1
<1>5. ASSUME NEW n \in k.stable, NEW j \in Places
      PROVE  L[<<n, j>>] = IF j = place[n] /\ j <= offset THEN 1 ELSE 0
  <2>1. <<n, j>> \in Names \X Places /\ j \in Nat
    BY <1>1, PlacesAssumption
  <2>2. L[<<n, j>>] = IF j <= offset THEN k.listed[<<n, j>>] ELSE 0
    BY <2>1
  <2> QED BY <1>1, <1>2, <2>1, <2>2
<1>6. Started(h, offset) = [d |-> d, off |-> offset, listed |-> L]
  BY DEF Started, k
<1> HIDE DEF d, L
<1>7. GivenOk(L, offset, k.stable, place)
  BY <1>2, <1>4, <1>5 DEF GivenOk
<1>8. d \in [dp : Nat, entry : Names \union {0}, offset : Nat]
  BY <1>3 DEF PositionOk
<1>9. [d |-> d, off |-> offset, listed |-> L] \in LoopStates(k.stable)
  BY <1>2, <1>3, <1>4, <1>7, <1>8 DEF LoopStates, place
<1> QED BY <1>6, <1>9 DEF k

(* What was given of the entries in N. *)
Sifted(listed, N) == [e \in Names \X Places |-> IF e[1] \in N THEN listed[e] ELSE 0]

LEMMA TakenReader ==
  ASSUME NEW k \in Readers, NEW off, NEW listed
  PROVE  Kept([k EXCEPT !.off = off, !.listed = listed], k.stable)
           = [off |-> off, listed |-> Sifted(listed, k.stable), stable |-> k.stable]
<1> DEFINE L == [e \in Names \X Places |-> IF e[1] \in k.stable THEN listed[e] ELSE 0]
           m == [k EXCEPT !.off = off, !.listed = listed]
<1>1. k = [off |-> k.off, listed |-> k.listed, stable |-> k.stable]
  BY DEF Readers
<1>2. m = [off |-> off, listed |-> listed, stable |-> k.stable]
  <2> DEFINE m1 == [k EXCEPT !.off = off]
  <2>1. m1 = [off |-> off, listed |-> k.listed, stable |-> k.stable]
    BY <1>1
  <2>2. m = [m1 EXCEPT !.listed = listed]
    OBVIOUS
  <2> HIDE DEF m1, m, L
  <2> QED BY <2>1, <2>2
<1> HIDE DEF m
<1>3. Kept(m, k.stable) = [m EXCEPT !.stable = k.stable, !.listed = L]
  BY <1>2 DEF Kept
<1> HIDE DEF L
<1>4. Kept(m, k.stable) = [off |-> off, listed |-> L, stable |-> k.stable]
  BY <1>2, <1>3
<1> QED BY <1>4 DEF m, L, Sifted

(* A reply that is taken carries on from what the reader had, and the entry kept is the *)
(* next one that has stayed.                                                            *)
LEMMA ReaddirReader ==
  ASSUME Placed(under), NEW k, NEW d, ReaderOk(k, d, under), NEW c \in LoopStates(k.stable)
  PROVE  /\ ReaderOk(Kept([k EXCEPT !.off = c.off, !.listed = c.listed], k.stable), ReadEntry(c.d), under)
         /\ ReaderOk(k, ReadEntry(c.d), under)
<1> DEFINE place == PlacesIn(under)
           L == Sifted(c.listed, k.stable)
           q == [off |-> c.off, listed |-> L, stable |-> k.stable]
<1>1. k \in Readers /\ k.stable \subseteq Names /\ \A n \in k.stable : under.names[makePath(n)] # Sys!NoEntry
  BY DEF ReaderOk, Readers
<1>2. PositionOk(ReadEntry(c.d), k.stable, place)
  BY <1>1, ReadEntryOk DEF LoopStates
<1>3. Kept([k EXCEPT !.off = c.off, !.listed = c.listed], k.stable) = q
  BY <1>1, TakenReader, Zenon
<1>4. /\ c.listed \in [Names \X Places -> Nat] /\ c.off \in Nat
      /\ \A n \in k.stable, j \in Places : c.listed[<<n, j>>] = IF j = place[n] /\ j <= c.off THEN 1 ELSE 0
  BY DEF LoopStates, GivenOk
<1>5. L \in [Names \X Places -> Nat]
  BY <1>4 DEF Sifted
<1>6. \A n \in Names, j \in Places : L[<<n, j>>] = IF n \in k.stable THEN c.listed[<<n, j>>] ELSE 0
  BY DEF Sifted
<1> HIDE DEF place, L
<1>7. GivenOk(L, c.off, k.stable, place)
  BY <1>1, <1>4, <1>5, <1>6 DEF GivenOk
<1>8. \A n \in Names \ k.stable, j \in Places : L[<<n, j>>] = 0
  BY <1>6
<1>9. q \in Readers /\ q.off = c.off /\ q.listed = L /\ q.stable = k.stable
  BY <1>1, <1>4, <1>5 DEF Readers
<1> HIDE DEF q
<1>10. ReaderOk(q, ReadEntry(c.d), under)
  BY <1>1, <1>2, <1>7, <1>8, <1>9 DEF ReaderOk, place
<1>11. ReaderOk(k, ReadEntry(c.d), under)
  BY <1>2 DEF ReaderOk, place
<1> QED BY <1>3, <1>10, <1>11

LEMMA ReaddirStep ==
  ASSUME ScanInv, NEW h \in DirHandles, NEW offset \in Askable(h), NEW room \in Rooms, NEW taken \in BOOLEAN,
         xmp_readdir(h, offset, room, taken)
  PROVE  ScanInv'
<1> DEFINE c == Turns(Started(h, offset), room)
           k == scan[h]
           q == Kept([k EXCEPT !.off = c.off, !.listed = c.listed], k.stable)
<1>1. /\ dirp[h] # Closed
      /\ dirp' = [dirp EXCEPT ![h] = ReadEntry(c.d)]
      /\ scan' = IF taken THEN [scan EXCEPT ![h] = q] ELSE scan
      /\ UNCHANGED <<under, reply>>
  BY DEF xmp_readdir, ReadFrom
<1>2. Below(under) /\ Placed(under) /\ \A g \in DirHandles : ReaderOk(scan[g], dirp[g], under)
  BY DEF ScanInv
<1>3. k.stable \in SUBSET Names /\ \A n \in k.stable : under.names[makePath(n)] # Sys!NoEntry
  BY <1>2 DEF ReaderOk, Readers
<1>4. c \in LoopStates(k.stable)
  <2>1. Started(h, offset) \in LoopStates(k.stable)
    BY <1>1, StartedOk
  <2>2. room \in Nat
    BY RoomsAssumption
  <2> HIDE DEF k
  <2> QED BY <1>2, <1>3, <2>1, <2>2, TurnsOk
<1>5. ReaderOk(q, ReadEntry(c.d), under) /\ ReaderOk(k, ReadEntry(c.d), under)
  <2> HIDE DEF c
  <2> QED BY <1>2, <1>4, ReaddirReader
<1>6. dirp = [g \in DirHandles |-> dirp[g]] /\ scan = [g \in DirHandles |-> scan[g]]
  BY DEF ScanInv
<1> HIDE DEF c, q
<1>7. \A g \in DirHandles : dirp'[g] = IF g = h THEN ReadEntry(c.d) ELSE dirp[g]
  BY <1>1, <1>6
<1>8. \A g \in DirHandles : scan'[g] = IF taken /\ g = h THEN q ELSE scan[g]
  BY <1>1, <1>6
<1>9. dirp' = [g \in DirHandles |-> dirp'[g]] /\ scan' = [g \in DirHandles |-> scan'[g]]
  BY <1>1, <1>6
<1>10. \A g \in DirHandles : ReaderOk(scan'[g], dirp'[g], under')
  BY <1>1, <1>2, <1>5, <1>7, <1>8
<1>11. Below(under') /\ Placed(under')
  BY <1>1, <1>2
<1> QED BY <1>9, <1>10, <1>11 DEF ScanInv

(* A reader that has just begun: whoever is there stays there so far. *)
LEMMA OpenedReader ==
  ASSUME Below(under), Placed(under)
  PROVE  ReaderOk([NoScan EXCEPT !.stable = Present], Positioned(0), under)
<1> DEFINE none == [e \in Names \X Places |-> 0]
           place == PlacesIn(under)
           q == [off |-> 0, listed |-> none, stable |-> Present]
           d == Positioned(0)
<1>1. [NoScan EXCEPT !.stable = Present] = q
  BY DEF NoScan
<1>2. none \in [Names \X Places -> Nat] /\ \A n \in Names, j \in Places : none[<<n, j>>] = 0
  OBVIOUS
<1> HIDE DEF none
<1>3. Present \subseteq Names /\ \A n \in Present : under.names[makePath(n)] # Sys!NoEntry
  BY DEF Present
<1>4. \A n \in Names : makePath(n) \in MountPaths
  BY DEF MountPaths
<1>5. \A j \in Places : j \in Nat /\ j # 0
  BY PlacesAssumption
<1>6. d.dp = 0 /\ d.entry = 0 /\ d.offset = 0 /\ d = [dp |-> 0, entry |-> 0, offset |-> 0]
  BY DEF Positioned
<1> HIDE DEF d
<1>7. d \in [dp : Nat, entry : Names \union {0}, offset : Nat]
  BY <1>6
<1>8. PositionOk(d, Present, place)
  <2> HIDE DEF place
  <2> QED BY <1>6, <1>7 DEF PositionOk
<1>9. GivenOk(none, 0, Present, place)
  <2>1. \A n \in Present, j \in Places : ~(j = place[n] /\ j <= 0)
    BY <1>5
  <2> HIDE DEF place
  <2> QED BY <1>2, <1>3, <2>1 DEF GivenOk
<1>10. q \in Readers /\ q.off = 0 /\ q.listed = none /\ q.stable = Present
  BY <1>2, <1>3 DEF Readers
<1> HIDE DEF q
<1>11. ReaderOk(q, d, under)
  BY <1>2, <1>3, <1>8, <1>9, <1>10 DEF ReaderOk, place
<1> QED BY <1>1, <1>11 DEF d

(* No reader: nothing to hold. *)
LEMMA NoReader == ASSUME NEW s PROVE ReaderOk(NoScan, Closed, s)
<1> DEFINE none == [e \in Names \X Places |-> 0]
<1>1. none \in [Names \X Places -> Nat] /\ \A n \in Names, j \in Places : none[<<n, j>>] = 0
  OBVIOUS
<1>2. NoScan = [off |-> 0, listed |-> none, stable |-> {}]
  BY DEF NoScan
<1> HIDE DEF none
<1>3. NoScan \in Readers /\ NoScan.off = 0 /\ NoScan.listed = none /\ NoScan.stable = {}
  BY <1>1, <1>2 DEF Readers
<1>4. GivenOk(none, 0, {}, PlacesIn(s))
  BY <1>1 DEF GivenOk
<1> QED BY <1>1, <1>3, <1>4 DEF ReaderOk

(* Only the reading of one open directory changes. *)
LEMMA OneReader ==
  ASSUME ScanInv, NEW h \in DirHandles, NEW q, NEW d, ReaderOk(q, d, under), under' = under,
         scan' = [scan EXCEPT ![h] = q], dirp' = [dirp EXCEPT ![h] = d]
  PROVE  ScanInv'
<1>1. dirp = [g \in DirHandles |-> dirp[g]] /\ scan = [g \in DirHandles |-> scan[g]]
  BY DEF ScanInv
<1>2. \A g \in DirHandles : dirp'[g] = IF g = h THEN d ELSE dirp[g]
  BY <1>1
<1>3. \A g \in DirHandles : scan'[g] = IF g = h THEN q ELSE scan[g]
  BY <1>1
<1>4. dirp' = [g \in DirHandles |-> dirp'[g]] /\ scan' = [g \in DirHandles |-> scan'[g]]
  BY <1>1
<1>5. \A g \in DirHandles : ReaderOk(scan'[g], dirp'[g], under')
  BY <1>2, <1>3 DEF ScanInv
<1> QED BY <1>4, <1>5 DEF ScanInv

LEMMA ScanInit == PtInit => ScanInv
<1> SUFFICES ASSUME PtInit PROVE ScanInv
  OBVIOUS
<1>1. Below(under)
  BY MountInit
<1>2. \A p \in MountPaths : under.names[p] = Sys!NoEntry
  BY PathsApart DEF PtInit, AllPaths
<1>3. Placed(under)
  BY <1>2 DEF Placed
<1>4. \A h \in DirHandles : dirp[h] = Closed /\ scan[h] = NoScan
  BY DEF PtInit
<1>5. dirp = [h \in DirHandles |-> dirp[h]] /\ scan = [h \in DirHandles |-> scan[h]]
  BY DEF PtInit
<1> QED BY <1>1, <1>3, <1>4, <1>5, NoReader DEF ScanInv

LEMMA ScanStep ==
  ASSUME ScanInv, [PtNext]_ptVars
  PROVE  ScanInv'
<1>0. /\ Below(under) /\ Placed(under)
      /\ \A h \in DirHandles : ReaderOk(scan[h], dirp[h], under)
  BY DEF ScanInv
<1>1. CASE UNCHANGED ptVars
  BY <1>1 DEF ptVars, ScanInv
<1>2. CASE unimplemented
  <2>1. \A h \in DirHandles : dirp'[h] = Closed /\ scan'[h] = NoScan
    BY <1>2 DEF unimplemented
  <2>2. dirp' = [h \in DirHandles |-> dirp'[h]] /\ scan' = [h \in DirHandles |-> scan'[h]]
    BY <1>2 DEF unimplemented
  <2>3. under' = under
    BY <1>2 DEF unimplemented
  <2> QED BY <1>0, <2>1, <2>2, <2>3, NoReader DEF ScanInv
<1>3. CASE TreeNext(Names) /\ ~unimplemented
  <2>1. Below(under')
    BY <1>0, <1>3, MountNext DEF PtNext
  <2>2. \A h \in DirHandles : scan[h].stable \subseteq Names
    BY <1>0 DEF ReaderOk, Readers
  <2>3. Placed(under') /\ Followed
    BY <1>0, <1>3, <2>2, TreePlaced
  <2>4. \A h \in DirHandles :
          scan'[h] = Kept(scan[h], {n \in scan[h].stable : PlacesIn(under')[n] = PlacesIn(under)[n]})
    BY <2>3 DEF Followed
  <2>5. ASSUME NEW h \in DirHandles PROVE ReaderOk(scan'[h], dirp[h], under')
    <3> DEFINE N == {n \in scan[h].stable : PlacesIn(under')[n] = PlacesIn(under)[n]}
    <3>1. scan'[h] = Kept(scan[h], N)
      BY <2>4
    <3>2. ReaderOk(scan[h], dirp[h], under) /\ Placed(under) /\ Placed(under')
      BY <1>0, <2>3
    <3>3. ReaderOk(Kept(scan[h], N), dirp[h], under')
      BY <3>2, KeptReader
    <3> QED BY <3>1, <3>3
  <2>6. dirp' = dirp /\ dirp' = [h \in DirHandles |-> dirp'[h]] /\ scan' = [h \in DirHandles |-> scan'[h]]
    BY <2>3 DEF Followed, ScanInv
  <2> QED BY <2>1, <2>3, <2>5, <2>6 DEF ScanInv
<1>4. ASSUME NEW h \in DirHandles, xmp_opendir(h)
      PROVE  ScanInv'
  BY <1>0, <1>4, OpenedReader, OneReader DEF xmp_opendir
<1>5. ASSUME NEW h \in DirHandles, xmp_releasedir(h)
      PROVE  ScanInv'
  BY <1>5, NoReader, OneReader DEF xmp_releasedir
<1>6. ASSUME NEW h \in DirHandles, NEW offset \in Askable(h), NEW room \in Rooms, NEW taken \in BOOLEAN,
             xmp_readdir(h, offset, room, taken)
      PROVE  ScanInv'
  BY <1>6, ReaddirStep
<1>7. CASE ScanNext
  BY <1>4, <1>5, <1>6, <1>7 DEF ScanNext
<1> QED BY <1>1, <1>2, <1>3, <1>7 DEF PtNext

LEMMA ScanInvariant == PtSpec => []ScanInv
<1>1. ScanInv /\ [PtNext]_ptVars => ScanInv'
  BY ScanStep
<1> QED BY <1>1, ScanInit, PTL DEF PtSpec

(* A reader of a directory is given every entry that has stayed there since its opendir *)
(* exactly once, with its own offset and as soon as it is past it, whatever comes and   *)
(* goes, however the replies are cut, and after a lost reply or a seek (xmp_opendir,    *)
(* xmp_readdir with d->entry and d->offset, xmp_releasedir).                            *)
THEOREM ReadersServed == PtSpec => []ScanExact
<1>1. ScanInv => ScanExact
  <2> SUFFICES ASSUME ScanInv, NEW h \in DirHandles, NEW n \in scan[h].stable, NEW k \in Places
               PROVE  scan[h].listed[<<n, k>>] = IF k = Place(n) /\ k <= scan[h].off THEN 1 ELSE 0
    BY DEF ScanExact
  <2>1. ReaderOk(scan[h], dirp[h], under)
    BY DEF ScanInv
  <2>2. n \in Names
    BY <2>1 DEF ReaderOk, Readers
  <2>3. PlacesIn(under)[n] = Place(n)
    BY <2>2 DEF PlacesIn, Place
  <2> QED BY <2>1, <2>3 DEF ReaderOk, GivenOk
<1> QED BY <1>1, ScanInvariant, PTL
=============================================================================
