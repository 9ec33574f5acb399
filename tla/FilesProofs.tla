------------------------------ MODULE FilesProofs ------------------------------
(***************************************************************************)
(* Theorems about Files for any host directories and mount points, any     *)
(* number of binds, texts of any length and any number of commands that    *)
(* fail.                                                                   *)
(***************************************************************************)
EXTENDS Files, FiniteSetTheorems, SequenceTheorems, WellFoundedInduction,
        TLAPS

-------------------------------------------------------------------------------
(* Binds *)

\* A set of natural numbers has a smallest one.
LEMMA Smallest ==
  ASSUME NEW S \in SUBSET Nat, S # {}
  PROVE  \E m \in S : \A n \in S : m <= n
<1> DEFINE R == OpToRel(<, Nat)
<1>1. PICK m \in S : \A n \in S : <<n, m>> \notin R
  <2> HIDE DEF R
  <2>1. IsWellFoundedOn(R, Nat)
    BY NatLessThanWellFounded DEF R
  <2> QED BY <2>1, WFMin, Zenon
<1>2. \A n \in S : ~ (n < m)
  BY <1>1 DEF OpToRel
<1> QED BY <1>2

\* The first and the last bind above the file.
LEMMA Extremes ==
  ASSUME NEW bs, Len(bs) \in Nat, Above(bs) # {}
  PROVE  /\ \E i \in Above(bs) : \A j \in Above(bs) : i <= j
         /\ \E i \in Above(bs) : \A j \in Above(bs) : j <= i
<1>1. Above(bs) \subseteq 1 .. Len(bs)
  BY DEF Above
<1>2. \E i \in Above(bs) : \A j \in Above(bs) : i <= j
  <2>1. Above(bs) \in SUBSET Nat
    BY <1>1
  <2> QED BY <2>1, Smallest
<1>3. \E i \in Above(bs) : \A j \in Above(bs) : j <= i
  <2> DEFINE rest == {n \in Nat : n <= Len(bs) /\ Len(bs) - n \in Above(bs)}
  <2>1. PICK i \in Above(bs) : TRUE
    OBVIOUS
  <2>2. Len(bs) - i \in rest
    BY <1>1, <2>1
  <2>3. PICK m \in rest : \A n \in rest : m <= n
    BY <2>2, Smallest
  <2>4. ASSUME NEW j \in Above(bs) PROVE j <= Len(bs) - m
    <3>1. Len(bs) - j \in rest
      BY <1>1
    <3> QED BY <1>1, <2>3, <3>1
  <2> QED BY <2>3, <2>4
<1> QED BY <1>2, <1>3

\* What the sandbox shows, and what a redirect opens, is a place; unless it is the
\* overlay it is that of a bind.
LEMMA Shows ==
  ASSUME NEW bs \in Seq(HostBinds)
  PROVE  /\ Mounted(bs) \in Places /\ Opened(bs) \in Places
         /\ Mounted(bs) # Overlay /\ ~ReadOnly(bs) =>
              \E i \in Above(bs) : PlaceOf(bs[i]) = Mounted(bs) /\ bs[i].mode = "rw"
         /\ Opened(bs) # Overlay /\ Writable(bs) =>
              \E i \in Above(bs) : PlaceOf(bs[i]) = Opened(bs) /\ bs[i].mode = "rw"
<1>1. Len(bs) \in Nat /\ \A i \in 1 .. Len(bs) : bs[i] \in HostBinds
  BY ElementOfSeq, LenProperties
<1>2. ASSUME NEW i \in Above(bs)
      PROVE  i # 0 /\ PlaceOf(bs[i]) \in Places /\ bs[i].mode \in {"ro", "rw"}
  <2>1. i \in 1 .. Len(bs) /\ bs[i].mount \in Over
    BY DEF Above
  <2>2. PICK h \in Hosts, m \in Mounts, mode \in {"ro", "rw"} : bs[i] = Bind(h, m, mode)
    BY <1>1, <2>1 DEF HostBinds
  <2> QED BY <2>1, <2>2 DEF Bind, PlaceOf, Places
<1>3. CASE Above(bs) = {}
  BY <1>3 DEF Mounted, Opened, First, Places
<1>4. CASE Above(bs) # {}
  <2> DEFINE last  == CHOOSE i \in Above(bs) : \A j \in Above(bs) : j <= i
             first == CHOOSE i \in Above(bs) : \A j \in Above(bs) : i <= j
  <2>1. last \in Above(bs) /\ first \in Above(bs)
    BY <1>1, <1>4, Extremes
  <2>2. Mounted(bs) = PlaceOf(bs[last]) /\ (ReadOnly(bs) <=> bs[last].mode = "ro")
    BY <1>4 DEF Mounted, ReadOnly
  <2>3. First(bs) = first
    BY <1>4 DEF First
  <2> HIDE DEF last, first
  <2>4. Opened(bs) = PlaceOf(bs[first]) /\ (Writable(bs) <=> bs[first].mode # "ro")
    BY <1>2, <2>1, <2>3 DEF Opened, Writable
  <2> QED BY <1>2, <2>1, <2>2, <2>4
<1> QED BY <1>3, <1>4

-------------------------------------------------------------------------------
(* The shape of the state *)

Steps == {"idle", "realpath", "test", "mkdir", "tee", "wc", "sed", "grep", "cat", "mv", "rm"}
Replies == {"none", "bound", "error", "redirected", "rejected", "missing", "exists",
            "written", "updated", "content", "matches", "notfound", "ambiguous", "failed"}

\* The binds are binds, there is a disk at every place, and each tool is at one of its
\* own commands, in a call that has not replied.
Shape ==
  /\ binds \in Seq(HostBinds) /\ DOMAIN disk = Places
  /\ pc \in Steps /\ reply \in Replies
  /\ pc # "idle" => reply = "none"
  /\ call.tool \in {"read", "write", "edit", "grep"}
  /\ pc \in {"wc", "sed"} => call.tool = "read"
  /\ pc = "grep" => call.tool = "grep"
  /\ pc = "mkdir" => call.tool = "write"
  /\ pc \in {"cat", "mv", "rm"} => call.tool = "edit"
  /\ pc = "tee" => call.tool \in {"edit", "write"}
  /\ pc = "mv" => ~ReadOnly(binds)
  /\ call.tool = "write" /\ pc # "idle" => text \in Texts

LEMMA ShapeInit == ASSUME Init PROVE Shape
<1>1. binds \in Seq(HostBinds)
  <2>0. PICK given \in Given : \E ds \in Defaults(given) : binds \in Seeded(ds)
    BY DEF Init
  <2>1. PICK ds \in Defaults(given) : binds \in Seeded(ds)
    BY <2>0
  <2>2. given \in Seq(HostBinds)
    BY FilesAssumption
  <2>3. Bind(Cwd, Root, "rw") \in HostBinds
    BY BindsAssumption DEF HostBinds
  <2>4. ds \in Seq(HostBinds)
    BY <2>1, <2>2, <2>3, AppendProperties DEF Defaults
  <2> DEFINE kept == {i \in 1 .. Len(ds) :
                        \A j \in 1 .. i - 1 : ds[j].mount # ds[i].mount}
             n == Cardinality(kept)
  <2>5. PICK f \in [1 .. n -> kept] : binds = [k \in DOMAIN f |-> ds[f[k]]]
    BY <2>1 DEF Seeded
  <2>6. n \in Nat
    <3>1. IsFiniteSet(1 .. Len(ds))
      BY <2>4, FS_Interval, LenProperties
    <3> QED BY <3>1, FS_Subset, FS_CardinalityType
  <2>7. \A k \in 1 .. n : ds[f[k]] \in HostBinds
    BY <2>4, <2>5, ElementOfSeq
  <2>8. binds \in [1 .. n -> HostBinds]
    BY <2>5, <2>7
  <2> QED BY <2>6, <2>8, SeqDef
<1>2. DOMAIN disk = Places
  BY DEF Init
<1> QED BY <1>1, <1>2 DEF Init, Shape, Steps, Replies, Write

\* A step is one of an operation, of a host, or of a call, or changes at most the links.
Rests == UNCHANGED <<binds, file, pc, call, text, total, reply, aux>>

LEMMA Moves ==
  [Next]_vars => \/ \E b \in HostBinds : BindHostDir(b)
                 \/ \E t \in Texts : Redirect(t) \/ HostWrites(t)
                 \/ \E t \in Texts, to \in Linked : RedirectLinked(t, to)
                 \/ \E c \in Calls, t \in Texts : Begin(c, t)
                 \/ \E how \in {"ok", "refused", "cut"} : Command(how)
                 \/ Rests
BY DEF Next, LinkMade, Rests, vars

\* Every step keeps the shape.
LEMMA ShapeStep == ASSUME Shape, [Next]_vars PROVE Shape'
<1> USE DEF Shape, Steps, Replies
<1>1. ASSUME NEW b \in HostBinds, BindHostDir(b) PROVE Shape'
  BY <1>1, AppendProperties DEF BindHostDir, file, aux
<1>2. ASSUME NEW t \in Texts, Redirect(t) PROVE Shape'
  BY <1>2 DEF Redirect, aux
<1>7. ASSUME NEW t \in Texts, NEW to \in Linked, RedirectLinked(t, to) PROVE Shape'
  BY <1>7 DEF RedirectLinked, aux
<1>3. ASSUME NEW t \in Texts, HostWrites(t) PROVE Shape'
  BY <1>3 DEF HostWrites
<1>4. ASSUME NEW c \in Calls, NEW t \in Texts, Begin(c, t) PROVE Shape'
  <2>1. c.tool \in {"read", "write", "edit", "grep"}
    BY DEF Calls, Read, Grep, Edit, Write
  <2> QED BY <1>4, <2>1 DEF Begin
<1>5. ASSUME NEW how \in {"ok", "refused", "cut"}, Command(how) PROVE Shape'
  <2> USE DEF Ends, Goto, Reply, file
  <2>1. CASE Realpath(how)
    BY <2>1 DEF Realpath
  <2>2. CASE Test(how)
    BY <2>2 DEF Test, AfterTest
  <2>3. CASE Wc(how)
    BY <2>3 DEF Wc
  <2>4. CASE Sed(how)
    BY <2>4 DEF Sed
  <2>5. CASE GrepRun(how)
    BY <2>5 DEF GrepRun
  <2>6. CASE Cat(how)
    BY <2>6 DEF Cat
  <2>7. CASE Mkdir(how)
    BY <2>7 DEF Mkdir
  <2>8. CASE Tee(how)
    BY <2>8 DEF Tee, ReadOnly, Above
  <2>9. CASE Mv(how)
    BY <2>9 DEF Mv, Renamed
  <2>10. CASE Rm(how)
    BY <2>10 DEF Rm
  <2> QED
    BY <1>5, <2>1, <2>2, <2>3, <2>4, <2>5, <2>6, <2>7, <2>8, <2>9, <2>10 DEF Command
<1>6. CASE Rests
  BY <1>6 DEF Rests, file, aux
<1> QED BY <1>1, <1>2, <1>3, <1>4, <1>5, <1>6, <1>7, Moves

\* What the theorems below rest on.
THEOREM WellShaped == Spec => []Shape
<1>1. Init => Shape
  BY ShapeInit
<1>2. Shape /\ [Next]_vars => Shape'
  BY ShapeStep
<1> QED BY <1>1, <1>2, PTL DEF Spec

-------------------------------------------------------------------------------
(* edit and write_file *)

\* What was written is seen, and what was left alone stays.
LEMMA Puts ==
  ASSUME Shape, UNCHANGED binds, NEW t, disk' = [disk EXCEPT ![Here] = t]
  PROVE  Now' = t
<1>1. Here \in DOMAIN disk
  BY Shows DEF Shape, Here
<1> QED BY <1>1 DEF Now, Here

LEMMA Leaves ==
  ASSUME UNCHANGED <<binds, disk>>
  PROVE  Now' = Now
BY DEF Now, Here

\* Until its mv, edit has not touched the file; what it is about to move there is the
\* whole text, and that is what it was told to write.
EditInv ==
  Called("edit") /\ ~touched =>
    /\ Now \in {before, text}
    /\ pc \notin {"idle", "rm"} => Now = before
    /\ pc = "mv" => temp = text
    /\ (pc \in {"tee", "mv"} \/ reply = "updated") /\ "cat" \notin failed =>
         text = Replaced(Decode(before), call.all)
    /\ reply = "updated" => Now = text
    /\ (pc = "rm" \/ reply \in {"missing", "notfound", "ambiguous", "failed"})
         /\ "mv" \notin failed => Now = before

\* The temporary file is there between tee and rm only.
TempInv ==
  Called("edit") =>
    /\ pc \notin {"idle", "mv", "rm"} => temp = Absent
    /\ pc = "idle" => temp = Absent \/ "rm" \in failed

\* write_file touches the file in its tee, which it reaches only if there is no file
\* or the test for it failed.
WriteInv ==
  Called("write") /\ ~touched =>
    /\ pc # "idle" => Now = before
    /\ pc \in {"mkdir", "tee"} => before = Absent \/ "test" \in failed
    /\ before # Absent /\ "test" \notin failed => Now = before
    /\ reply = "written" => Now = text
    /\ reply \in {"exists", "failed"} /\ "tee" \notin failed => Now = before

CallInv == EditInv /\ TempInv /\ WriteInv

\* A command of a call keeps it.
LEMMA CommandStep ==
  ASSUME Shape, CallInv, NEW how \in {"ok", "refused", "cut"}, Command(how)
  PROVE  CallInv'
<1> USE DEF CallInv, EditInv, TempInv, WriteInv, Called, Ends, Goto, Reply, file
<1>1. pc # "idle" /\ UNCHANGED <<binds, call, before, touched>>
  BY DEF Command, Realpath, Test, Wc, Sed, GrepRun, Cat, Mkdir, Tee, Mv, Rm
<1>2. reply = "none" /\ failed \subseteq failed'
  BY <1>1 DEF Shape, Command, Realpath, Test, Wc, Sed, GrepRun, Cat, Mkdir, Tee, Mv, Rm
<1>3. CASE Realpath(how)
  BY <1>1, <1>2, <1>3, Leaves DEF Realpath
<1>4. CASE Test(how)
  BY <1>1, <1>2, <1>4, Leaves DEF Test, AfterTest
<1>5. CASE Wc(how)
  BY <1>1, <1>2, <1>5 DEF Wc, Shape
<1>6. CASE Sed(how)
  BY <1>1, <1>2, <1>6 DEF Sed, Shape
<1>7. CASE GrepRun(how)
  BY <1>1, <1>2, <1>7 DEF GrepRun, Shape
<1>8. CASE Cat(how)
  BY <1>1, <1>2, <1>8, Leaves DEF Cat, Shape
<1>9. CASE Mkdir(how)
  BY <1>1, <1>2, <1>9, Leaves DEF Mkdir, Shape
<1>10. CASE Tee(how)
  <2>1. CASE call.tool = "edit"
    <3>1. /\ UNCHANGED <<disk, text>>
          /\ pc' \in {"mv", "rm"} /\ UNCHANGED reply
          /\ pc' = "mv" => temp' = text
      BY <1>10, <2>1 DEF Tee
    <3>2. Now' = Now
      BY <1>1, <3>1, Leaves
    <3> QED BY <1>1, <1>2, <1>10, <2>1, <3>1, <3>2 DEF Tee
  <2>2. CASE call.tool # "edit"
    <3> DEFINE ro == how = "refused" \/ ReadOnly(binds)
               whole == how = "ok" /\ ~ReadOnly(binds)
    <3>1. PICK t : /\ disk' = IF t = Absent THEN disk ELSE [disk EXCEPT ![Here] = t]
                   /\ ro => t = Absent
                   /\ whole => t = text
      <4> DEFINE Of(t) == disk' = IF t = Absent THEN disk ELSE [disk EXCEPT ![Here] = t]
      <4>1. CASE ro
        <5>1. Of(Absent)
          BY <1>10, <2>2, <4>1 DEF Tee
        <5> QED BY <4>1, <5>1
      <4>2. CASE whole
        <5>1. Of(text)
          BY <1>10, <2>2, <4>2 DEF Tee
        <5> QED BY <4>2, <5>1
      <4>3. CASE ~ro /\ ~whole
        <5>1. PICK t \in Parts(text) \cup {Absent} : Of(t)
          BY <1>10, <2>2, <4>3 DEF Tee
        <5> QED BY <4>3, <5>1
      <4> QED BY <4>1, <4>2, <4>3
    <3>2. /\ UNCHANGED text /\ pc' = "idle"
          /\ reply' = IF whole THEN "written" ELSE "failed"
      BY <1>10, <2>2 DEF Tee
    <3>3. text # Absent
      BY <1>1, <2>2, <1>10, FilesAssumption DEF Shape, Tee
    <3> QED BY <1>1, <1>2, <1>10, <2>2, <3>1, <3>2, <3>3, Puts, Leaves DEF Tee
  <2> QED BY <2>1, <2>2
<1>11. CASE Mv(how)
  <2>1. CASE how # "ok" /\ UNCHANGED file
    BY <1>1, <1>2, <1>11, <2>1, Leaves DEF Mv, Shape
  <2>2. CASE Renamed
    <3>1. Now' = temp
      BY <1>1, <2>2, Puts DEF Renamed
    <3> QED BY <1>1, <1>2, <1>11, <2>2, <3>1 DEF Mv, Renamed, Shape
  <2> QED BY <1>11, <2>1, <2>2 DEF Mv
<1>12. CASE Rm(how)
  BY <1>1, <1>2, <1>12, Leaves DEF Rm, Shape
<1> QED
  BY <1>3, <1>4, <1>5, <1>6, <1>7, <1>8, <1>9, <1>10, <1>11, <1>12 DEF Command

\* Every step keeps it.
LEMMA CallStep == ASSUME Shape, CallInv, [Next]_vars PROVE CallInv'
<1>1. ASSUME NEW b \in HostBinds, BindHostDir(b) PROVE CallInv'
  <2>1. reply' \in {"bound", "error"}
    BY <1>1 DEF BindHostDir
  <2> QED BY <2>1 DEF CallInv, EditInv, TempInv, WriteInv, Called
<1>2. ASSUME NEW t \in Texts, Redirect(t) PROVE CallInv'
  <2>1. reply' \in {"redirected", "rejected"}
    BY <1>2 DEF Redirect
  <2> QED BY <2>1 DEF CallInv, EditInv, TempInv, WriteInv, Called
<1>3. ASSUME NEW t \in Texts, HostWrites(t) PROVE CallInv'
  BY <1>3 DEF HostWrites, CallInv, EditInv, TempInv, WriteInv, Called
<1>4. ASSUME NEW c \in Calls, NEW t \in Texts, Begin(c, t) PROVE CallInv'
  <2>1. Now' = before'
    BY <1>4, Leaves DEF Begin
  <2> QED BY <1>4, <2>1 DEF Begin, CallInv, EditInv, TempInv, WriteInv, Called
<1>5. ASSUME NEW how \in {"ok", "refused", "cut"}, Command(how) PROVE CallInv'
  BY <1>5, CommandStep
<1>6. CASE Rests
  <2>1. Now' = Now
    BY <1>6, Leaves DEF Rests, file
  <2> QED BY <1>6, <2>1 DEF Rests, file, aux, CallInv, EditInv, TempInv, WriteInv, Called
<1>7. ASSUME NEW t \in Texts, NEW to \in Linked, RedirectLinked(t, to) PROVE CallInv'
  <2>1. reply' = "redirected"
    BY <1>7 DEF RedirectLinked
  <2> QED BY <2>1 DEF CallInv, EditInv, TempInv, WriteInv, Called
<1> QED BY <1>1, <1>2, <1>3, <1>4, <1>5, <1>6, <1>7, Moves

\* The invariant of edit and write_file.
THEOREM CallsKept == Spec => []CallInv
<1>1. Init => CallInv
  BY DEF Init, CallInv, EditInv, TempInv, WriteInv, Called, Write
<1>2. Shape /\ CallInv /\ [Next]_vars => CallInv'
  BY CallStep
<1> QED BY <1>1, <1>2, WellShaped, PTL DEF Spec

\* "The update is atomic": whatever fails, and for any texts and binds, the file is as
\* it was or wholly replaced.
THEOREM EditIsAtomic == Spec => []EditAtomic
<1>1. CallInv => EditAtomic
  BY DEF CallInv, EditInv, EditAtomic
<1> QED BY <1>1, CallsKept, PTL

\* An edit that says so did what it was told to, and one that fails did nothing.
THEOREM EditIsTrue == Spec => []EditTrue
<1>1. CallInv => EditTrue
  BY DEF CallInv, EditInv, EditTrue, Called
<1> QED BY <1>1, CallsKept, PTL

\* The temporary file of an edit goes.
THEOREM TempGoes == Spec => []TempGone
<1>1. CallInv => TempGone
  BY DEF CallInv, TempInv, TempGone
<1> QED BY <1>1, CallsKept, PTL

\* write_file overwrites nothing, unless its test failed, and replies what it did.
THEOREM WriteIsTrue == Spec => []WriteTrue
<1>1. CallInv => WriteTrue
  BY DEF CallInv, WriteInv, WriteTrue
<1> QED BY <1>1, CallsKept, PTL

-------------------------------------------------------------------------------
(* Host directories *)

\* A command of a tool changes what the sandbox shows, if it may be written.
LEMMA CommandWrites ==
  ASSUME Shape, NEW how \in {"ok", "refused", "cut"}, Command(how), NEW pl \in Places,
         disk'[pl] # disk[pl]
  PROVE  pl = Here /\ ~ReadOnly(binds)
<1>1. CASE Tee(how)
  BY <1>1 DEF Tee, Ends, Shape
<1>2. CASE Mv(how)
  BY <1>2 DEF Mv, Renamed, Ends, Shape, file
<1>3. CASE ~Tee(how) /\ ~Mv(how)
  BY <1>3 DEF Command, Realpath, Test, Wc, Sed, GrepRun, Cat, Mkdir, Rm, file
<1> QED BY <1>1, <1>2, <1>3

\* No tool and no redirect writes where no bind lets it, for any binds one over another
\* and any links, unless a link leads there that lies where a redirect may be opened.
THEOREM ReadOnlyStays == Spec => ReadOnlyKept
<1> DEFINE Through(pl) == /\ <<Opened(binds), pl>> \in links
                          /\ Opened(binds) = Overlay \/ Allowed(Opened(binds))
<1>1. ASSUME Shape, [Next]_vars, NEW pl \in Places, disk'[pl] # disk[pl], pl # Overlay,
             ~ \E t \in Texts : HostWrites(t)
      PROVE  Allowed(pl) \/ Through(pl)
  <2>1. CASE \E t \in Texts : Redirect(t)
    <3>1. Writable(binds) /\ pl = Opened(binds)
      BY <1>1, <2>1 DEF Redirect, Shape
    <3> QED BY <1>1, <3>1, Shows DEF Shape, Allowed
  <2>2. CASE \E how \in {"ok", "refused", "cut"} : Command(how)
    <3>1. pl = Here /\ ~ReadOnly(binds)
      BY <1>1, <2>2, CommandWrites
    <3> QED BY <1>1, <3>1, Shows DEF Shape, Here, Allowed
  <2>3. CASE UNCHANGED disk
    BY <1>1, <2>3
  <2>4. ASSUME NEW t \in Texts, NEW to \in Linked, RedirectLinked(t, to)
        PROVE  Through(pl)
    <3>1. Writable(binds) /\ <<Opened(binds), pl>> \in links
      BY <1>1, <2>4 DEF RedirectLinked, Shape
    <3> QED BY <1>1, <3>1, Shows DEF Shape, Allowed
  <2> QED
    BY <1>1, <2>1, <2>2, <2>3, <2>4, Moves DEF BindHostDir, Begin, Rests, file
<1>2. Shape /\ [Next]_vars =>
        [(\E t \in Texts : HostWrites(t)) \/
         \A pl \in Places : disk'[pl] # disk[pl] /\ pl # Overlay =>
           \/ Allowed(pl)
           \/ /\ <<Opened(binds), pl>> \in links
              /\ Opened(binds) = Overlay \/ Allowed(Opened(binds))]_vars
  BY <1>1
<1> QED BY <1>2, WellShaped, PTL DEF Spec, ReadOnlyKept

\* One bind above the file at most: the sandbox and the server mean the same.
LEMMA OneBind ==
  ASSUME NEW bs \in Seq(HostBinds), Cardinality(Above(bs)) <= 1
  PROVE  Opened(bs) = Mounted(bs)
<1>1. IsFiniteSet(Above(bs)) /\ Cardinality(Above(bs)) \in Nat /\ Above(bs) \subseteq Nat \ {0}
  <2>1. IsFiniteSet(1 .. Len(bs)) /\ Above(bs) \subseteq 1 .. Len(bs)
    BY FS_Interval, LenProperties DEF Above
  <2> QED BY <2>1, FS_Subset, FS_CardinalityType
<1>2. CASE Above(bs) = {}
  BY <1>2 DEF Opened, First, Mounted
<1>3. CASE Above(bs) # {}
  <2>1. \A i, j \in Above(bs) : i = j
    <3>1. SUFFICES ASSUME NEW i \in Above(bs), NEW j \in Above(bs), i # j PROVE FALSE
      OBVIOUS
    <3> DEFINE one == {i}
    <3>2. IsFiniteSet(one) /\ Cardinality(one) = 1 /\ j \notin one
      BY <3>1, FS_Singleton
    <3> HIDE DEF one
    <3>3. Cardinality(one \cup {j}) = Cardinality(one) + 1
      BY <3>2, FS_AddElement, Zenon
    <3>4. one \cup {j} \subseteq Above(bs)
      BY <3>1 DEF one
    <3>5. Cardinality(one \cup {j}) <= Cardinality(Above(bs))
      BY <1>1, <3>4, FS_Subset
    <3> QED BY <1>1, <3>2, <3>3, <3>5
  <2>2. PICK i \in Above(bs) : Above(bs) = {i}
    BY <1>3, <2>1
  <2>3. (CHOOSE k \in Above(bs) : \A j \in Above(bs) : j <= k) = i
    BY <1>1, <2>2
  <2>4. First(bs) = i
    BY <1>1, <2>2 DEF First
  <2> QED BY <1>1, <1>3, <2>2, <2>3, <2>4 DEF Opened, Mounted
<1> QED BY <1>2, <1>3

\* A redirect changes the file that the sandbox shows, below one bind or none.
THEOREM RedirectIsShown == Spec => RedirectShown
<1>1. ASSUME Shape, NEW t \in Texts, Redirect(t), Writable(binds),
             Cardinality(Above(binds)) <= 1
      PROVE  Now' = t
  <2>1. Opened(binds) = Here
    BY <1>1, OneBind DEF Shape, Here
  <2>2. disk' = [disk EXCEPT ![Here] = t] /\ UNCHANGED binds
    BY <1>1, <2>1 DEF Redirect
  <2> QED BY <1>1, <2>2, Puts
<1>2. Shape /\ [Next]_vars =>
        [\A t \in Texts :
           Redirect(t) /\ Writable(binds) /\ Cardinality(Above(binds)) <= 1 => Now' = t]_vars
  BY <1>1
<1> QED BY <1>2, WellShaped, PTL DEF Spec, RedirectShown

-------------------------------------------------------------------------------
(* read_file *)

MaybeText == Seq(Lines) \cup {Absent}

\* Files hold texts, and a file that a tool reads is there.
Typed ==
  /\ \A pl \in Places : disk[pl] \in MaybeText
  /\ call.tool \in {"edit", "write"} => text \in Seq(Lines)
  /\ temp \in MaybeText
  /\ pc \in {"wc", "sed", "cat", "grep"} => Now # Absent
  /\ call.tool = "grep" => call.limit \in Nat
  /\ call.tool = "read" => call.start \in Nat \ {0} /\ call.limit \in Nat \ {0}

\* Texts that are made from texts.
LEMMA Made ==
  ASSUME NEW t \in Seq(Lines)
  PROVE  /\ Decode(t) \in Seq(Lines) /\ Len(Decode(t)) = Len(t)
         /\ \A p \in Parts(t) : p \in Seq(Lines)
         /\ \A all : Replaced(t, all) \in Seq(Lines)
<1>1. Len(t) \in Nat /\ \A i \in 1 .. Len(t) : t[i] \in Lines
  BY ElementOfSeq, LenProperties
<1>2. Decode(t) \in [1 .. Len(t) -> Lines]
  BY <1>1 DEF Decode, Lines
<1>3. ASSUME NEW all PROVE Replaced(t, all) \in [1 .. Len(t) -> Lines]
  BY <1>1 DEF Replaced, Lines
<1>4. ASSUME NEW p \in Parts(t) PROVE p \in Seq(Lines)
  <2>1. PICK n \in 0 .. Len(t) : p = SubSeq(t, 1, n)
    BY DEF Parts, Prefixes
  <2>2. \A i \in 1 .. n : t[i] \in Lines
    BY <1>1
  <2> QED BY <1>1, <2>1, <2>2, SubSeqProperties
<1>5. Decode(t) \in Seq(Lines) /\ Len(Decode(t)) = Len(t)
  BY <1>1, <1>2, SeqDef, LenProperties
<1> QED BY <1>1, <1>3, <1>4, <1>5, SeqDef

\* Every step keeps the types.
LEMMA TypedStep == ASSUME Shape, Typed, [Next]_vars PROVE Typed'
<1> USE DEF Typed, MaybeText
<1>0. \A t \in Texts : t \in Seq(Lines) /\ t # Absent
  BY FilesAssumption
<1>1. ASSUME NEW b \in HostBinds, BindHostDir(b) PROVE Typed'
  BY <1>1 DEF BindHostDir, file
<1>2. ASSUME NEW t \in Texts, Redirect(t) PROVE Typed'
  <2>1. /\ pc' = "idle" /\ UNCHANGED <<text, temp, call>>
        /\ disk' = disk \/ disk' = [disk EXCEPT ![Opened(binds)] = t]
    BY <1>2 DEF Redirect
  <2>2. \A pl \in Places : disk'[pl] \in MaybeText
    BY <1>0, <2>1 DEF Shape
  <2> QED BY <2>1, <2>2
<1>3. ASSUME NEW t \in Texts, HostWrites(t) PROVE Typed'
  <2>1. Now' = t
    BY <1>3, Puts DEF HostWrites
  <2> QED BY <1>0, <1>3, <2>1 DEF HostWrites
<1>4. ASSUME NEW c \in Calls, NEW t \in Texts, Begin(c, t) PROVE Typed'
  <2>1. /\ c.tool = "read" => c.start \in Nat \ {0} /\ c.limit \in Nat \ {0}
        /\ c.tool = "grep" => c.limit \in Nat
    BY FilesAssumption DEF Calls, Read, Grep, Edit, Write
  <2>2. <<>> \in Seq(Lines)
    OBVIOUS
  <2> QED BY <1>0, <1>4, <2>1, <2>2 DEF Begin
<1>5. ASSUME NEW how \in {"ok", "refused", "cut"}, Command(how) PROVE Typed'
  <2> USE DEF Ends, Goto, Reply, file
  <2>1. CASE Realpath(how)
    BY <2>1, Leaves DEF Realpath
  <2>2. CASE Test(how)
    BY <2>2, Leaves DEF Test, AfterTest
  <2>3. CASE Wc(how)
    BY <2>3, Leaves DEF Wc
  <2>4. CASE Sed(how)
    BY <2>4, Leaves DEF Sed, Shape
  <2>5. CASE GrepRun(how)
    BY <2>5 DEF GrepRun, Shape
  <2>6. CASE Cat(how)
    <3>1. Now \in Seq(Lines)
      BY <2>6, Shows DEF Cat, Shape, Now, Here
    <3>2. PICK t : /\ how = "ok" => t = Decode(Now)
                   /\ how = "refused" => t = <<Busy>>
                   /\ how = "cut" => t \in Parts(Decode(Now))
                   /\ text' = Replaced(t, call.all) /\ pc' \in {"idle", "tee"}
      BY <2>6 DEF Cat
    <3>3. <<Busy>> \in Seq(Lines)
      BY DEF Lines
    <3>4. t \in Seq(Lines)
      BY <3>1, <3>2, <3>3, Made
    <3>5. text' \in Seq(Lines)
      BY <3>2, <3>4, Made
    <3> QED BY <2>6, <3>2, <3>5 DEF Cat
  <2>7. CASE Mkdir(how)
    BY <2>7 DEF Mkdir
  <2>8. CASE Tee(how)
    <3>1. text \in Seq(Lines)
      BY <2>8 DEF Tee, Shape
    <3>2. \A p \in Parts(text) : p \in Seq(Lines)
      BY <3>1, Made
    <3>3. CASE call.tool = "edit"
      BY <2>8, <3>1, <3>2, <3>3 DEF Tee
    <3>4. CASE call.tool # "edit"
      <4>1. PICK t \in MaybeText :
              disk' = IF t = Absent THEN disk ELSE [disk EXCEPT ![Here] = t]
        BY <2>8, <3>1, <3>2, <3>4 DEF Tee
      <4> QED BY <2>8, <3>4, <4>1 DEF Tee
    <3> QED BY <3>3, <3>4
  <2>9. CASE Mv(how)
    <3>1. pc' \in {"idle", "rm"} /\ UNCHANGED <<text, call>>
      BY <2>9 DEF Mv
    <3>2. temp' \in MaybeText /\ \A pl \in Places : disk'[pl] \in MaybeText
      BY <2>9 DEF Mv, Renamed, Shape
    <3> QED BY <3>1, <3>2
  <2>10. CASE Rm(how)
    BY <2>10 DEF Rm
  <2> QED
    BY <1>5, <2>1, <2>2, <2>3, <2>4, <2>5, <2>6, <2>7, <2>8, <2>9, <2>10 DEF Command
<1>6. CASE Rests
  BY <1>6, Leaves DEF Rests, file, aux
<1>7. ASSUME NEW t \in Texts, NEW to \in Linked, RedirectLinked(t, to) PROVE Typed'
  <2>1. /\ pc' = "idle" /\ UNCHANGED <<text, temp, call>>
        /\ disk' = [disk EXCEPT ![to] = t]
    BY <1>7 DEF RedirectLinked, Shape
  <2>2. \A pl \in Places : disk'[pl] \in MaybeText
    BY <1>0, <2>1 DEF Shape
  <2> QED BY <2>1, <2>2
<1> QED BY <1>1, <1>2, <1>3, <1>4, <1>5, <1>6, <1>7, Moves

\* While read_file is at work the file is the one it found; with no command gone wrong
\* its count and its lines are those of that file.
ReadInv ==
  Called("read") /\ ~touched =>
    /\ pc # "idle" => Now = before
    /\ pc = "sed" \/ reply = "content" => before \in Seq(Lines)
    /\ (pc = "sed" \/ reply = "content") /\ failed = {} => total = Newlines(before)
    /\ reply = "content" /\ failed = {} =>
         text = Slice(Decode(before), call.start, call.limit)

\* Every step keeps it.
LEMMA ReadStep == ASSUME Shape, Typed, ReadInv, [Next]_vars PROVE ReadInv'
<1> USE DEF ReadInv, Called
<1>1. ASSUME NEW b \in HostBinds, BindHostDir(b) PROVE ReadInv'
  <2>1. reply' \in {"bound", "error"}
    BY <1>1 DEF BindHostDir
  <2> QED BY <2>1
<1>2. ASSUME NEW t \in Texts, Redirect(t) PROVE ReadInv'
  <2>1. reply' \in {"redirected", "rejected"}
    BY <1>2 DEF Redirect
  <2> QED BY <2>1
<1>3. ASSUME NEW t \in Texts, HostWrites(t) PROVE ReadInv'
  BY <1>3 DEF HostWrites
<1>4. ASSUME NEW c \in Calls, NEW t \in Texts, Begin(c, t) PROVE ReadInv'
  <2>1. Now' = before'
    BY <1>4, Leaves DEF Begin
  <2> QED BY <1>4, <2>1 DEF Begin
<1>5. ASSUME NEW how \in {"ok", "refused", "cut"}, Command(how) PROVE ReadInv'
  <2> USE DEF Ends, Goto, Reply, file
  <2>1. CASE Realpath(how)
    BY <2>1, Leaves DEF Realpath, Shape
  <2>2. CASE Test(how)
    BY <2>2, Leaves DEF Test, AfterTest, Shape
  <2>3. CASE Wc(how)
    <3>1. Now \in Seq(Lines)
      BY <2>3, Shows DEF Wc, Shape, Typed, MaybeText, Now, Here
    <3>2. how # "ok" => failed' # {}
      BY <2>3 DEF Wc
    <3>3. how = "ok" => total' = Newlines(Now) /\ UNCHANGED failed
      BY <2>3 DEF Wc
    <3> QED BY <2>3, <3>1, <3>2, <3>3, Leaves DEF Wc, Shape
  <2>4. CASE Sed(how)
    <3>1. how # "ok" => failed' # {}
      BY <2>4 DEF Sed
    <3>2. how = "ok" => text' = Slice(Decode(Now), call.start, call.limit) /\ UNCHANGED failed
      BY <2>4 DEF Sed
    <3> QED BY <2>4, <3>1, <3>2 DEF Sed, Shape
  <2>5. CASE GrepRun(how)
    BY <2>5 DEF GrepRun, Shape
  <2>6. CASE Cat(how)
    BY <2>6 DEF Cat, Shape
  <2>7. CASE Mkdir(how)
    BY <2>7 DEF Mkdir, Shape
  <2>8. CASE Tee(how)
    BY <2>8 DEF Tee, Shape
  <2>9. CASE Mv(how)
    BY <2>9 DEF Mv, Shape
  <2>10. CASE Rm(how)
    BY <2>10 DEF Rm, Shape
  <2> QED
    BY <1>5, <2>1, <2>2, <2>3, <2>4, <2>5, <2>6, <2>7, <2>8, <2>9, <2>10 DEF Command
<1>6. CASE Rests
  BY <1>6, Leaves DEF Rests, file, aux
<1>7. ASSUME NEW t \in Texts, NEW to \in Linked, RedirectLinked(t, to) PROVE ReadInv'
  <2>1. reply' = "redirected"
    BY <1>7 DEF RedirectLinked
  <2> QED BY <2>1
<1> QED BY <1>1, <1>2, <1>3, <1>4, <1>5, <1>6, <1>7, Moves

\* The lines that read_file asks for end before the file does exactly when it says so.
LEMMA SliceTells ==
  ASSUME NEW t \in Seq(Lines), NEW start \in Nat \ {0}, NEW limit \in Nat \ {0}
  PROVE  start + Len(Slice(Decode(t), start, limit)) - 1 < Len(t)
           <=> Len(t) >= start + limit
<1>1. Decode(t) \in Seq(Lines) /\ Len(Decode(t)) = Len(t) /\ Len(t) \in Nat
  BY Made, LenProperties
<1> DEFINE end == IF start + limit - 1 < Len(t) THEN start + limit - 1 ELSE Len(t)
<1>2. Slice(Decode(t), start, limit) = SubSeq(Decode(t), start, end)
  BY <1>1 DEF Slice
<1>3. end \in Nat /\ \A i \in start .. end : Decode(t)[i] \in Lines
  BY <1>1, ElementOfSeq
<1>4. Len(SubSeq(Decode(t), start, end)) = IF start <= end THEN end - start + 1 ELSE 0
  <2> HIDE DEF end
  <2> QED BY <1>3, SubSeqProperties
<1> QED BY <1>1, <1>2, <1>4

\* A file of any length: read_file returns the lines that were asked for and tells when
\* lines follow.
THEOREM ReadIsTrue == Spec => []ReadTrue
<1>1. Init => Typed /\ ReadInv
  BY FilesAssumption DEF Init, Typed, MaybeText, ReadInv, Called, Write
<1>2. Shape /\ Typed /\ ReadInv /\ [Next]_vars => Typed' /\ ReadInv'
  BY TypedStep, ReadStep
<1>3. Shape /\ Typed /\ ReadInv => ReadTrue
  BY SliceTells DEF ReadInv, Typed, ReadTrue, Called, Truncated
<1> QED BY <1>1, <1>2, <1>3, WellShaped, PTL DEF Spec

-------------------------------------------------------------------------------
(* grep *)

\* A set of five terms has at most five members.
LEMMA AtMostFive ==
  ASSUME NEW a, NEW b, NEW c, NEW d, NEW e
  PROVE  Cardinality({a, b, c, d, e}) <= 5
<1> DEFINE T == {a, b, c, d, e}
           f == [i \in 1 .. 5 |-> CASE i = 1 -> a [] i = 2 -> b [] i = 3 -> c
                                    [] i = 4 -> d [] OTHER -> e]
<1>1. f[1] = a /\ f[2] = b /\ f[3] = c /\ f[4] = d /\ f[5] = e
  OBVIOUS
<1>2. f \in [1 .. 5 -> T]
  OBVIOUS
<1>3. f \in Surjection(1 .. 5, T)
  <2>1. 1 \in 1 .. 5 /\ 2 \in 1 .. 5 /\ 3 \in 1 .. 5 /\ 4 \in 1 .. 5 /\ 5 \in 1 .. 5
    OBVIOUS
  <2>2. \A x \in T : \E i \in 1 .. 5 : f[i] = x
    <3> HIDE DEF f
    <3> QED BY <1>1, <2>1
  <2> HIDE DEF f, T
  <2> QED BY <1>2, <2>2 DEF Surjection
<1>4. IsFiniteSet(1 .. 5) /\ Cardinality(1 .. 5) = 5
  <2>1. \A n \in Nat : IsFiniteSet(1 .. n) /\ Cardinality(1 .. n) = n
    BY FS_Interval
  <2>2. 5 \in Nat
    OBVIOUS
  <2> QED BY <2>1, <2>2, Zenon
<1> HIDE DEF f, T
<1>5. Cardinality(T) <= 5
  BY <1>3, <1>4, FS_Surjection
<1> QED BY <1>5 DEF T

\* Decoding neither makes nor hides a line with old_string.
LEMMA CountDecoded == ASSUME NEW t PROVE Count(Decode(t)) = Count(t)
<1>1. Old # Raw
  <2> SUFFICES ASSUME Old = Raw PROVE FALSE
    OBVIOUS
  <2>1. Lines = {Old, New, Repl, Unended, Busy}
    BY DEF Lines
  <2>2. Cardinality({Old, New, Repl, Unended, Busy}) <= 5
    BY AtMostFive
  <2> QED BY <2>1, <2>2, FilesAssumption
<1>2. Old # Repl
  <2> SUFFICES ASSUME Old = Repl PROVE FALSE
    OBVIOUS
  <2>1. Lines = {Old, New, Raw, Unended, Busy}
    BY DEF Lines
  <2>2. Cardinality({Old, New, Raw, Unended, Busy}) <= 5
    BY AtMostFive
  <2> QED BY <2>1, <2>2, FilesAssumption
<1>0. Len(t) \in Nat
  BY LenProperties
<1>3. Len(Decode(t)) = Len(t)
  BY <1>0 DEF Decode
<1>4. \A i \in 1 .. Len(t) : Decode(t)[i] = Old <=> t[i] = Old
  BY <1>1, <1>2 DEF Decode
<1>5. {i \in 1 .. Len(Decode(t)) : Decode(t)[i] = Old} = {i \in 1 .. Len(t) : t[i] = Old}
  BY <1>3, <1>4
<1> QED BY <1>5 DEF Count

\* One match more than is returned is enough to know whether there are more.
LEMMA OneMore ==
  ASSUME NEW t \in Seq(Lines), NEW n \in Nat, NEW k \in Nat, k <= n
  PROVE  /\ Slice(Matches(t, n + 1), 1, k) = Matches(t, k)
         /\ Len(Matches(t, n + 1)) > n <=> Count(t) > n
<1>1. Count(t) \in Nat
  <2>1. IsFiniteSet(1 .. Len(t))
    BY FS_Interval, LenProperties
  <2> QED BY <2>1, FS_Subset, FS_CardinalityType DEF Count
<1> DEFINE Found(m) == IF m < Count(t) THEN m ELSE Count(t)
<1>2. \A m \in Nat : Found(m) \in Nat /\ Matches(t, m) = [i \in 1 .. Found(m) |-> Old]
  BY <1>1 DEF Matches
<1>3. \A m \in Nat : Len(Matches(t, m)) = Found(m) /\ Matches(t, m) \in Seq(Lines)
  <2>1. ASSUME NEW m \in Nat
        PROVE  Len(Matches(t, m)) = Found(m) /\ Matches(t, m) \in Seq(Lines)
    <3>1. Matches(t, m) \in [1 .. Found(m) -> Lines] /\ Found(m) \in Nat
      BY <1>2 DEF Lines
    <3> HIDE DEF Found
    <3> QED BY <3>1, LenProperties, SeqDef
  <2> QED BY <2>1
<1>4. Len(Matches(t, n + 1)) > n <=> Count(t) > n
  <2>1. Len(Matches(t, n + 1)) = Found(n + 1)
    BY <1>3
  <2> QED BY <1>1, <2>1
<1>5. Slice(Matches(t, n + 1), 1, k) = SubSeq(Matches(t, n + 1), 1, Found(k))
  <2>1. Len(Matches(t, n + 1)) = Found(n + 1)
    BY <1>3
  <2> QED BY <1>1, <2>1 DEF Slice
<1>6. SubSeq(Matches(t, n + 1), 1, Found(k)) = [i \in 1 .. Found(k) |-> Old]
  <2>1. \A i \in 1 .. Found(k) : i \in 1 .. Found(n + 1) /\ Matches(t, n + 1)[i] = Old
    BY <1>1, <1>2
  <2>2. Found(k) \in Nat
    BY <1>2
  <2> HIDE DEF Found
  <2> QED BY <2>1, <2>2
<1> QED BY <1>2, <1>4, <1>5, <1>6

\* While grep is at work the file is the one it found; it has found one line more there
\* than it will return, if there are as many.
GrepInv ==
  Called("grep") /\ ~touched =>
    /\ pc # "idle" => Now = before
    /\ reply = "matches" => before \in Seq(Lines)
    /\ reply = "matches" /\ "grep" \notin failed =>
         text = Matches(Decode(before), call.limit + 1)

\* Every step keeps it.
LEMMA GrepStep == ASSUME Shape, Typed, GrepInv, [Next]_vars PROVE GrepInv'
<1> USE DEF GrepInv, Called
<1>1. ASSUME NEW b \in HostBinds, BindHostDir(b) PROVE GrepInv'
  <2>1. reply' \in {"bound", "error"}
    BY <1>1 DEF BindHostDir
  <2> QED BY <2>1
<1>2. ASSUME NEW t \in Texts, Redirect(t) PROVE GrepInv'
  <2>1. reply' \in {"redirected", "rejected"}
    BY <1>2 DEF Redirect
  <2> QED BY <2>1
<1>3. ASSUME NEW t \in Texts, HostWrites(t) PROVE GrepInv'
  BY <1>3 DEF HostWrites
<1>4. ASSUME NEW c \in Calls, NEW t \in Texts, Begin(c, t) PROVE GrepInv'
  <2>1. Now' = before'
    BY <1>4, Leaves DEF Begin
  <2> QED BY <1>4, <2>1 DEF Begin
<1>5. ASSUME NEW how \in {"ok", "refused", "cut"}, Command(how) PROVE GrepInv'
  <2> USE DEF Ends, Goto, Reply, file
  <2>1. CASE Realpath(how)
    BY <2>1, Leaves DEF Realpath, Shape
  <2>2. CASE Test(how)
    BY <2>2, Leaves DEF Test, AfterTest, Shape
  <2>3. CASE Wc(how)
    BY <2>3 DEF Wc, Shape
  <2>4. CASE Sed(how)
    BY <2>4 DEF Sed, Shape
  <2>5. CASE GrepRun(how)
    <3>1. Now \in Seq(Lines)
      BY <2>5, Shows DEF GrepRun, Shape, Typed, MaybeText, Now, Here
    <3>2. how # "ok" => "grep" \in failed'
      BY <2>5 DEF GrepRun
    <3>3. how = "ok" => text' = Matches(Decode(Now), call.limit + 1)
      BY <2>5 DEF GrepRun
    <3> QED BY <2>5, <3>1, <3>2, <3>3 DEF GrepRun, Shape
  <2>6. CASE Cat(how)
    BY <2>6 DEF Cat, Shape
  <2>7. CASE Mkdir(how)
    BY <2>7 DEF Mkdir, Shape
  <2>8. CASE Tee(how)
    BY <2>8 DEF Tee, Shape
  <2>9. CASE Mv(how)
    BY <2>9 DEF Mv, Shape
  <2>10. CASE Rm(how)
    BY <2>10 DEF Rm, Shape
  <2> QED
    BY <1>5, <2>1, <2>2, <2>3, <2>4, <2>5, <2>6, <2>7, <2>8, <2>9, <2>10 DEF Command
<1>6. CASE Rests
  BY <1>6, Leaves DEF Rests, file, aux
<1>7. ASSUME NEW t \in Texts, NEW to \in Linked, RedirectLinked(t, to) PROVE GrepInv'
  <2>1. reply' = "redirected"
    BY <1>7 DEF RedirectLinked
  <2> QED BY <2>1
<1> QED BY <1>1, <1>2, <1>3, <1>4, <1>5, <1>6, <1>7, Moves

\* A file of any length: grep returns the first matches, as far as they fit, and
\* tells when there are more than were asked for.
THEOREM GrepIsTrue == Spec => []GrepTrue
<1>1. Init => Typed /\ GrepInv
  BY FilesAssumption DEF Init, Typed, MaybeText, GrepInv, Called, Write
<1>2. Shape /\ Typed /\ GrepInv /\ [Next]_vars => Typed' /\ GrepInv'
  BY TypedStep, GrepStep
<1>3. ASSUME Typed, GrepInv PROVE GrepTrue
  <2> SUFFICES ASSUME Called("grep"), reply = "matches", ~touched, "grep" \notin failed
               PROVE  /\ Returned = Matches(Decode(before), Least(call.limit, MaxShown))
                      /\ MoreReturned <=> Count(before) > call.limit
    BY DEF GrepTrue
  <2>1. /\ before \in Seq(Lines) /\ call.limit \in Nat
        /\ text = Matches(Decode(before), call.limit + 1)
    BY <1>3 DEF GrepInv, Typed, Called
  <2>2. Decode(before) \in Seq(Lines)
    BY <2>1, Made
  <2> DEFINE shown == Least(call.limit, MaxShown)
  <2>5. shown \in Nat /\ shown <= call.limit /\ call.limit <= call.limit
    BY <2>1, FilesAssumption DEF Least
  <2> HIDE DEF shown
  <2>3. Slice(text, 1, shown) = Matches(Decode(before), shown)
    BY <2>1, <2>2, <2>5, OneMore
  <2>4. Len(text) > call.limit <=> Count(Decode(before)) > call.limit
    BY <2>1, <2>2, <2>5, OneMore
  <2> QED BY <2>3, <2>4, CountDecoded DEF Returned, MoreReturned, shown
<1> QED BY <1>1, <1>2, <1>3, WellShaped, PTL DEF Spec
===============================================================================
