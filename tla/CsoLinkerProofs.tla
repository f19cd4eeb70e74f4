--------------------------- MODULE CsoLinkerProofs ---------------------------
(* The properties of CsoLinker, for any modules, libraries and worlds, any   *)
(* number of threads and TLS slots, and any size of the loader's tables.     *)
EXTENDS CsoLinker, FiniteSetTheorems, SequenceTheorems, WellFoundedInduction, TLAPS

Mods == Range(Mains)
Dep == [lib : Libs, manual : BOOLEAN]
Frame == [dep : 1 .. MaxDeps, next : Nat \ {0}]

(* What TypeOK does not say: the rest of the types, and that a module has    *)
(* one dependency of each name and no more than the array holds.             *)
Types ==
    /\ TypeOK
    /\ queue \in Seq(Mods)
    /\ k \in Nat /\ rel \in Nat
    /\ deps \in [Mods -> Seq(Dep)]
    /\ linked \in [Mods -> BOOLEAN] /\ unload \in BOOLEAN
    /\ addr \in [Mods -> {"local"} \cup Mods]
    /\ life \in [Mods -> {"none", "loading", "linked", "kept", "gone"}]
    /\ bound \in [Images -> SUBSET Images]
    /\ ctorLog \in Seq(Images)
    /\ visit \in [1 .. MaxDeps -> 0 .. 2]
    /\ stack \in Seq(Frame)

Named ==
    \A m \in Mods :
        /\ Len(deps[m]) <= MaxDeps
        /\ \A i \in DOMAIN deps[m] :
             /\ deps[m][i].lib # m
             /\ deps[m][i].manual <=> deps[m][i].lib \notin world.system
             /\ \A j \in DOMAIN deps[m] : deps[m][i].lib = deps[m][j].lib => i = j

(* Where the loader stands with each module.                                 *)
Loading == {"deps", "tls", "reloc", "unwind", "ctor", "rest"}
Holding == {m \in Mods : life[m] \in {"loading", "linked"}}

Stage ==
    /\ pc = "idle" <=> cur = NoMain
    /\ pc # "idle" => cur \in Holding
    /\ \A m \in Mods : life[m] = "loading" => m = cur
    /\ pc \in Loading \cup {"linked"} => life[cur] = "loading"
    /\ \A i \in 1 .. Len(queue) : life[queue[i]] = "none"
    /\ \A i, j \in 1 .. Len(queue) : queue[i] = queue[j] => i = j
    /\ pc = "release" => k <= Len(deps[cur])
    /\ pc = "fini" => unload
    /\ pc = "release" /\ ~unload => linked[cur]
    /\ pc = "linked" => linked[cur]

(* Nothing is listed for a module that is not loaded.                        *)
Emptied == \A m \in Mods : m \notin Holding => deps[m] = <<>>

(* What has been constructed of each module.                                 *)
Built ==
    /\ \A m \in Mods : linked[m] <=> Main(m) \in Constructed /\ m \in Holding
    /\ \A m \in Mods : life[m] = "linked" => linked[m]
    /\ \A i \in Constructed :
         /\ life[ModuleOf(i)] # "none"
         /\ Main(ModuleOf(i)) \in Constructed \/ (ModuleOf(i) = cur /\ pc \in {"ctor", "rest"})
         /\ ModuleOf(i) \in Holding => i \in LinkedImages(ModuleOf(i))
    /\ pc \in Loading => Main(cur) \notin Constructed
    /\ \A m \in Holding : linked[m] => LinkedImages(m) \subseteq Constructed

(* The positions of m whose image still exists, and those still mapped.      *)
Held(m) == IF m = cur /\ pc = "release" THEN 0 .. k ELSE 0 .. Len(deps[m])
Kept(m) == IF m = cur /\ pc = "release" /\ unload THEN 0 .. k ELSE 0 .. Len(deps[m])

Alive ==
    /\ \A i \in live : /\ ModuleOf(i) \in Holding
                       /\ \E p \in Held(ModuleOf(i)) : i = ImageAt(ModuleOf(i), p)
    /\ \A m \in Holding : \A p \in Held(m) : ImageAt(m, p) \in live

Unloaded(m) == life[m] = "gone" \/ (m = cur /\ pc = "release" /\ unload)

Memory ==
    /\ \A m \in Holding : \A p \in ToLink(m) \cap Kept(m) : ImageAt(m, p) \in mapped
    /\ \A i \in mapped \ leaked : life[ModuleOf(i)] # "kept" =>
          /\ ModuleOf(i) \in Holding
          /\ \E p \in ToLink(ModuleOf(i)) \cap Kept(ModuleOf(i)) : i = ImageAt(ModuleOf(i), p)
    /\ \A i \in Constructed : i \in mapped \/ Unloaded(ModuleOf(i))
    /\ \A i \in Constructed : Unloaded(ModuleOf(i)) => i \in finalised
    /\ finalised \subseteq Constructed
    /\ \A i \in Images : \A p \in bound[i] :
          /\ ModuleOf(p) = ModuleOf(i)
          /\ p \in mapped \/ IsSystem(p) \/ Unloaded(ModuleOf(i))

(* The images whose constructors the loader is about to run.                 *)
Pending == IF pc \in {"unwind", "ctor", "rest"} THEN LinkedImages(cur) ELSE {}

Unwinder ==
    /\ backtrace \cup frames \subseteq Constructed \cup Pending
    /\ \A i \in backtrace : ~Unloaded(ModuleOf(i))
    /\ \A i \in frames : i \in backtrace \/ i \in Pending \/ i \in world.uncopied
                          \/ Cardinality(Constructed) > MaxCustomLibs
    /\ \/ frames \ world.uncopied \subseteq backtrace
       \/ Cardinality(Constructed \cup Pending) > MaxCustomLibs

(* Thread-local storage.                                                     *)
SlotTable ==
    /\ \A s \in Slots : modules[s] # NoImage => modules[s] \in live /\ modId[modules[s]] = s
    /\ \A i \in Images : modId[i] # 0 => i \in live /\ modules[modId[i]] = i

Owned ==
    /\ SlotTable
    /\ pc \in {"deps", "tls"} =>
         \A p \in (IF pc = "tls" THEN k ELSE 0) .. Len(deps[cur]) : modId[ImageAt(cur, p)] = 0

InStep(th) ==
    /\ th.gen <= generation
    /\ th.arena \subseteq th.fallback
    /\ ~th.wrongFree
    /\ th.gen = generation =>
          \A s \in Slots : modules[s] = NoImage => th.block[s] = NoImage

ThreadsInStep == \A t \in Threads : InStep(thread[t])

(* The walk over the constructors.  An endless set of dependencies is one of *)
(* which each needs another: there is no order for it.                       *)
ManualAt(m) == {i \in DOMAIN deps[m] : deps[m][i].manual}
LibAt(i) == deps[cur][i].lib
NeedsAt(i, j) == LibAt(j) \in Range(world.needed[LibAt(i)])
NoOrder(i) == \E endless \in SUBSET ManualAt(cur) :
                  i \in endless /\ \A e \in endless : \E f \in endless : NeedsAt(e, f)

OnStack(i) == \E p \in 1 .. Len(stack) : stack[p].dep = i

(* The names the p-th call has done with.                                    *)
Done(p) == IF p = Len(stack) THEN stack[p].next - 1 ELSE stack[p].next - 2

Stack ==
    \A p \in 1 .. Len(stack) :
        /\ stack[p].dep \in ManualAt(cur)
        /\ visit[stack[p].dep] = 1
        /\ \A q \in 1 .. Len(stack) : stack[p].dep = stack[q].dep => p = q
        /\ \A j \in 1 .. Done(p) : j <= Len(world.needed[LibAt(stack[p].dep)]) =>
              \A i \in ManualAt(cur) :
                  LibAt(i) = world.needed[LibAt(stack[p].dep)][j] => visit[i] = 2
        /\ p < Len(stack) =>
              /\ stack[p].next - 1 \in 1 .. Len(world.needed[LibAt(stack[p].dep)])
              /\ LibAt(stack[p + 1].dep) = world.needed[LibAt(stack[p].dep)][stack[p].next - 1]

Walk ==
    /\ pc \notin {"ctor", "rest"} => visit = [i \in 1 .. MaxDeps |-> 0]
    /\ pc # "ctor" => stack = <<>>
    /\ pc \in {"ctor", "rest"} =>
         /\ k >= 1
         /\ \A i \in 1 .. MaxDeps : visit[i] # 0 => i \in ManualAt(cur)
         /\ \A i \in ManualAt(cur) : visit[i] = 2 <=> ImageAt(cur, i) \in Constructed
         /\ \A i \in ManualAt(cur) : i < k \/ pc = "rest" => visit[i] # 0
         /\ \A i \in ManualAt(cur) : i < k /\ pc = "rest" => visit[i] = 2
         /\ \A i \in ManualAt(cur) : visit[i] = 1 => OnStack(i) \/ NoOrder(i)
         /\ \A i \in ManualAt(cur) : visit[i] = 2 =>
              NoOrder(i) \/ \A j \in ManualAt(cur) : NeedsAt(i, j) =>
                               visit[j] = 2 /\ Precedes(ImageAt(cur, j), ImageAt(cur, i))
    /\ Stack

(* The steps of linker_link after its dependency loop.                       *)
LinkStep ==
    \/ DepsDone \/ RegisterTls \/ TlsDone \/ ProcessRelocation \/ ImageDone \/ RelocsDone
    \/ RegisterUnwind \/ UnwindDone \/ StartWalk \/ WalkNext \/ WalkCalls \/ WalksDone
    \/ ConstructRest \/ ConstructMain

IInv ==
    /\ Types /\ Named /\ Stage /\ Emptied /\ Built /\ Alive /\ Memory /\ Unwinder
    /\ Owned /\ ThreadsInStep /\ Walk /\ ConstructedInOrder

-----------------------------------------------------------------------------
(* Operators.                                                                *)

(* A set of numbers that is not empty has a lowest one.                      *)
LEMMA LowestIn ==
  ASSUME NEW S \in SUBSET Nat, S # {}
  PROVE  LowestOf(S) \in S /\ \A r \in S : LowestOf(S) <= r
<1> DEFINE R == OpToRel(<, Nat)
<1>1. IsWellFoundedOn(R, Nat) BY NatLessThanWellFounded
<1>2. PICK x \in S : \A y \in S : ~(<<y, x>> \in R) BY <1>1, WFMin
<1> S \subseteq Nat OBVIOUS
<1>3. ASSUME NEW y \in S PROVE x <= y
  <2>1. <<y, x>> \notin R BY <1>2
  <2>2. <<y, x>> \in Nat \X Nat BY <1>2
  <2>3. ~(y < x) BY <2>1, <2>2, Zenon DEF R, OpToRel
  <2>4. x \in Nat /\ y \in Nat BY <1>2
  <2>5. QED BY ONLY <2>3, <2>4, SMT
<1>4. QED BY ONLY <1>2, <1>3, Zenon DEF LowestOf

(* What stands in a sequence is finite.                                      *)
LEMMA RangeFinite ==
  ASSUME NEW S, NEW s \in Seq(S)
  PROVE  IsFiniteSet(Range(s))
<1>1. s \in Surjection(1 .. Len(s), Range(s)) BY DEF Surjection, Range
<1>2. IsFiniteSet(1 .. Len(s)) BY FS_Interval
<1>3. QED BY <1>1, <1>2, FS_Surjection

(* What is appended to a sequence is added to what stands in it.             *)
LEMMA RangeAppend ==
  ASSUME NEW S, NEW s \in Seq(S), NEW x \in S
  PROVE  /\ Append(s, x) \in Seq(S)
         /\ Range(Append(s, x)) = Range(s) \cup {x}
<1>1. Append(s, x) \in Seq(S) /\ Len(Append(s, x)) = Len(s) + 1 OBVIOUS
<1>2. \A i \in 1 .. Len(s) + 1 :
        Append(s, x)[i] = IF i = Len(s) + 1 THEN x ELSE s[i] OBVIOUS
<1>3. DOMAIN Append(s, x) = 1 .. Len(s) + 1 /\ DOMAIN s = 1 .. Len(s) BY <1>1
<1>4. QED BY <1>1, <1>2, <1>3 DEF Range

(* The images of a module: one for each position, and no two alike.          *)
LEMMA Layout ==
  ASSUME Types, Named, NEW m \in Mods
  PROVE  /\ deps[m] \in Seq(Dep) /\ Len(deps[m]) \in Nat
         /\ DOMAIN deps[m] = 1 .. Len(deps[m]) /\ Len(deps[m]) <= MaxDeps
         /\ ImageAt(m, 0) = Main(m) /\ Main(m) \in Images
         /\ \A p \in 0 .. Len(deps[m]) :
              /\ ImageAt(m, p) \in Images
              /\ ModuleOf(ImageAt(m, p)) = m
              /\ FileOf(ImageAt(m, p)) \in Files
              /\ p # 0 => /\ FileOf(ImageAt(m, p)) = deps[m][p].lib
                          /\ ImageAt(m, p) = <<m, deps[m][p].lib>>
                          /\ ImageAt(m, p) # Main(m)
              /\ \A q \in 0 .. Len(deps[m]) : ImageAt(m, p) = ImageAt(m, q) => p = q
         /\ 0 \in ToLink(m) /\ ToLink(m) \subseteq 0 .. Len(deps[m])
         /\ ManualAt(m) = ToLink(m) \ {0}
         /\ LinkedImages(m) \subseteq Images
         /\ Main(m) \in LinkedImages(m)
<1>1. deps[m] \in Seq(Dep) BY DEF Types
<1>2. Len(deps[m]) \in Nat /\ DOMAIN deps[m] = 1 .. Len(deps[m]) BY <1>1
<1>3. Len(deps[m]) <= MaxDeps BY DEF Named
<1>4. ImageAt(m, 0) = Main(m) BY DEF ImageAt
<1>5. m \in Files BY DEF Files, Mods
<1>6. Main(m) \in Images BY <1>5, LinkerAssumption DEF Main, Mods
<1>7. ASSUME NEW p \in 1 .. Len(deps[m])
      PROVE  /\ deps[m][p] \in Dep /\ deps[m][p].lib \in Files /\ deps[m][p].lib # m
             /\ ImageAt(m, p) = <<m, deps[m][p].lib>>
             /\ ImageAt(m, p) \in Images /\ ImageAt(m, p) # Main(m)
  <2>1. deps[m][p] \in Dep BY <1>1
  <2>2. deps[m][p].lib \in Files BY <2>1 DEF Dep, Files
  <2>3. deps[m][p].lib # m BY <1>2 DEF Named
  <2>4. ImageAt(m, p) = <<m, deps[m][p].lib>> BY DEF ImageAt
  <2>5. QED BY <2>1, <2>2, <2>3, <2>4, LinkerAssumption DEF Main, Mods
<1>8. ASSUME NEW p \in 0 .. Len(deps[m])
      PROVE  /\ ImageAt(m, p) \in Images
             /\ ModuleOf(ImageAt(m, p)) = m
             /\ FileOf(ImageAt(m, p)) \in Files
             /\ p # 0 => /\ FileOf(ImageAt(m, p)) = deps[m][p].lib
                         /\ ImageAt(m, p) = <<m, deps[m][p].lib>>
                         /\ ImageAt(m, p) # Main(m)
  <2>1. CASE p = 0 BY <2>1, <1>4, <1>5, <1>6 DEF Main, ModuleOf, FileOf
  <2>2. CASE p # 0
    <3>1. p \in 1 .. Len(deps[m]) BY <2>2, <1>2
    <3>2. QED BY <3>1, <1>7 DEF ModuleOf, FileOf
  <2>3. QED BY <2>1, <2>2
<1>9. ASSUME NEW p \in 0 .. Len(deps[m]), NEW q \in 0 .. Len(deps[m]),
             ImageAt(m, p) = ImageAt(m, q)
      PROVE  p = q
  <2>1. CASE p = 0 \/ q = 0 BY <2>1, <1>4, <1>8, <1>9
  <2>2. CASE p # 0 /\ q # 0
    <3>1. p \in DOMAIN deps[m] /\ q \in DOMAIN deps[m] BY <2>2, <1>2
    <3>2. deps[m][p].lib = deps[m][q].lib BY <1>8, <1>9, <2>2
    <3>3. QED BY <3>1, <3>2 DEF Named
  <2>3. QED BY <2>1, <2>2
<1>10. 0 \in ToLink(m) /\ ToLink(m) \subseteq 0 .. Len(deps[m]) BY <1>2 DEF ToLink
<1>11. ManualAt(m) = ToLink(m) \ {0} BY <1>2 DEF ToLink, ManualAt
<1>12. LinkedImages(m) \subseteq Images BY <1>8, <1>10 DEF LinkedImages
<1>13. Main(m) \in LinkedImages(m) BY <1>4, <1>10 DEF LinkedImages
<1>14. QED BY <1>1, <1>2, <1>3, <1>4, <1>6, <1>8, <1>9, <1>10, <1>11, <1>12, <1>13

(* An image is a module and a file.                                          *)
LEMMA ImagePair ==
  ASSUME NEW i \in Images
  PROVE  i = <<ModuleOf(i), FileOf(i)>> /\ ModuleOf(i) \in Mods /\ FileOf(i) \in Files
BY LinkerAssumption DEF ModuleOf, FileOf, Mods

(* The main image of a module.                                               *)
LEMMA MainImage ==
  ASSUME NEW m \in Mods
  PROVE  /\ Main(m) \in Images /\ ModuleOf(Main(m)) = m /\ FileOf(Main(m)) = m
         /\ \A l \in Mods : Main(l) = Main(m) => l = m
<1>1. m \in Files BY DEF Files, Mods
<1>2. QED BY <1>1, LinkerAssumption DEF Main, Mods, ModuleOf, FileOf

(* find_dep_index finds the manual dependency of that name, if there is one. *)
LEMMA FindDepIndexIs ==
  ASSUME Types, Named, cur \in Mods, NEW n
  PROVE  /\ FindDepIndex(n) = 0 => \A i \in ManualAt(cur) : LibAt(i) # n
         /\ FindDepIndex(n) # 0 =>
              /\ FindDepIndex(n) \in ManualAt(cur)
              /\ LibAt(FindDepIndex(n)) = n
              /\ \A i \in ManualAt(cur) : LibAt(i) = n => i = FindDepIndex(n)
<1> DEFINE hits == {i \in DOMAIN deps[cur] : deps[cur][i].manual /\ deps[cur][i].lib = n}
<1>1. hits \subseteq Nat \ {0} BY Layout
<1>2. FindDepIndex(n) = IF hits = {} THEN 0 ELSE LowestOf(hits) BY Zenon DEF FindDepIndex
<1>3. \A i : i \in hits <=> i \in ManualAt(cur) /\ LibAt(i) = n BY DEF ManualAt, LibAt
<1>4. CASE hits = {} BY <1>2, <1>3, <1>4
<1>5. CASE hits # {}
  <2>1. LowestOf(hits) \in hits BY <1>1, <1>5, LowestIn
  <2>2. FindDepIndex(n) \in hits /\ FindDepIndex(n) # 0 BY <2>1, <1>1, <1>2, <1>5
  <2>3. \A i \in hits : i = FindDepIndex(n) BY <2>2 DEF Named
  <2>4. QED BY <2>2, <2>3, <1>3
<1>6. QED BY <1>4, <1>5

(* The image that provides a symbol is one of the module's own, and is       *)
(* mapped by the loader or by the platform.                                  *)
LEMMA ProviderIs ==
  ASSUME Types, Named, cur \in Mods, NEW p \in 0 .. Len(deps[cur]), NEW sym,
         Provider(ImageAt(cur, p), sym) # NoImage
  PROVE  \/ Provider(ImageAt(cur, p), sym) = ImageAt(cur, p)
         \/ \E q \in 0 .. Len(deps[cur]) :
              /\ Provider(ImageAt(cur, p), sym) = ImageAt(cur, q)
              /\ q \in ToLink(cur) \/ IsSystem(ImageAt(cur, q))
<1> DEFINE exporting == {i \in DOMAIN deps[cur] : Exports(deps[cur][i].lib, sym)}
           img == ImageAt(cur, p)
<1>1. ModuleOf(img) = cur BY Layout
<1>2. Provider(img, sym) = IF Exports(FileOf(img), sym) THEN img
                           ELSE IF Exports(cur, sym) THEN Main(cur)
                           ELSE IF exporting # {} THEN ImageAt(cur, LowestOf(exporting))
                           ELSE NoImage BY <1>1, Zenon DEF Provider
<1>3. CASE exporting # {} /\ Provider(img, sym) = ImageAt(cur, LowestOf(exporting))
  <2> DEFINE q == LowestOf(exporting)
  <2>1. exporting \subseteq Nat BY Layout
  <2>2. q \in exporting BY <2>1, <1>3, LowestIn
  <2>3. q \in 1 .. Len(deps[cur]) BY <2>2, Layout
  <2>4. q \in 0 .. Len(deps[cur]) /\ q # 0 BY <2>3, Layout
  <2>5. deps[cur][q].manual => q \in ToLink(cur) BY <2>2 DEF ToLink
  <2>6. ~deps[cur][q].manual => IsSystem(ImageAt(cur, q))
    <3>1. FileOf(ImageAt(cur, q)) = deps[cur][q].lib BY <2>4, Layout
    <3>2. ~deps[cur][q].manual => deps[cur][q].lib \in world.system BY <2>2 DEF Named
    <3>3. QED BY <3>1, <3>2 DEF IsSystem
  <2>7. QED BY <1>3, <2>4, <2>5, <2>6
<1>4. CASE Provider(img, sym) = Main(cur)
  <2>1. 0 \in ToLink(cur) /\ 0 \in 0 .. Len(deps[cur]) /\ Main(cur) = ImageAt(cur, 0) BY Layout
  <2>2. QED BY <1>4, <2>1
<1>5. QED BY <1>2, <1>3, <1>4

-----------------------------------------------------------------------------
(* Thread-local storage.                                                     *)

ThreadState == [made      : BOOLEAN,
                gen       : Nat,
                block     : [Slots -> Images \cup {NoImage}],
                arena     : SUBSET Slots,
                fallback  : SUBSET Slots,
                wrongFree : BOOLEAN]

(* sync_thread_tls_locked brings a thread up to date and frees nothing of    *)
(* its arena.                                                                *)
LEMMA SyncedIs ==
  ASSUME generation \in Nat, NEW th \in ThreadState, InStep(th)
  PROVE  /\ Synced(th) \in ThreadState /\ InStep(Synced(th))
         /\ Synced(th).gen = generation
<1> DEFINE stale == {s \in Slots : modules[s] = NoImage /\ th.block[s] # NoImage}
           blocks == [s \in Slots |-> IF s \in stale THEN NoImage ELSE th.block[s]]
           new == [th EXCEPT !.block = blocks, !.arena = @ \ stale, !.fallback = @ \ stale,
                             !.wrongFree = @ \/ (stale \ th.fallback) \cap th.arena # {},
                             !.gen = generation]
<1>1. CASE th.gen >= generation
  <2>1. Synced(th) = th BY <1>1, Zenon DEF Synced
  <2>2. th.gen = generation BY <1>1 DEF InStep, ThreadState
  <2>3. QED BY <2>1, <2>2
<1>2. CASE ~(th.gen >= generation)
  <2>1. Synced(th) = new BY <1>2 DEF Synced
  <2>2. blocks \in [Slots -> Images \cup {NoImage}] BY DEF ThreadState
  <2>3. (stale \ th.fallback) \cap th.arena = {} BY DEF InStep
  <2>4. ~th.wrongFree /\ th.arena \subseteq th.fallback BY DEF InStep
  <2> HIDE DEF blocks, stale
  <2>5. /\ new \in ThreadState /\ new.gen = generation /\ new.block = blocks
        /\ new.arena = th.arena \ stale /\ new.fallback = th.fallback \ stale
        /\ ~new.wrongFree
    BY <2>2, <2>3, <2>4 DEF ThreadState
  <2>6. \A s \in Slots : modules[s] = NoImage => blocks[s] = NoImage BY DEF blocks, stale
  <2>7. InStep(new)
    <3> HIDE DEF new
    <3>1. new.gen <= generation BY <2>5
    <3>2. new.arena \subseteq new.fallback BY <2>4, <2>5
    <3>3. QED BY <3>1, <3>2, <2>5, <2>6, Zenon DEF InStep
  <2>8. QED BY <2>1, <2>5, <2>7
<1>3. QED BY <1>1, <1>2

(* A block is allocated only for a slot in use.                              *)
LEMMA AccessedIs ==
  ASSUME TlsTypeOK, NEW th \in ThreadState, InStep(th), NEW how,
         NEW id, Registered(id)
  PROVE  Accessed(th, id, how) \in ThreadState /\ InStep(Accessed(th, id, how))
<1> DEFINE synced == Synced(th)
           ready == [synced EXCEPT !.made = TRUE]
           new == [ready EXCEPT !.block[id] = modules[id],
                                !.arena = IF how = "arena" THEN @ \cup {id} ELSE @ \ {id},
                                !.fallback = IF how = "arena" THEN @ \cup {id} ELSE @]
<1>1. generation \in Nat /\ modules \in [Slots -> Images \cup {NoImage}] BY DEF TlsTypeOK
<1>2. synced \in ThreadState /\ InStep(synced) /\ synced.gen = generation BY <1>1, SyncedIs
<1>3. id \in Slots /\ modules[id] # NoImage BY DEF Registered
<1>4. Accessed(th, id, how) =
        IF ready.block[id] # NoImage \/ how = "exhausted" THEN ready ELSE new
  BY Zenon DEF Accessed
<1> HIDE DEF synced
<1>5. /\ ready \in ThreadState /\ ready.gen = synced.gen /\ ready.block = synced.block
      /\ ready.arena = synced.arena /\ ready.fallback = synced.fallback
      /\ ready.wrongFree = synced.wrongFree
  BY <1>2 DEF ThreadState
<1>6. InStep(ready) BY <1>2, <1>5, Zenon DEF InStep
<1> HIDE DEF ready
<1>7. /\ new \in ThreadState /\ new.gen = ready.gen
      /\ new.block = [ready.block EXCEPT ![id] = modules[id]]
      /\ new.arena = (IF how = "arena" THEN ready.arena \cup {id} ELSE ready.arena \ {id})
      /\ new.fallback = (IF how = "arena" THEN ready.fallback \cup {id} ELSE ready.fallback)
      /\ new.wrongFree = ready.wrongFree
  BY <1>1, <1>3, <1>5 DEF ThreadState
<1>8. InStep(new)
  <2> HIDE DEF new
  <2>1. new.arena \subseteq new.fallback BY <1>6, <1>7 DEF InStep
  <2>2. \A s \in Slots : modules[s] = NoImage => new.block[s] = ready.block[s]
    BY <1>3, <1>5, <1>7 DEF ThreadState
  <2>3. QED BY <2>1, <2>2, <1>6, <1>7, Zenon DEF InStep
<1>9. QED BY <1>4, <1>5, <1>6, <1>7, <1>8, Zenon

(* __tls_get_addr changes the caller's state, and keeps it in step.          *)
LEMMA TlsGetAddrKeeps ==
  ASSUME TlsTypeOK, ThreadsInStep, NEW t \in Threads, NEW id, NEW how,
         TlsGetAddr(t, id, how), UNCHANGED <<modules, generation>>
  PROVE  thread' \in [Threads -> ThreadState] /\ ThreadsInStep'
<1> DEFINE th == thread[t]
           new == IF Registered(id) THEN Accessed(th, id, how) ELSE [th EXCEPT !.made = TRUE]
<1>1. thread \in [Threads -> ThreadState] BY Zenon DEF TlsTypeOK, ThreadState
<1>2. th \in ThreadState /\ InStep(th) BY <1>1 DEF ThreadsInStep
<1>3. thread' = [thread EXCEPT ![t] = new] BY <1>1, Zenon DEF TlsGetAddr
<1>4. ASSUME Registered(id) PROVE new \in ThreadState /\ InStep(new)
  BY <1>2, <1>4, AccessedIs, Zenon
<1>5. ASSUME ~Registered(id) PROVE new \in ThreadState /\ InStep(new)
  <2>1. new = [th EXCEPT !.made = TRUE] BY <1>5, Zenon
  <2> HIDE DEF th
  <2>2. new \in ThreadState BY <2>1, <1>2 DEF ThreadState
  <2>3. /\ new.gen = th.gen /\ new.block = th.block /\ new.arena = th.arena
        /\ new.fallback = th.fallback /\ new.wrongFree = th.wrongFree
    BY <2>1, <1>2 DEF ThreadState
  <2>4. InStep(new) BY <2>3, <1>2, Zenon DEF InStep
  <2>5. QED BY <2>2, <2>4
<1>6. new \in ThreadState /\ InStep(new) BY <1>4, <1>5
<1> HIDE DEF new, th
<1>7. thread' \in [Threads -> ThreadState] BY <1>1, <1>3, <1>6
<1>8. ASSUME NEW u \in Threads PROVE InStep(thread'[u])
  <2>1. thread'[u] = IF u = t THEN new ELSE thread[u] BY <1>1, <1>3
  <2>2. QED BY <2>1, <1>6, Zenon DEF ThreadsInStep
<1>9. QED BY <1>7, <1>8, Zenon DEF ThreadsInStep, InStep

(* A thread that was in step is behind, and harmless, once the generation    *)
(* has grown.                                                                *)
LEMMA StillInStep ==
  ASSUME TlsTypeOK, ThreadsInStep, UNCHANGED thread, generation' \in Nat,
         generation' > generation \/ (generation' = generation /\ modules' = modules)
  PROVE  ThreadsInStep'
<1>1. ASSUME NEW t \in Threads PROVE InStep(thread[t])'
  <2>1. thread[t].gen \in Nat /\ generation \in Nat BY DEF TlsTypeOK
  <2>2. InStep(thread[t]) BY DEF ThreadsInStep
  <2>3. thread'[t] = thread[t] OBVIOUS
  <2>4. CASE generation' > generation
    <3>1. thread[t].gen <= generation' /\ thread[t].gen # generation'
      BY ONLY <2>1, <2>2, <2>4, generation' \in Nat, SMT DEF InStep
    <3>2. QED BY <2>2, <2>3, <3>1, Zenon DEF InStep
  <2>5. CASE generation' = generation /\ modules' = modules
    BY <2>2, <2>3, <2>5, Zenon DEF InStep
  <2>6. QED BY <2>4, <2>5
<1>2. QED BY <1>1, Zenon DEF ThreadsInStep

(* register_tls_segment.                                                     *)
LEMMA RegisterKeeps ==
  ASSUME TlsTypeOK, ThreadsInStep, SlotTable, NEW img \in Images, img \in live,
         modId[img] = 0, FreeSlots # {}, RegisterTlsSegment(img), UNCHANGED live
  PROVE  /\ TlsTypeOK' /\ ThreadsInStep' /\ SlotTable'
         /\ \A i \in Images : i # img => modId'[i] = modId[i]
<1> DEFINE id == LowestOf(FreeSlots)
<1>1. FreeSlots \subseteq Nat BY TlsAssumption DEF FreeSlots, Slots
<1>2. id \in Slots /\ modules[id] = NoImage BY <1>1, LowestIn DEF FreeSlots
<1>3. /\ modules' = [modules EXCEPT ![id] = img]
      /\ modId' = [modId EXCEPT ![img] = id]
      /\ generation' = generation + 1
      /\ UNCHANGED <<tracked, thread>>
  BY Zenon DEF RegisterTlsSegment
<1>4. id \in 1 .. (MaxTlsModules - 1) BY <1>2 DEF Slots
<1> HIDE DEF id
<1>5. TlsTypeOK' BY <1>2, <1>3, <1>4, TlsAssumption DEF TlsTypeOK
<1>6. ThreadsInStep' BY <1>3, StillInStep DEF TlsTypeOK
<1>7. img # NoImage BY TlsAssumption
<1>8. SlotTable'
  <2>1. ASSUME NEW s \in Slots, modules'[s] # NoImage
        PROVE  modules'[s] \in live /\ modId'[modules'[s]] = s
    <3>1. CASE s = id BY <3>1, <1>3, <1>2 DEF TlsTypeOK
    <3>2. CASE s # id
      <4>1. modules'[s] = modules[s] BY <3>2, <1>3 DEF TlsTypeOK
      <4>2. modules[s] \in live /\ modId[modules[s]] = s BY <2>1, <4>1 DEF SlotTable
      <4>3. modules[s] # img BY <4>2, <2>1 DEF Slots
      <4>4. QED BY <4>1, <4>2, <4>3, <1>3 DEF TlsTypeOK
    <3>3. QED BY <3>1, <3>2
  <2>2. ASSUME NEW i \in Images, modId'[i] # 0
        PROVE  i \in live /\ modules'[modId'[i]] = i
    <3>1. CASE i = img BY <3>1, <1>2, <1>3 DEF TlsTypeOK
    <3>2. CASE i # img
      <4>1. modId'[i] = modId[i] BY <3>2, <1>3 DEF TlsTypeOK
      <4>2. i \in live /\ modules[modId[i]] = i BY <4>1, <2>2 DEF SlotTable
      <4>3. modId[i] # id BY <4>2, <1>2, TlsAssumption
      <4>4. QED BY <4>1, <4>2, <4>3, <1>3 DEF TlsTypeOK
    <3>3. QED BY <3>1, <3>2
  <2>3. QED BY <2>1, <2>2, Zenon DEF SlotTable
<1>9. QED BY <1>3, <1>5, <1>6, <1>8 DEF TlsTypeOK

(* bump_tls_generation.                                                      *)
LEMMA BumpKeeps ==
  ASSUME TlsTypeOK, ThreadsInStep, SlotTable, BumpTlsGeneration, UNCHANGED live
  PROVE  TlsTypeOK' /\ ThreadsInStep' /\ SlotTable' /\ UNCHANGED modId
<1>1. generation' = generation + 1 /\ UNCHANGED <<modules, modId, tracked, thread>>
  BY DEF BumpTlsGeneration
<1>2. TlsTypeOK' BY <1>1 DEF TlsTypeOK
<1>3. ThreadsInStep' BY <1>1, StillInStep DEF TlsTypeOK
<1>4. SlotTable' BY <1>1, Zenon DEF SlotTable
<1>5. QED BY <1>1, <1>2, <1>3, <1>4

(* unregister_tls_segment for an image that is about to go.                  *)
LEMMA UnregisterKeeps ==
  ASSUME TlsTypeOK, ThreadsInStep, SlotTable, NEW img \in Images,
         UnregisterTlsSegments({img}), live' = live \ {img}
  PROVE  /\ TlsTypeOK' /\ ThreadsInStep' /\ SlotTable'
         /\ \A i \in Images : modId[i] = 0 => modId'[i] = 0
<1> DEFINE registered == {i \in {img} : modId[i] # 0}
           cleared == UNION {OwnedSlots(i) : i \in registered}
<1>1. /\ modules' = [s \in Slots |-> IF s \in cleared THEN NoImage ELSE modules[s]]
      /\ generation' = generation + Cardinality(cleared)
      /\ modId' = [i \in Images |->
                       IF i \in registered /\ OwnedSlots(i) # {} THEN 0 ELSE modId[i]]
      /\ tracked' = tracked \ registered
      /\ UNCHANGED thread
  BY Zenon DEF UnregisterTlsSegments
<1>2. img # NoImage BY TlsAssumption
<1>3. cleared = IF modId[img] # 0 THEN {modId[img]} ELSE {}
  <2>1. CASE modId[img] # 0
    <3>1. modId[img] \in Slots /\ modules[modId[img]] = img
      BY <2>1, TlsAssumption DEF SlotTable, TlsTypeOK, Slots
    <3>2. OwnedSlots(img) = {modId[img]} BY <3>1 DEF OwnedSlots
    <3>3. registered = {img} BY <2>1
    <3>4. QED BY <2>1, <3>2, <3>3
  <2>2. CASE modId[img] = 0
    <3>1. registered = {} BY <2>2
    <3>2. QED BY <2>2, <3>1
  <2>3. QED BY <2>1, <2>2
<1>4. /\ modId' = [i \in Images |-> IF i = img THEN 0 ELSE modId[i]]
  <2>1. ASSUME NEW i \in Images
        PROVE  (IF i \in registered /\ OwnedSlots(i) # {} THEN 0 ELSE modId[i])
                 = (IF i = img THEN 0 ELSE modId[i])
    <3>1. CASE i = img /\ modId[img] # 0
      <4>1. i \in registered BY <3>1
      <4>2. modId[img] \in OwnedSlots(img)
        BY <3>1, TlsAssumption DEF SlotTable, TlsTypeOK, Slots, OwnedSlots
      <4>3. QED BY <3>1, <4>1, <4>2
    <3>2. CASE ~(i = img /\ modId[img] # 0) BY <3>2
    <3>3. QED BY <3>1, <3>2
  <2> HIDE DEF registered
  <2>2. QED BY <1>1, <2>1
<1> HIDE DEF cleared, registered
<1>5. /\ generation' \in Nat
      /\ (generation' > generation \/ (generation' = generation /\ modules' = modules))
  <2>1. CASE modId[img] # 0
    <3>1. Cardinality(cleared) = 1 BY <1>3, <2>1, FS_Singleton
    <3>2. QED BY <1>1, <3>1 DEF TlsTypeOK
  <2>2. CASE modId[img] = 0
    <3>1. Cardinality(cleared) = 0 BY <1>3, <2>2, FS_EmptySet
    <3>2. cleared = {} BY <1>3, <2>2
    <3>3. modules' = [s \in Slots |-> modules[s]] BY <1>1, <3>2
    <3>4. QED BY <1>1, <3>1, <3>3 DEF TlsTypeOK
  <2>3. QED BY <2>1, <2>2
<1>6. TlsTypeOK' BY <1>1, <1>4, <1>5, TlsAssumption DEF TlsTypeOK
<1>7. ThreadsInStep' BY <1>1, <1>5, StillInStep
<1>8. SlotTable'
  <2>1. ASSUME NEW s \in Slots, modules'[s] # NoImage
        PROVE  modules'[s] \in live' /\ modId'[modules'[s]] = s
    <3>1. s \notin cleared /\ modules'[s] = modules[s] BY <1>1, <2>1
    <3>2. modules[s] \in live /\ modId[modules[s]] = s /\ modules[s] \in Images
      BY <2>1, <3>1 DEF SlotTable, TlsTypeOK
    <3>3. modules[s] # img BY <3>1, <3>2, <1>3, TlsAssumption DEF Slots
    <3>4. QED BY <3>1, <3>2, <3>3, <1>4
  <2>2. ASSUME NEW i \in Images, modId'[i] # 0
        PROVE  i \in live' /\ modules'[modId'[i]] = i
    <3>1. i # img /\ modId'[i] = modId[i] BY <1>4, <2>2
    <3>2. i \in live /\ modules[modId[i]] = i BY <2>2, <3>1 DEF SlotTable
    <3>3. modId[i] \in Slots BY <2>2, <3>1, TlsAssumption DEF TlsTypeOK, Slots
    <3>4. modId[i] \notin cleared
      BY <1>3, <3>1, <3>2, TlsAssumption DEF SlotTable
    <3>5. QED BY <1>1, <3>1, <3>2, <3>3, <3>4
  <2>3. QED BY <2>1, <2>2, Zenon DEF SlotTable
<1>9. QED BY <1>4, <1>6, <1>7, <1>8

(* thread_tls_destructor.                                                    *)
LEMMA ThreadEndsKeeps ==
  ASSUME TlsTypeOK, ThreadsInStep, NEW t \in Threads, ThreadEnds(t)
  PROVE  TlsTypeOK' /\ ThreadsInStep' /\ UNCHANGED <<modules, generation, modId, tracked>>
<1> DEFINE new == [NewThread EXCEPT !.wrongFree =
                     @ \/ (thread[t].arena \ thread[t].fallback) # {} \/ thread[t].wrongFree]
<1>1. thread' = [thread EXCEPT ![t] = new] /\ UNCHANGED <<modules, generation, modId, tracked>>
  BY Zenon DEF ThreadEnds
<1>2. InStep(thread[t]) BY DEF ThreadsInStep
<1>3. (thread[t].arena \ thread[t].fallback) = {} /\ ~thread[t].wrongFree BY <1>2 DEF InStep
<1>4. /\ new \in ThreadState /\ new.gen = 0 /\ new.arena = {} /\ new.fallback = {}
      /\ ~new.wrongFree /\ new.block = [s \in Slots |-> NoImage]
  BY <1>3 DEF NewThread, ThreadState
<1> HIDE DEF new
<1>5. thread \in [Threads -> ThreadState] BY Zenon DEF TlsTypeOK, ThreadState
<1>6. thread' \in [Threads -> ThreadState] BY <1>1, <1>4, <1>5
<1>7. TlsTypeOK' BY <1>1, <1>6, Zenon DEF TlsTypeOK, ThreadState
<1>8. new.gen <= generation BY <1>4 DEF TlsTypeOK
<1>9. InStep(new) BY <1>4, <1>8 DEF InStep
<1>10. ASSUME NEW u \in Threads PROVE InStep(thread[u])'
  <2>1. thread'[u] = IF u = t THEN new ELSE thread[u] BY <1>1, <1>5
  <2>2. InStep(thread'[u]) BY <2>1, <1>9, Zenon DEF ThreadsInStep
  <2>3. QED BY <2>2, <1>1, Zenon DEF InStep
<1>11. QED BY <1>1, <1>7, <1>10, Zenon DEF ThreadsInStep

(* deinit, when no image holds a slot.                                       *)
LEMMA TlsDeinitKeeps ==
  ASSUME TlsTypeOK, ThreadsInStep, SlotTable, live = {}, TlsDeinit, UNCHANGED live
  PROVE  TlsTypeOK' /\ ThreadsInStep' /\ SlotTable'
<1> DEFINE new(t) == [NewThread EXCEPT !.wrongFree = thread[t].wrongFree]
<1>1. /\ thread' = [t \in Threads |-> new(t)]
      /\ modules' = [s \in Slots |-> NoImage] /\ generation' = 0
      /\ UNCHANGED <<modId, tracked>>
  BY Zenon DEF TlsDeinit
<1>2. ASSUME NEW t \in Threads
      PROVE  /\ new(t) \in ThreadState /\ new(t).gen = 0 /\ new(t).arena = {}
             /\ ~new(t).wrongFree /\ new(t).block = [s \in Slots |-> NoImage]
  <2>1. thread[t].wrongFree = FALSE BY DEF ThreadsInStep, InStep, TlsTypeOK
  <2> DEFINE n == new(t)
  <2>3. n = [NewThread EXCEPT !.wrongFree = FALSE] BY <2>1, Zenon
  <2> HIDE DEF n
  <2>4. n \in ThreadState /\ n.gen = 0 /\ n.arena = {} /\ ~n.wrongFree
        /\ n.block = [s \in Slots |-> NoImage]
    BY <2>3 DEF NewThread, ThreadState
  <2>5. QED BY <2>4, Zenon DEF n
<1> HIDE DEF new
<1>3. thread' \in [Threads -> ThreadState] BY <1>1, <1>2
<1>4. modules' \in [Slots -> Images \cup {NoImage}] BY <1>1
<1>5. TlsTypeOK' BY <1>1, <1>3, <1>4, Zenon DEF TlsTypeOK, ThreadState
<1>6. ASSUME NEW t \in Threads PROVE InStep(thread[t])'
  <2>1. thread'[t] = new(t) BY <1>1
  <2>2. \A s \in Slots : thread'[t].block[s] = NoImage BY <2>1, <1>2
  <2>3. thread'[t].gen <= generation' BY <2>1, <1>1, <1>2
  <2>4. thread'[t].arena \subseteq thread'[t].fallback BY <2>1, <1>2
  <2>5. QED BY <2>1, <2>2, <2>3, <2>4, <1>2, Zenon DEF InStep
<1>7. SlotTable'
  <2>1. \A i \in Images : modId[i] = 0 BY DEF SlotTable
  <2>2. QED BY <1>1, <2>1 DEF SlotTable
<1>8. QED BY <1>5, <1>6, <1>7, Zenon DEF ThreadsInStep

-----------------------------------------------------------------------------
(* What the steps share.                                                     *)

(* Where the dependencies of a module stay, so do its images.                *)
LEMMA SameImages ==
  ASSUME NEW m, deps'[m] = deps[m]
  PROVE  /\ \A p : ImageAt(m, p)' = ImageAt(m, p)
         /\ ToLink(m)' = ToLink(m) /\ LinkedImages(m)' = LinkedImages(m)
         /\ ManualAt(m)' = ManualAt(m)
<1>1. \A p : ImageAt(m, p)' = ImageAt(m, p) BY Zenon DEF ImageAt, Main
<1>2. ToLink(m)' = ToLink(m) /\ ManualAt(m)' = ManualAt(m) BY Zenon DEF ToLink, ManualAt
<1>3. LinkedImages(m)' = LinkedImages(m) BY <1>1, <1>2, Zenon DEF LinkedImages
<1>4. QED BY <1>1, <1>2, <1>3

(* A dependency goes to the end.                                             *)
LEMMA OneImageMore ==
  ASSUME Types, Named, cur \in Mods, NEW n \in Libs, NEW manual \in BOOLEAN,
         NEW len \in Nat, len = Len(deps[cur]), UNCHANGED cur,
         AddDependency(cur, n, manual)
  PROVE  /\ deps' \in [Mods -> Seq(Dep)]
         /\ \A m \in Mods : m # cur => deps'[m] = deps[m]
         /\ Len(deps'[cur]) = len + 1
         /\ \A p \in 1 .. len : deps'[cur][p] = deps[cur][p]
         /\ deps'[cur][len + 1] = [lib |-> n, manual |-> manual]
         /\ \A p \in 0 .. len : ImageAt(cur, p)' = ImageAt(cur, p)
         /\ ImageAt(cur, len + 1)' = <<cur, n>>
         /\ ToLink(cur)' = IF manual THEN ToLink(cur) \cup {len + 1} ELSE ToLink(cur)
         /\ LinkedImages(cur) \subseteq LinkedImages(cur)'
<1> DEFINE d == [lib |-> n, manual |-> manual]
<1>1. deps \in [Mods -> Seq(Dep)] BY DEF Types
<1>2. deps[cur] \in Seq(Dep) /\ len \in Nat BY <1>1
<1>3. d \in Dep BY DEF Dep
<1>4. deps' = [deps EXCEPT ![cur] = Append(deps[cur], d)] BY <1>1, Zenon DEF AddDependency
<1>5. /\ Append(deps[cur], d) \in Seq(Dep)
      /\ Len(Append(deps[cur], d)) = len + 1
      /\ \A p \in 1 .. len : Append(deps[cur], d)[p] = deps[cur][p]
      /\ Append(deps[cur], d)[len + 1] = d
  BY <1>2, <1>3
<1>6. deps'[cur] = Append(deps[cur], d) BY <1>1, <1>4
<1>7. deps' \in [Mods -> Seq(Dep)] BY <1>1, <1>4, <1>5
<1>8. \A m \in Mods : m # cur => deps'[m] = deps[m] BY <1>1, <1>4
<1>9. ASSUME NEW p \in 0 .. len PROVE ImageAt(cur, p)' = ImageAt(cur, p)
  <2>1. CASE p = 0 BY <2>1, Zenon DEF ImageAt, Main
  <2>2. CASE p # 0
    <3>1. p \in 1 .. len BY <2>2, <1>2
    <3>2. deps'[cur][p] = deps[cur][p] BY <3>1, <1>5, <1>6
    <3>3. QED BY <2>2, <3>2, Zenon DEF ImageAt
  <2>3. QED BY <2>1, <2>2
<1>10. ImageAt(cur, len + 1)' = <<cur, n>>
  <2>1. len + 1 # 0 BY <1>2
  <2>2. deps'[cur][len + 1].lib = n BY <1>5, <1>6
  <2>3. QED BY <2>1, <2>2, Zenon DEF ImageAt
<1>11. ToLink(cur)' = IF manual THEN ToLink(cur) \cup {len + 1} ELSE ToLink(cur)
  <2>1. DOMAIN deps[cur] = 1 .. len BY <1>2
  <2>2. DOMAIN deps'[cur] = 1 .. len + 1 BY <1>5, <1>6
  <2>3. \A p \in 1 .. len : deps'[cur][p] = deps[cur][p] BY <1>5, <1>6
  <2>4. deps'[cur][len + 1].manual = manual BY <1>5, <1>6
  <2>5. ToLink(cur)' = {0} \cup {i \in DOMAIN deps'[cur] : deps'[cur][i].manual}
    BY Zenon DEF ToLink
  <2>6. QED BY ONLY <1>2, <2>1, <2>2, <2>3, <2>4, <2>5, SMT DEF ToLink
<1>12. LinkedImages(cur) \subseteq LinkedImages(cur)'
  <2>1. ASSUME NEW p \in ToLink(cur) PROVE ImageAt(cur, p) \in LinkedImages(cur)'
    <3>1. p \in 0 .. len BY Layout
    <3>2. p \in ToLink(cur)' BY <1>11
    <3>3. QED BY <3>1, <3>2, <1>9, Zenon DEF LinkedImages
  <2>2. QED BY <2>1, Zenon DEF LinkedImages
<1>13. QED BY <1>5, <1>6, <1>7, <1>8, <1>9, <1>10, <1>11, <1>12


(* linker_link works on the module in hand and moves nothing that outlives   *)
(* the module.                                                               *)
LEMMA LinkStepFrame ==
  ASSUME LinkStep
  PROVE  /\ UNCHANGED <<world, queue, phase, cur, deps, addr, life, mapped, leaked, live,
                        finalised, registry>>
         /\ pc \in Loading /\ pc' \in Loading \cup {"fini", "linked"}
         /\ pc' = "deps" => pc = "deps"
         /\ pc' = "fini" => unload'
         /\ pc \in {"ctor", "rest"} => pc' \in {"ctor", "rest", "linked"}
         /\ pc' \in {"ctor", "rest"} => pc \in {"unwind", "ctor", "rest"}
         /\ pc' = "unwind" => pc \in {"reloc", "unwind"}
         /\ UNCHANGED linked \/ ConstructMain
         /\ pc' = "linked" <=> ConstructMain
<1> USE DEF Loading
<1>1. CASE DepsDone BY <1>1 DEF DepsDone, LinkVarsInDeps, ConstructMain
<1>2. CASE RegisterTls BY <1>2 DEF RegisterTls, Stays, LinkFails, ConstructMain
<1>3. CASE TlsDone BY <1>3 DEF TlsDone, Stays, ConstructMain
<1>4. CASE ProcessRelocation
  <2>1. \/ UNCHANGED <<pc, unload>>
        \/ LinkFails
    BY <1>4, Zenon DEF ProcessRelocation, RelocOther, RelocRelative, Unresolved, RelocSymbol,
       NoTls, RelocDtpMod, RelocTlsDesc, RelocTprel, RefersTo, Skip, Refuse, NextReloc
  <2>2. pc = "reloc" /\ UNCHANGED Stays BY <1>4, Zenon DEF ProcessRelocation
  <2>3. QED BY <2>1, <2>2 DEF Stays, LinkFails, ConstructMain
<1>5. CASE ImageDone BY <1>5 DEF ImageDone, Stays, ConstructMain
<1>6. CASE RelocsDone BY <1>6 DEF RelocsDone, Stays, ConstructMain
<1>7. CASE RegisterUnwind BY <1>7 DEF RegisterUnwind, Stays, ConstructMain
<1>8. CASE UnwindDone BY <1>8 DEF UnwindDone, Stays, ConstructMain
<1>9. CASE StartWalk BY <1>9 DEF StartWalk, InWalk, ConstructMain
<1>10. CASE WalkNext
  <2>1. pc = "ctor" /\ UNCHANGED <<InWalk, pc, linked>> BY <1>10, Zenon DEF WalkNext
  <2>2. QED BY <2>1 DEF InWalk, ConstructMain
<1>11. CASE WalkCalls BY <1>11 DEF WalkCalls, InWalk, ConstructMain
<1>12. CASE WalksDone BY <1>12 DEF WalksDone, InWalk, ConstructMain
<1>13. CASE ConstructRest BY <1>13 DEF ConstructRest, InWalk, ConstructMain
<1>14. CASE ConstructMain BY <1>14 DEF ConstructMain, InWalk
<1>15. QED
  BY <1>1, <1>2, <1>3, <1>4, <1>5, <1>6, <1>7, <1>8, <1>9, <1>10, <1>11, <1>12, <1>13, <1>14
     DEF LinkStep

(* The remaining steps.                                                      *)
LEMMA StepKinds ==
  ASSUME Next
  PROVE  \/ LinkStep \/ StartLoad \/ ResolveNeeded \/ FindEntry \/ StartRelease
         \/ RunDestructors \/ ReleaseDependency \/ ReleaseMain \/ Deinit
         \/ \E t \in Threads : AccessTls(t) \/ ThreadExit(t)
BY Zenon DEF Next, LinkStep

(* What the other threads, and deinit, leave alone.                          *)
LEMMA ThreadStepFrame ==
  ASSUME (\E t \in Threads : AccessTls(t) \/ ThreadExit(t)) \/ Deinit
  PROVE  UNCHANGED <<world, queue, pc, cur, k, names, deps, linked, unload, rel, visit, stack,
                     addr, life, mapped, leaked, live, bound, tlsRefs, ctorLog, finalised,
                     backtrace, frames, registry>>
<1>1. CASE Deinit BY <1>1 DEF Deinit, walkVars
<1>2. ASSUME NEW t \in Threads, AccessTls(t) PROVE UNCHANGED linkVars
  BY <1>2, Zenon DEF AccessTls
<1>3. ASSUME NEW t \in Threads, ThreadExit(t) PROVE UNCHANGED linkVars
  BY <1>3, Zenon DEF ThreadExit
<1>4. QED BY <1>1, <1>2, <1>3 DEF linkVars

(* The dependency loop works on the module in hand.                          *)
LEMMA ResolveFrame ==
  ASSUME ResolveNeeded
  PROVE  /\ UNCHANGED <<world, queue, phase, cur, linked, addr, life, bound, tlsRefs, ctorLog,
                        finalised, backtrace, frames, registry, rel, visit, stack>>
         /\ UNCHANGED tlsVars
         /\ pc = "deps" /\ pc' \in {"deps", "fini"}
         /\ pc' = "fini" => unload'
         /\ pc' = "fini" => UNCHANGED <<deps, live>>
         /\ UNCHANGED <<deps, live, mapped, leaked>> \/ TakeLoaded(names[k])
            \/ LoadManually(names[k]) \/ LoadManuallyFails(names[k])
<1>1. pc = "deps" /\ UNCHANGED LinkVarsInDeps BY Zenon DEF ResolveNeeded
<1>2. \/ SkipMissing(names[k]) \/ SkipLoaded(names[k]) \/ TooManyDeps(names[k])
      \/ TakeLoaded(names[k]) \/ LoadManually(names[k]) \/ LoadManuallyFails(names[k])
  BY Zenon DEF ResolveNeeded
<1>3. /\ pc' = pc \/ LinkFails
      /\ LinkFails => UNCHANGED <<deps, live>>
      /\ UNCHANGED <<deps, live, mapped, leaked>> \/ TakeLoaded(names[k])
         \/ LoadManually(names[k]) \/ LoadManuallyFails(names[k])
  BY <1>1, <1>2 DEF SkipMissing, SkipLoaded, TooManyDeps, TakeLoaded,
        LoadManually, LoadManuallyFails,
     LinkFails
<1>4. QED BY <1>1, <1>3 DEF LinkVarsInDeps, LinkFails, walkVars

-----------------------------------------------------------------------------
(* The inductive invariant, part by part: the dependencies of a module.      *)

(* Each dependency is taken once.                                            *)
LEMMA NamedKeeps ==
  ASSUME IInv, Next
  PROVE  Named'
<1> USE DEF IInv
<1>1. ASSUME UNCHANGED <<deps, world>> PROVE Named' BY <1>1, Zenon DEF Named
<1>2. CASE LinkStep BY <1>2, <1>1, LinkStepFrame
<1>3. CASE StartLoad BY <1>3, <1>1, Zenon DEF StartLoad
<1>4. CASE ResolveNeeded
  <2>1. CASE UNCHANGED deps BY <2>1, <1>4, <1>1, ResolveFrame
  <2>2. ASSUME NEW n, NEW manual \in BOOLEAN, AddDependency(cur, n, manual), MustLoad(n),
               Len(deps[cur]) < MaxDeps, manual <=> n \notin world.system
        PROVE  Named'
    <3>1. UNCHANGED <<world, cur>> /\ pc = "deps" BY <1>4, ResolveFrame
    <3>2. cur \in Mods BY <3>1 DEF Stage, Holding
    <3>3. PICK len \in Nat : len = Len(deps[cur]) BY <3>2, Layout
    <3>4. n \in Libs
      <4>1. world \in Worlds BY DEF Types, TypeOK
      <4>2. QED BY <2>2, <4>1, WorldAssumption DEF MustLoad
    <3>5. /\ \A m \in Mods : m # cur => deps'[m] = deps[m]
          /\ deps' \in [Mods -> Seq(Dep)]
          /\ Len(deps'[cur]) = len + 1
          /\ \A p \in 1 .. len : deps'[cur][p] = deps[cur][p]
          /\ deps'[cur][len + 1] = [lib |-> n, manual |-> manual]
      BY <2>2, <3>1, <3>2, <3>3, <3>4, OneImageMore
    <3>6. n # cur /\ \A i \in DOMAIN deps[cur] : deps[cur][i].lib # n
      BY <2>2, Zenon DEF MustLoad, IsLoaded
    <3>7. DOMAIN deps[cur] = 1 .. len BY <3>2, <3>3, Layout
    <3>8. DOMAIN deps'[cur] = 1 .. len + 1 BY <3>2, <3>5
    <3>9. MaxDeps \in Nat BY LinkerAssumption
    <3>10. ASSUME NEW m \in Mods PROVE
              /\ Len(deps'[m]) <= MaxDeps
              /\ \A i \in DOMAIN deps'[m] :
                   /\ deps'[m][i].lib # m
                   /\ deps'[m][i].manual <=> deps'[m][i].lib \notin world.system
                   /\ \A j \in DOMAIN deps'[m] : deps'[m][i].lib = deps'[m][j].lib => i = j
      <4>1. CASE m # cur
        <5>1. deps'[m] = deps[m] BY <4>1, <3>5
        <5>2. QED BY <5>1 DEF Named
      <4>2. CASE m = cur
        <5>1. Len(deps'[m]) <= MaxDeps BY <4>2, <3>3, <3>5, <3>9, <2>2
        <5>2. ASSUME NEW i \in DOMAIN deps'[m] PROVE
                   /\ deps'[m][i].lib # m
                   /\ deps'[m][i].manual <=> deps'[m][i].lib \notin world.system
          <6>1. CASE i = len + 1 BY <6>1, <4>2, <3>5, <3>6, <2>2
          <6>2. CASE i # len + 1
            <7>1. i \in 1 .. len BY <6>2, <4>2, <3>8
            <7>2. QED BY <7>1, <4>2, <3>5, <3>7 DEF Named
          <6>3. QED BY <6>1, <6>2
        <5>3. ASSUME NEW i \in DOMAIN deps'[m], NEW j \in DOMAIN deps'[m],
                     deps'[m][i].lib = deps'[m][j].lib
              PROVE  i = j
          <6>1. ASSUME NEW e \in 1 .. len PROVE deps'[m][e].lib # n
            BY <4>2, <3>5, <3>6, <3>7
          <6>2. CASE i = len + 1 \/ j = len + 1
            BY <6>1, <6>2, <5>3, <4>2, <3>5, <3>8
          <6>3. CASE i # len + 1 /\ j # len + 1
            <7>1. i \in 1 .. len /\ j \in 1 .. len BY <6>3, <4>2, <3>8
            <7>2. QED BY <7>1, <5>3, <4>2, <3>5, <3>7 DEF Named
          <6>4. QED BY <6>2, <6>3
        <5>4. QED BY <5>1, <5>2, <5>3
      <4>3. QED BY <4>1, <4>2
    <3>11. QED BY <3>1, <3>10, Zenon DEF Named
  <2>3. CASE TakeLoaded(names[k]) BY <2>3, <2>2 DEF TakeLoaded
  <2>4. CASE LoadManually(names[k]) BY <2>4, <2>2 DEF LoadManually
  <2>5. CASE LoadManuallyFails(names[k]) BY <2>5, <2>1 DEF LoadManuallyFails
  <2>6. QED BY <2>1, <2>3, <2>4, <2>5, <1>4, ResolveFrame
<1>5. CASE FindEntry BY <1>5, <1>1, Zenon DEF FindEntry
<1>6. CASE StartRelease BY <1>6, <1>1, Zenon DEF StartRelease
<1>7. CASE RunDestructors BY <1>7, <1>1, Zenon DEF RunDestructors
<1>8. CASE ReleaseDependency BY <1>8, <1>1, Zenon DEF ReleaseDependency
<1>9. CASE ReleaseMain
  <2>1. deps' = [deps EXCEPT ![cur] = <<>>] /\ UNCHANGED world BY <1>9, Zenon DEF ReleaseMain
  <2>2. deps \in [Mods -> Seq(Dep)] BY DEF Types
  <2>3. \A m \in Mods : deps'[m] = deps[m] \/ deps'[m] = <<>> BY <2>1, <2>2
  <2>4. Len(<<>>) <= MaxDeps /\ DOMAIN <<>> = {} BY LinkerAssumption
  <2>5. ASSUME NEW m \in Mods PROVE
              /\ Len(deps'[m]) <= MaxDeps
              /\ \A i \in DOMAIN deps'[m] :
                   /\ deps'[m][i].lib # m
                   /\ deps'[m][i].manual <=> deps'[m][i].lib \notin world.system
                   /\ \A j \in DOMAIN deps'[m] : deps'[m][i].lib = deps'[m][j].lib => i = j
    <3>1. CASE deps'[m] = deps[m] BY <3>1, Zenon DEF Named
    <3>2. CASE deps'[m] = <<>> BY <3>2, <2>4
    <3>3. QED BY <2>3, <3>1, <3>2
  <2>6. QED BY <2>1, <2>5, Zenon DEF Named
<1>10. CASE (\E t \in Threads : AccessTls(t) \/ ThreadExit(t)) \/ Deinit
  BY <1>10, <1>1, ThreadStepFrame
<1>11. QED BY <1>2, <1>3, <1>4, <1>5, <1>6, <1>7, <1>8, <1>9, <1>10, StepKinds

(* Where the loader stands with each module.                                 *)
LEMMA StageKeeps ==
  ASSUME IInv, Next
  PROVE  Stage'
<1> USE DEF IInv
<1>1. NoMain \notin Mods BY LinkerAssumption DEF Files, Mods
<1>2. /\ life \in [Mods -> {"none", "loading", "linked", "kept", "gone"}]
      /\ linked \in [Mods -> BOOLEAN] /\ queue \in Seq(Mods)
  BY DEF Types
<1>3. Stage OBVIOUS
<1>4. CASE LinkStep
  <2>1. CASE ~ConstructMain
    <3>1. /\ UNCHANGED <<cur, life, queue, deps, linked>>
          /\ pc \in Loading /\ pc' \in Loading \cup {"fini"}
          /\ pc' = "fini" => unload'
      BY <1>4, <2>1, LinkStepFrame, Zenon DEF Loading
    <3>2. QED BY ONLY <3>1, <1>3, SMT DEF Stage, Holding, Loading
  <2>2. CASE ConstructMain
    <3>1. /\ UNCHANGED <<cur, life, queue, deps>> /\ pc \in Loading /\ pc' = "linked"
      BY <1>4, <2>2, LinkStepFrame, Zenon
    <3>2. linked' = [linked EXCEPT ![cur] = TRUE] BY <2>2, Zenon DEF ConstructMain
    <3>3. cur \in Mods BY <3>1 DEF Stage, Holding, Loading
    <3>4. linked'[cur] = TRUE BY <1>2, <3>2, <3>3
    <3>5. QED BY ONLY <3>1, <3>4, <1>3, SMT DEF Stage, Holding, Loading
  <2>3. QED BY <2>1, <2>2
<1>5. CASE StartLoad
  <2>1. /\ pc = "idle" /\ queue # <<>> /\ queue' = Tail(queue)
        /\ UNCHANGED <<deps, linked, unload>>
        /\ \/ /\ life' = [life EXCEPT ![Head(queue)] = "gone"] /\ UNCHANGED <<pc, cur, k>>
           \/ /\ life' = [life EXCEPT ![Head(queue)] = "loading"]
              /\ cur' = Head(queue) /\ pc' = "deps"
    BY <1>5, Zenon DEF StartLoad, GiveUp
  <2>2. Head(queue) \in Mods /\ Head(queue) = queue[1] BY <1>2, <2>1
  <2>3. /\ Len(queue) >= 1 /\ Len(Tail(queue)) = Len(queue) - 1
        /\ \A i \in 1 .. Len(Tail(queue)) : Tail(queue)[i] = queue[i + 1]
    BY <1>2, <2>1
  <2>4. PICK len \in Nat : len = Len(Tail(queue)) BY <1>2, <2>1, SMTT(30)
  <2>5. /\ \A i \in 1 .. Len(queue') : life'[queue'[i]] = "none"
        /\ \A i, j \in 1 .. Len(queue') : queue'[i] = queue'[j] => i = j
    <3>1. Len(queue) = len + 1 BY <1>2, <2>3, <2>4
    <3>2. \A i \in 1 .. len : i + 1 \in 1 .. Len(queue) /\ i + 1 # 1 /\ 1 \in 1 .. Len(queue)
      BY <3>1
    <3>3. \A i \in 1 .. len : queue[i + 1] # queue[1] /\ life[queue[i + 1]] = "none"
      BY <3>2 DEF Stage
    <3>4. \A m : m # Head(queue) /\ m \in Mods => life'[m] = life[m] BY <1>2, <2>1
    <3>5. \A i \in 1 .. len : queue[i + 1] \in Mods BY <1>2, <3>2
    <3>6. \A i \in 1 .. len : life'[queue[i + 1]] = "none" BY <3>3, <3>4, <3>5, <2>2
    <3>7. \A i, j \in 1 .. len : queue[i + 1] = queue[j + 1] => i = j BY <3>2 DEF Stage
    <3>8. QED BY <3>6, <3>7, <2>1, <2>3, <2>4
  <2>6. cur = NoMain /\ \A m \in Mods : life[m] # "loading"
    BY <2>1, <1>1 DEF Stage
  <2>7. CASE UNCHANGED <<pc, cur, k>>
    <3>1. \A m \in Mods : life'[m] # "loading" BY <2>7, <2>6, <2>1, <2>2, <1>1, <1>2
    <3>2. QED BY ONLY <3>1, <2>1, <2>5, <2>6, <2>7, <1>3, SMT DEF Stage, Holding, Loading
  <2>8. CASE life' = [life EXCEPT ![Head(queue)] = "loading"] /\ cur' = Head(queue) /\ pc' = "deps"
    <3>1. cur' \in Mods /\ life'[cur'] = "loading" BY <2>8, <2>2, <1>2
    <3>2. \A m \in Mods : life'[m] = "loading" => m = cur' BY <2>8, <2>6, <1>2, <2>2
    <3>3. cur' # NoMain BY <3>1, <1>1
    <3>4. QED BY ONLY <3>1, <3>2, <3>3, <2>1, <2>5, <2>8, <1>3, SMT DEF Stage, Holding, Loading
  <2>9. QED BY <2>1, <2>7, <2>8
<1>6. CASE ResolveNeeded
  <2>1. /\ UNCHANGED <<cur, life, queue, linked>> /\ pc = "deps" /\ pc' \in {"deps", "fini"}
        /\ pc' = "fini" => unload'
    BY <1>6, ResolveFrame
  <2>2. QED BY ONLY <2>1, <1>3, SMT DEF Stage, Holding, Loading
<1>7. CASE FindEntry
  <2>1. /\ pc = "linked" /\ UNCHANGED <<queue, linked, deps>>
        /\ \/ /\ life' = [life EXCEPT ![cur] = "linked"] /\ pc' = "idle" /\ cur' = NoMain
           \/ /\ pc' = "fini" /\ unload' = TRUE /\ UNCHANGED <<life, cur>>
    BY <1>7, Zenon DEF FindEntry, LinkFails
  <2>2. CASE pc' = "fini" BY ONLY <2>1, <2>2, <1>3, SMT DEF Stage, Holding, Loading
  <2>3. CASE pc' = "idle"
    <3>1. cur \in Mods /\ life[cur] = "loading" BY <2>1 DEF Stage, Holding
    <3>2. \A m \in Mods : life'[m] # "loading" BY <2>1, <2>3, <3>1, <1>2 DEF Stage
    <3>3. \A i \in 1 .. Len(queue) : queue[i] # cur /\ queue[i] \in Mods
      BY <3>1, <1>2 DEF Stage
    <3>4. \A i \in 1 .. Len(queue) : life'[queue[i]] = life[queue[i]]
      BY <3>3, <2>1, <2>3, <1>2
    <3>5. QED BY ONLY <2>1, <2>3, <3>2, <3>4, <1>3, <1>1, SMT DEF Stage, Holding, Loading
  <2>4. QED BY <2>1, <2>2, <2>3
<1>8. CASE StartRelease
  <2>1. PICK m \in Mods :
          /\ life[m] = "linked" /\ cur' = m /\ unload' \in BOOLEAN
          /\ pc' = IF unload' THEN "fini" ELSE "release"
          /\ k' = IF unload' THEN 0 ELSE Len(deps[m])
    BY <1>8, Zenon DEF StartRelease, Mods
  <2>2. pc = "idle" /\ UNCHANGED <<queue, life, linked, deps>> BY <1>8, Zenon DEF StartRelease
  <2>3. linked[m] BY <2>1 DEF Built
  <2>4. Len(deps[m]) \in Nat BY Layout
  <2>5. \A x \in Mods : life[x] # "loading" BY <2>2, <1>1 DEF Stage
  <2>6. QED BY ONLY <2>1, <2>2, <2>3, <2>4, <2>5, <1>3, <1>1, SMT DEF Stage, Holding, Loading
<1>9. CASE RunDestructors
  <2>1. /\ pc = "fini" /\ pc' = "release" /\ k' = Len(deps[cur])
        /\ UNCHANGED <<queue, cur, life, linked, deps, unload>>
    BY <1>9, Zenon DEF RunDestructors
  <2>2. cur \in Mods BY <2>1 DEF Stage, Holding
  <2>3. Len(deps[cur]) \in Nat BY <2>2, Layout
  <2>4. QED BY ONLY <2>1, <2>2, <2>3, <1>3, SMT DEF Stage, Holding, Loading
<1>10. CASE ReleaseDependency
  <2>1. /\ pc = "release" /\ k > 0 /\ k' = k - 1
        /\ UNCHANGED <<queue, pc, cur, life, linked, deps, unload>>
    BY <1>10, Zenon DEF ReleaseDependency
  <2>2. cur \in Mods /\ k \in Nat BY <2>1 DEF Stage, Holding, Types
  <2>3. Len(deps[cur]) \in Nat BY <2>2, Layout
  <2>4. QED BY ONLY <2>1, <2>2, <2>3, <1>3, SMT DEF Stage, Holding, Loading
<1>11. CASE ReleaseMain
  <2>1. /\ pc = "release" /\ pc' = "idle" /\ cur' = NoMain /\ UNCHANGED queue
        /\ life' = [life EXCEPT ![cur] = IF unload THEN "gone" ELSE "kept"]
    BY <1>11, Zenon DEF ReleaseMain
  <2>2. cur \in Mods /\ life[cur] # "none" BY <2>1 DEF Stage, Holding
  <2>3. \A m \in Mods : life[m] = "loading" => m = cur BY DEF Stage
  <2>4. \A m \in Mods : life'[m] # "loading" BY <2>1, <2>2, <2>3, <1>2
  <2>5. \A i \in 1 .. Len(queue) : queue[i] # cur /\ queue[i] \in Mods BY <2>2, <1>2 DEF Stage
  <2>6. \A i \in 1 .. Len(queue) : life'[queue[i]] = life[queue[i]] BY <2>5, <2>1, <1>2
  <2>7. QED BY ONLY <2>1, <2>4, <2>6, <1>1, <1>3, SMT DEF Stage, Holding, Loading
<1>12. CASE (\E t \in Threads : AccessTls(t) \/ ThreadExit(t)) \/ Deinit
  <2>1. UNCHANGED <<pc, cur, k, life, queue, linked, deps, unload>> BY <1>12, ThreadStepFrame
  <2>2. QED BY ONLY <2>1, <1>3, SMT DEF Stage, Holding, Loading
<1>13. QED BY <1>4, <1>5, <1>6, <1>7, <1>8, <1>9, <1>10, <1>11, <1>12, StepKinds

(* What a module that is let go has listed, goes.                            *)
LEMMA EmptiedKeeps ==
  ASSUME IInv, Next
  PROVE  Emptied'
<1> USE DEF IInv
<1>1. ASSUME UNCHANGED <<deps, life>> PROVE Emptied' BY <1>1, Zenon DEF Emptied, Holding
<1>2. /\ life \in [Mods -> {"none", "loading", "linked", "kept", "gone"}]
      /\ deps \in [Mods -> Seq(Dep)]
  BY DEF Types
<1>3. CASE LinkStep BY <1>3, <1>1, LinkStepFrame
<1>4. CASE StartLoad
  <2>1. /\ pc = "idle" /\ queue # <<>> /\ UNCHANGED deps
        /\ \/ life' = [life EXCEPT ![Head(queue)] = "gone"]
           \/ life' = [life EXCEPT ![Head(queue)] = "loading"]
    BY <1>4, Zenon DEF StartLoad, GiveUp
  <2>2. queue \in Seq(Mods) BY DEF Types
  <2>3. Head(queue) \in Mods /\ Head(queue) = queue[1] /\ 1 \in 1 .. Len(queue) BY <2>1, <2>2
  <2>4. life[Head(queue)] = "none" BY <2>3 DEF Stage
  <2>5. \A m \in Mods : m # Head(queue) => life'[m] = life[m] BY <2>1, <1>2
  <2>6. Head(queue) \notin Holding BY <2>4 DEF Holding
  <2>7. ASSUME NEW m \in Mods, life'[m] \notin {"loading", "linked"} PROVE m \notin Holding
    BY <2>5, <2>6, <2>7 DEF Holding
  <2>8. QED BY <2>1, <2>7, Zenon DEF Emptied, Holding
<1>5. CASE ResolveNeeded
  <2>1. UNCHANGED <<cur, life>> /\ pc = "deps" BY <1>5, ResolveFrame
  <2>2. cur \in Holding BY <2>1 DEF Stage
  <2>3. \A m \in Mods : m # cur => deps'[m] = deps[m]
    <3>1. CASE UNCHANGED deps BY <3>1
    <3>2. CASE \E n, manual : AddDependency(cur, n, manual) BY <3>2, <1>2 DEF AddDependency
    <3>3. QED BY <3>1, <3>2, <1>5, ResolveFrame DEF TakeLoaded, LoadManually, LoadManuallyFails
  <2>4. QED BY <2>1, <2>2, <2>3, Zenon DEF Emptied, Holding
<1>6. CASE FindEntry
  <2>1. /\ pc = "linked" /\ UNCHANGED deps
        /\ (UNCHANGED life \/ life' = [life EXCEPT ![cur] = "linked"])
    BY <1>6, Zenon DEF FindEntry
  <2>2. cur \in Holding BY <2>1 DEF Stage
  <2>3. \A m \in Mods : m \in Holding => life'[m] \in {"loading", "linked"}
    BY <2>1, <1>2 DEF Holding
  <2>4. QED BY <2>1, <2>3, Zenon DEF Emptied, Holding
<1>7. CASE StartRelease BY <1>7, <1>1, Zenon DEF StartRelease
<1>8. CASE RunDestructors BY <1>8, <1>1, Zenon DEF RunDestructors
<1>9. CASE ReleaseDependency BY <1>9, <1>1, Zenon DEF ReleaseDependency
<1>10. CASE ReleaseMain
  <2>1. /\ deps' = [deps EXCEPT ![cur] = <<>>]
        /\ life' = [life EXCEPT ![cur] = IF unload THEN "gone" ELSE "kept"]
    BY <1>10, Zenon DEF ReleaseMain
  <2>2. \A m \in Mods : IF m = cur THEN deps'[m] = <<>>
                        ELSE deps'[m] = deps[m] /\ life'[m] = life[m] BY <2>1, <1>2
  <2>3. QED BY <2>2 DEF Emptied, Holding
<1>11. CASE (\E t \in Threads : AccessTls(t) \/ ThreadExit(t)) \/ Deinit
  BY <1>11, <1>1, ThreadStepFrame
<1>12. QED BY <1>3, <1>4, <1>5, <1>6, <1>7, <1>8, <1>9, <1>10, <1>11, StepKinds

(* The table stays as it is while no image object goes.                      *)
LEMMA TlsFrame ==
  ASSUME TlsTypeOK, ThreadsInStep, SlotTable, UNCHANGED tlsVars, live \subseteq live'
  PROVE  TlsTypeOK' /\ ThreadsInStep' /\ SlotTable'
<1>1. UNCHANGED <<modules, generation, modId, tracked, thread>> BY DEF tlsVars
<1>2. TlsTypeOK' BY <1>1, Zenon DEF TlsTypeOK
<1>3. ThreadsInStep' BY <1>1, Zenon DEF ThreadsInStep, InStep
<1>4. SlotTable' BY <1>1 DEF SlotTable
<1>5. QED BY <1>2, <1>3, <1>4

(* A dependency's and a main image's place in memory.                        *)
LEMMA HeldIs ==
  ASSUME Types, Stage, cur \in Mods
  PROVE  /\ pc # "release" => Held(cur) = 0 .. Len(deps[cur]) /\ Kept(cur) = 0 .. Len(deps[cur])
         /\ pc = "release" => Held(cur) = 0 .. k
         /\ \A m \in Mods : m # cur => /\ Held(m) = 0 .. Len(deps[m])
                                       /\ Kept(m) = 0 .. Len(deps[m])
BY DEF Held, Kept

(* The TLS table, the images and the threads.                                *)
LEMMA TlsKeeps ==
  ASSUME IInv, Next
  PROVE  TlsTypeOK' /\ ThreadsInStep' /\ SlotTable'
<1> USE DEF IInv
<1>1. TlsTypeOK /\ ThreadsInStep /\ SlotTable BY Zenon DEF Types, TypeOK, Owned
<1>2. CASE LinkStep
  <2>1. UNCHANGED <<live, cur, deps>> /\ pc \in Loading BY <1>2, LinkStepFrame
  <2>2. cur \in Holding /\ cur \in Mods BY <2>1 DEF Stage, Holding, Loading
  <2>3. Held(cur) = 0 .. Len(deps[cur]) BY <2>1, <2>2, HeldIs DEF Loading
  <2>4. CASE UNCHANGED tlsVars BY <2>1, <2>4, <1>1, TlsFrame
  <2>5. CASE RegisterTls
    <3>1. \/ UNCHANGED tlsVars
          \/ /\ pc = "tls" /\ k \in ToLink(cur) /\ FreeSlots # {}
             /\ RegisterTlsSegment(ImageAt(cur, k))
      BY <2>5, Zenon DEF RegisterTls
    <3>2. ASSUME pc = "tls", k \in ToLink(cur), FreeSlots # {}, RegisterTlsSegment(ImageAt(cur, k))
          PROVE  TlsTypeOK' /\ ThreadsInStep' /\ SlotTable'
      <4>1. k \in 0 .. Len(deps[cur]) BY <3>2, <2>2, Layout
      <4>2. ImageAt(cur, k) \in live BY <4>1, <2>2, <2>3 DEF Alive
      <4>3. k \in k .. Len(deps[cur]) BY <4>1
      <4>4. modId[ImageAt(cur, k)] = 0 BY <4>3, <3>2 DEF Owned
      <4>5. ImageAt(cur, k) \in Images BY <4>1, <2>2, Layout
      <4>6. QED BY <4>2, <4>4, <4>5, <3>2, <2>1, <1>1, RegisterKeeps
    <3>3. QED BY <3>1, <3>2, <2>4
  <2>6. CASE TlsDone
    <3>1. BumpTlsGeneration BY <2>6, Zenon DEF TlsDone
    <3>2. QED BY <3>1, <2>1, <1>1, BumpKeeps
  <2>7. CASE ProcessRelocation
    <3>1. UNCHANGED <<modules, generation, modId>> BY <2>7, Zenon DEF ProcessRelocation
    <3> DEFINE img == ImageAt(cur, k)
               r == Relocations(k)[rel]
               p == IF r.sym = "self" THEN img ELSE Provider(img, r.sym)
    <3>2. k \in ToLink(cur) BY <2>7, Zenon DEF ProcessRelocation
    <3>3. \/ UNCHANGED <<tracked, thread>>
          \/ RelocTlsDesc(img, r, p) \/ RelocTprel(img, r, p)
      BY <2>7, Zenon DEF ProcessRelocation, RelocOther, RelocRelative, Unresolved, RelocSymbol,
         NoTls, RelocDtpMod, RefersTo, Skip, Refuse
    <3> HIDE DEF p, r
    <3>4. CASE UNCHANGED <<tracked, thread>> BY <3>1, <3>4, <2>4 DEF tlsVars
    <3>5. CASE RelocTlsDesc(img, r, p)
      <4>1. p # NoImage /\ tracked' = tracked \cup {p} /\ UNCHANGED thread
        BY <3>5, Zenon DEF RelocTlsDesc
      <4>2. k \in 0 .. Len(deps[cur]) BY <3>2, <2>2, Layout
      <4>3. p \in Images
        <5>1. CASE p = img BY <5>1, <4>2, <2>2, Layout
        <5>2. CASE p # img
          <6>1. p = Provider(img, r.sym) BY <5>2, Zenon DEF p
          <6>2. \E q \in 0 .. Len(deps[cur]) : p = ImageAt(cur, q)
            BY <6>1, <5>2, <4>1, <4>2, <2>2, ProviderIs
          <6>3. QED BY <6>2, <2>2, Layout
        <5>3. QED BY <5>1, <5>2
      <4>4. TlsTypeOK' BY <4>1, <4>3, <3>1, <1>1 DEF TlsTypeOK
      <4>5. ThreadsInStep' BY <4>1, <3>1, <1>1, Zenon DEF ThreadsInStep, InStep
      <4>6. SlotTable' BY <3>1, <2>1, <1>1, Zenon DEF SlotTable
      <4>7. QED BY <4>4, <4>5, <4>6
    <3>6. CASE RelocTprel(img, r, p)
      <4>1. PICK how \in Allocations : TlsGetAddr(Loader, modId[p], how)
        BY <3>6, Zenon DEF RelocTprel
      <4>2. UNCHANGED tracked BY <3>6, Zenon DEF RelocTprel
      <4>3. thread' \in [Threads -> ThreadState] /\ ThreadsInStep'
        BY <4>1, <3>1, <1>1, LinkerAssumption, TlsGetAddrKeeps
      <4>4. TlsTypeOK' BY <4>2, <4>3, <3>1, <1>1, Zenon DEF TlsTypeOK, ThreadState
      <4>5. SlotTable' BY <3>1, <2>1, <1>1, Zenon DEF SlotTable
      <4>6. QED BY <4>3, <4>4, <4>5
    <3>7. QED BY <3>3, <3>4, <3>5, <3>6
  <2>8. UNCHANGED tlsVars \/ RegisterTls \/ TlsDone \/ ProcessRelocation
    BY <1>2, Zenon DEF LinkStep, DepsDone, ImageDone, RelocsDone, RegisterUnwind, UnwindDone,
       StartWalk, WalkNext, WalkCalls, WalksDone, ConstructRest, ConstructMain, InWalk,
       LinkVarsInDeps
  <2>9. QED BY <2>4, <2>5, <2>6, <2>7, <2>8
<1>3. CASE StartLoad
  <2>1. UNCHANGED tlsVars /\ (UNCHANGED live \/ live' = live \cup {Main(Head(queue))})
    BY <1>3, Zenon DEF StartLoad, GiveUp
  <2>2. QED BY <2>1, <1>1, TlsFrame
<1>4. CASE ResolveNeeded
  <2>1. UNCHANGED tlsVars BY <1>4, ResolveFrame
  <2>2. live \subseteq live' BY <1>4, ResolveFrame DEF TakeLoaded, LoadManually, LoadManuallyFails
  <2>3. QED BY <2>1, <2>2, <1>1, TlsFrame
<1>5. CASE FindEntry
  <2>1. UNCHANGED <<tlsVars, live>> BY <1>5, Zenon DEF FindEntry
  <2>2. QED BY <2>1, <1>1, TlsFrame
<1>6. CASE StartRelease
  <2>1. UNCHANGED <<tlsVars, live>> BY <1>6, Zenon DEF StartRelease
  <2>2. QED BY <2>1, <1>1, TlsFrame
<1>7. CASE RunDestructors
  <2>1. UNCHANGED <<tlsVars, live>> BY <1>7, Zenon DEF RunDestructors
  <2>2. QED BY <2>1, <1>1, TlsFrame
<1>8. CASE ReleaseDependency
  <2> DEFINE img == <<cur, deps[cur][k].lib>>
  <2>1. /\ pc = "release" /\ k > 0 /\ UnregisterTlsSegments({img}) /\ live' = live \ {img}
    BY <1>8, Zenon DEF ReleaseDependency
  <2>2. cur \in Mods /\ k <= Len(deps[cur]) /\ k \in Nat BY <2>1 DEF Stage, Holding, Types
  <2>3. k \in 0 .. Len(deps[cur]) /\ k # 0 BY <2>1, <2>2, Layout
  <2>4. img \in Images BY <2>2, <2>3, Layout
  <2> HIDE DEF img
  <2>5. QED BY <2>1, <2>4, <1>1, UnregisterKeeps
<1>9. CASE ReleaseMain
  <2>1. pc = "release" /\ UnregisterTlsSegments({Main(cur)}) /\ live' = live \ {Main(cur)}
    BY <1>9, Zenon DEF ReleaseMain
  <2>2. cur \in Mods BY <2>1 DEF Stage, Holding
  <2>3. Main(cur) \in Images BY <2>2, MainImage
  <2>4. QED BY <2>1, <2>3, <1>1, UnregisterKeeps
<1>10. CASE Deinit
  <2>1. /\ \A m \in Mods : life[m] \in {"gone", "kept"}
        /\ TlsDeinit /\ UNCHANGED live
    BY <1>10, Zenon DEF Deinit, Mods
  <2>2. live = {} BY <2>1 DEF Alive, Holding
  <2>3. QED BY <2>1, <2>2, <1>1, TlsDeinitKeeps
<1>11. ASSUME NEW t \in Threads, AccessTls(t) PROVE TlsTypeOK' /\ ThreadsInStep' /\ SlotTable'
  <2>1. UNCHANGED <<modules, generation, modId, tracked>> /\ UNCHANGED linkVars
    BY <1>11, Zenon DEF AccessTls
  <2>2. PICK id, how : TlsGetAddr(t, id, how) BY <1>11, Zenon DEF AccessTls
  <2>3. thread' \in [Threads -> ThreadState] /\ ThreadsInStep'
    BY <2>1, <2>2, <1>1, TlsGetAddrKeeps
  <2>4. TlsTypeOK' BY <2>1, <2>3, <1>1, Zenon DEF TlsTypeOK, ThreadState
  <2>5. UNCHANGED live BY <2>1 DEF linkVars
  <2>6. SlotTable' BY <2>1, <2>5, <1>1, Zenon DEF SlotTable
  <2>7. QED BY <2>3, <2>4, <2>6
<1>12. ASSUME NEW t \in Threads, ThreadExit(t) PROVE TlsTypeOK' /\ ThreadsInStep' /\ SlotTable'
  <2>1. ThreadEnds(t) /\ UNCHANGED linkVars BY <1>12, Zenon DEF ThreadExit
  <2>2. TlsTypeOK' /\ ThreadsInStep' /\ UNCHANGED <<modules, modId>>
    BY <2>1, <1>1, ThreadEndsKeeps
  <2>3. UNCHANGED live BY <2>1 DEF linkVars
  <2>4. SlotTable' BY <2>2, <2>3, <1>1, Zenon DEF SlotTable
  <2>5. QED BY <2>2, <2>4
<1>13. QED
  BY <1>2, <1>3, <1>4, <1>5, <1>6, <1>7, <1>8, <1>9, <1>10, <1>11, <1>12, StepKinds

(* Which images a module has depends on its dependencies and, while it is    *)
(* released, on how far the release has come.                                *)
LEMMA HeldFrame ==
  ASSUME UNCHANGED deps,
         \/ pc # "release" /\ (pc' = "release" => k' = Len(deps[cur']))
         \/ UNCHANGED <<pc, cur, k, unload>>
  PROVE  \A m : Held(m)' = Held(m) /\ Kept(m)' = Kept(m)
<1>1. CASE pc # "release" /\ (pc' = "release" => k' = Len(deps[cur']))
  <2>1. \A m : Held(m) = 0 .. Len(deps[m]) /\ Kept(m) = 0 .. Len(deps[m])
    BY <1>1, Zenon DEF Held, Kept
  <2>2. ASSUME NEW m PROVE Held(m)' = 0 .. Len(deps[m]) /\ Kept(m)' = 0 .. Len(deps[m])
    <3>1. CASE pc' = "release" /\ m = cur'
      <4>1. k' = Len(deps[m]) BY <3>1, <1>1
      <4>2. Held(m)' = 0 .. k' /\ (Kept(m)' = 0 .. k' \/ Kept(m)' = 0 .. Len(deps'[m]))
        BY <3>1, Zenon DEF Held, Kept
      <4>3. QED BY <4>1, <4>2
    <3>2. CASE ~(pc' = "release" /\ m = cur') BY <3>2, Zenon DEF Held, Kept
    <3>3. QED BY <3>1, <3>2
  <2>3. QED BY <2>1, <2>2
<1>2. CASE UNCHANGED <<pc, cur, k, unload>> BY <1>2, Zenon DEF Held, Kept
<1>3. QED BY <1>1, <1>2

(* The module a load is started for has nothing yet.                         *)
LEMMA StartLoadIs ==
  ASSUME IInv, StartLoad
  PROVE  /\ pc = "idle" /\ cur = NoMain /\ UNCHANGED deps /\ UNCHANGED world
         /\ \E m \in Mods :
              /\ m = Head(queue) /\ life[m] = "none" /\ m \notin Holding
              /\ deps[m] = <<>> /\ Len(deps[m]) = 0 /\ ToLink(m) = {0}
              /\ m # NoMain
              /\ \A x \in Mods : x # m => life'[x] = life[x]
              /\ \/ /\ life'[m] = "gone" /\ Holding' = Holding
                    /\ UNCHANGED <<pc, cur, k, mapped, live>>
                 \/ /\ life'[m] = "loading" /\ Holding' = Holding \cup {m}
                    /\ pc' = "deps" /\ cur' = m /\ k' = 1
                    /\ mapped' = mapped \cup {Main(m)} /\ live' = live \cup {Main(m)}
<1> USE DEF IInv
<1>1. /\ pc = "idle" /\ queue # <<>> /\ UNCHANGED deps /\ UNCHANGED world
      /\ \/ /\ life' = [life EXCEPT ![Head(queue)] = "gone"]
            /\ UNCHANGED <<pc, cur, k, mapped, live>>
         \/ /\ life' = [life EXCEPT ![Head(queue)] = "loading"]
            /\ pc' = "deps" /\ cur' = Head(queue) /\ k' = 1
            /\ mapped' = mapped \cup {Main(Head(queue))} /\ live' = live \cup {Main(Head(queue))}
  BY Zenon DEF StartLoad, GiveUp
<1>2. /\ life \in [Mods -> {"none", "loading", "linked", "kept", "gone"}]
      /\ deps \in [Mods -> Seq(Dep)] /\ queue \in Seq(Mods)
  BY DEF Types
<1>3. PICK m \in Mods : m = Head(queue) BY <1>1, <1>2
<1>4. m = queue[1] /\ 1 \in 1 .. Len(queue) BY <1>1, <1>2, <1>3
<1>5. life[m] = "none" BY <1>4 DEF Stage
<1>6. m \notin Holding BY <1>5 DEF Holding
<1>7. deps[m] = <<>> BY <1>6 DEF Emptied
<1>8. Len(deps[m]) = 0 /\ ToLink(m) = {0} BY <1>7 DEF ToLink
<1>9. m # NoMain BY LinkerAssumption DEF Mods, Files
<1>10. \A x \in Mods : x # m => life'[x] = life[x] BY <1>1, <1>2, <1>3
<1>11. CASE life' = [life EXCEPT ![m] = "gone"]
  <2>1. life'[m] = "gone" BY <1>11, <1>2
  <2>2. Holding' = Holding BY <2>1, <1>6, <1>10 DEF Holding
  <2>3. UNCHANGED <<pc, cur, k, mapped, live>> BY <1>1, <1>2, <1>3, <2>1
  <2>4. QED BY <2>1, <2>2, <2>3, <1>1, <1>3, <1>5, <1>6, <1>7, <1>8, <1>9, <1>10 DEF Stage
<1>12. CASE life' = [life EXCEPT ![m] = "loading"]
  <2>1. life'[m] = "loading" BY <1>12, <1>2
  <2>2. Holding' = Holding \cup {m} BY <2>1, <1>10 DEF Holding
  <2>3. /\ pc' = "deps" /\ cur' = m /\ k' = 1
        /\ mapped' = mapped \cup {Main(m)} /\ live' = live \cup {Main(m)}
    BY <1>1, <1>2, <1>3, <2>1
  <2>4. QED BY <2>1, <2>2, <2>3, <1>1, <1>3, <1>5, <1>6, <1>7, <1>8, <1>9, <1>10 DEF Stage
<1>13. QED BY <1>1, <1>3, <1>11, <1>12

(* A dependency that is taken is a new image.                                *)
LEMMA NewDependency ==
  ASSUME IInv, ResolveNeeded, NEW n, TakeLoaded(n) \/ LoadManually(n),
         NEW c, c = cur, NEW len \in Nat, len = Len(deps[c])
  PROVE  /\ pc = "deps" /\ pc' = "deps" /\ c = cur' /\ UNCHANGED <<life, world>>
         /\ c \in Mods /\ c \in Holding /\ n \in Libs /\ <<c, n>> \in Images
         /\ Len(deps'[c]) = len + 1
         /\ \A m \in Mods : m # c => deps'[m] = deps[m]
         /\ \A p \in 0 .. len : ImageAt(c, p)' = ImageAt(c, p) /\ ImageAt(c, p) # <<c, n>>
         /\ ImageAt(c, len + 1)' = <<c, n>>
         /\ ToLink(c)' = IF n \notin world.system THEN ToLink(c) \cup {len + 1} ELSE ToLink(c)
         /\ LinkedImages(c) \subseteq LinkedImages(c)'
         /\ live' = live \cup {<<c, n>>}
         /\ Held(c) = 0 .. len /\ Held(c)' = 0 .. len + 1
         /\ Kept(c) = 0 .. len /\ Kept(c)' = 0 .. len + 1
         /\ \A m \in Mods : m # c => Held(m)' = Held(m) /\ Kept(m)' = Kept(m)
         /\ <<c, n>> \notin live /\ modId[<<c, n>>] = 0
         /\ LoadManually(n) => mapped' = mapped \cup {<<c, n>>} /\ n \notin world.system
         /\ TakeLoaded(n) => UNCHANGED mapped /\ n \in world.system
         /\ UNCHANGED leaked
<1> USE DEF IInv
<1>1. pc = "deps" /\ UNCHANGED <<cur, life, world>> BY ResolveFrame
<1>2. c \in Mods /\ c \in Holding BY <1>1 DEF Stage, Holding
<1>3. /\ MustLoad(n) /\ UNCHANGED <<pc, leaked>> /\ live' = live \cup {<<c, n>>}
      /\ AddDependency(cur, n, n \notin world.system)
      /\ LoadManually(n) => mapped' = mapped \cup {<<c, n>>} /\ n \notin world.system
      /\ TakeLoaded(n) => UNCHANGED mapped /\ n \in world.system
  <2>1. CASE TakeLoaded(n)
    <3>1. (n \notin world.system) = FALSE /\ AddDependency(cur, n, FALSE) BY <2>1 DEF TakeLoaded
    <3>2. AddDependency(cur, n, n \notin world.system) BY <3>1
    <3>3. QED BY <2>1, <3>2 DEF TakeLoaded, LoadManually
  <2>2. CASE LoadManually(n)
    <3>1. (n \notin world.system) = TRUE /\ AddDependency(cur, n, TRUE) BY <2>2 DEF LoadManually
    <3>2. AddDependency(cur, n, n \notin world.system) BY <3>1
    <3>3. QED BY <2>2, <3>2 DEF TakeLoaded, LoadManually
  <2>3. QED BY <2>1, <2>2
<1>4. n \in Libs
  <2>1. world \in Worlds BY DEF Types, TypeOK
  <2>2. QED BY <1>3, <2>1, WorldAssumption DEF MustLoad
<1>5. /\ \A m \in Mods : m # c => deps'[m] = deps[m]
      /\ Len(deps'[c]) = len + 1
      /\ \A p \in 0 .. len : ImageAt(c, p)' = ImageAt(c, p)
      /\ ImageAt(c, len + 1)' = <<c, n>>
      /\ ToLink(c)' = IF n \notin world.system THEN ToLink(c) \cup {len + 1} ELSE ToLink(c)
      /\ LinkedImages(c) \subseteq LinkedImages(c)'
  BY <1>1, <1>2, <1>3, <1>4, OneImageMore
<1>6. n # c /\ \A i \in DOMAIN deps[c] : deps[c][i].lib # n
  BY <1>3, Zenon DEF MustLoad, IsLoaded
<1>7. ASSUME NEW p \in 0 .. len PROVE ImageAt(c, p) # <<c, n>>
  <2>1. CASE p = 0 BY <2>1, <1>6, Zenon DEF Main, ImageAt
  <2>2. CASE p # 0
    <3>1. p \in DOMAIN deps[c] BY <2>2, <1>2, Layout
    <3>2. ImageAt(c, p) = <<c, deps[c][p].lib>> BY <2>2, Zenon DEF ImageAt
    <3>3. QED BY <3>1, <3>2, <1>6
  <2>3. QED BY <2>1, <2>2
<1>8. /\ Held(c) = 0 .. len /\ Held(c)' = 0 .. len + 1
      /\ Kept(c) = 0 .. len /\ Kept(c)' = 0 .. len + 1
      /\ \A m \in Mods : m # c => Held(m)' = Held(m) /\ Kept(m)' = Kept(m)
  <2>1. pc # "release" /\ pc' # "release" BY <1>1, <1>3
  <2>2. \A m : /\ Held(m) = 0 .. Len(deps[m]) /\ Kept(m) = 0 .. Len(deps[m])
               /\ Held(m)' = 0 .. Len(deps'[m]) /\ Kept(m)' = 0 .. Len(deps'[m])
    BY <2>1, Zenon DEF Held, Kept
  <2>3. \A m \in Mods : m # c => Len(deps'[m]) = Len(deps[m]) BY <1>5
  <2>4. \A m \in Mods : m # c => Held(m)' = Held(m) /\ Kept(m)' = Kept(m)
    BY ONLY <2>2, <2>3, Zenon
  <2>5. QED BY ONLY <2>2, <2>4, <1>5, len = Len(deps[c]), Zenon
<1>9. <<c, n>> \in Images BY <1>2, <1>4, LinkerAssumption DEF Mods, Files
<1>10. <<c, n>> \notin live
  <2>1. ModuleOf(<<c, n>>) = c BY DEF ModuleOf
  <2>2. QED BY <2>1, <1>7, <1>8 DEF Alive
<1>11. modId[<<c, n>>] = 0 BY <1>9, <1>10 DEF Owned, SlotTable
<1>12. QED BY <1>1, <1>2, <1>3, <1>4, <1>5, <1>7, <1>8, <1>9, <1>10, <1>11

(* The image objects in existence are those of the modules in hand.          *)
LEMMA AliveKeeps ==
  ASSUME IInv, Next
  PROVE  Alive'
<1> USE DEF IInv
<1>1. ASSUME UNCHANGED <<deps, live>>, Holding' = Holding, \A m : Held(m)' = Held(m)
      PROVE  Alive'
  <2>1. \A m, p : ImageAt(m, p)' = ImageAt(m, p) BY <1>1, SameImages
  <2>2. QED BY <1>1, <2>1, Zenon DEF Alive, ModuleOf
<1>2. /\ life \in [Mods -> {"none", "loading", "linked", "kept", "gone"}]
      /\ deps \in [Mods -> Seq(Dep)] /\ k \in Nat
  BY DEF Types
<1>3. CASE LinkStep
  <2>1. UNCHANGED <<deps, live, life>> /\ pc # "release" /\ pc' # "release"
    BY <1>3, LinkStepFrame DEF Loading
  <2>2. Holding' = Holding BY <2>1, Zenon DEF Holding
  <2>3. \A m : Held(m)' = Held(m) BY <2>1, HeldFrame
  <2>4. QED BY <2>1, <2>2, <2>3, <1>1
<1>4. CASE StartLoad
  <2>1. pc = "idle" /\ UNCHANGED deps BY <1>4, StartLoadIs
  <2>2. PICK m \in Mods :
              /\ m \notin Holding /\ Len(deps[m]) = 0
              /\ \/ /\ Holding' = Holding /\ UNCHANGED <<pc, cur, k, mapped, live>>
                 \/ /\ Holding' = Holding \cup {m} /\ pc' = "deps" /\ live' = live \cup {Main(m)}
    BY <1>4, StartLoadIs
  <2>3. \A x : Held(x)' = Held(x) BY <2>1, <2>2, HeldFrame
  <2>4. CASE Holding' = Holding /\ UNCHANGED live BY <2>1, <2>3, <2>4, <1>1
  <2>5. CASE Holding' = Holding \cup {m} /\ live' = live \cup {Main(m)}
    <3>1. \A x, p : ImageAt(x, p)' = ImageAt(x, p) BY <2>1, SameImages
    <3>2. Held(m) = 0 .. 0 BY <2>1, <2>2, Zenon DEF Held
    <3>3. Held(m) = {0} BY <3>2
    <3>4. ImageAt(m, 0) = Main(m) /\ ModuleOf(Main(m)) = m BY Layout, MainImage
    <3>5. ASSUME NEW i \in live'
          PROVE  /\ ModuleOf(i) \in Holding'
                 /\ \E p \in Held(ModuleOf(i)) : i = ImageAt(ModuleOf(i), p)
      <4>1. CASE i \in live BY <4>1, <2>5 DEF Alive
      <4>2. CASE i = Main(m) BY <4>2, <2>5, <3>3, <3>4
      <4>3. QED BY <4>1, <4>2, <2>5
    <3>6. ASSUME NEW x \in Holding', NEW p \in Held(x) PROVE ImageAt(x, p) \in live'
      <4>1. CASE x \in Holding BY <4>1, <2>5 DEF Alive
      <4>2. CASE x = m BY <4>2, <3>3, <3>4, <2>5
      <4>3. QED BY <4>1, <4>2, <2>5
    <3>7. QED BY <3>1, <3>5, <3>6, <2>3, Zenon DEF Alive, ModuleOf
  <2>6. QED BY <2>2, <2>4, <2>5
<1>5. CASE ResolveNeeded
  <2>1. UNCHANGED <<cur, life>> /\ pc = "deps" /\ pc' \in {"deps", "fini"} BY <1>5, ResolveFrame
  <2>2. Holding' = Holding BY <2>1, Zenon DEF Holding
  <2>3. CASE UNCHANGED <<deps, live>>
    <3>1. \A m : Held(m)' = Held(m) BY <2>1, <2>3, HeldFrame
    <3>2. QED BY <2>2, <2>3, <3>1, <1>1
  <2>4. ASSUME NEW n, TakeLoaded(n) \/ LoadManually(n) PROVE Alive'
    <3>1. PICK c \in Mods : c = cur BY <2>1 DEF Stage, Holding
    <3>2. PICK len \in Nat : len = Len(deps[c]) BY <3>1, <1>2
    <3>3. /\ c \in Holding
          /\ \A m \in Mods : m # c => deps'[m] = deps[m] /\ Held(m)' = Held(m)
          /\ \A p \in 0 .. len : ImageAt(c, p)' = ImageAt(c, p)
          /\ ImageAt(c, len + 1)' = <<c, n>>
          /\ live' = live \cup {<<c, n>>}
          /\ Held(c) = 0 .. len /\ Held(c)' = 0 .. len + 1
      BY <1>5, <2>4, <3>1, <3>2, NewDependency
    <3>4. \A m \in Mods : m # c => \A p : ImageAt(m, p)' = ImageAt(m, p) BY <3>3, SameImages
    <3>5. len + 1 \in 0 .. len + 1 /\ \A p \in 0 .. len : p \in 0 .. len + 1 BY <3>2
    <3>6. \A p \in 0 .. len + 1 : p = len + 1 \/ p \in 0 .. len BY <3>2
    <3>7. ASSUME NEW i \in live'
          PROVE  /\ ModuleOf(i) \in Holding
                 /\ \E p \in Held(ModuleOf(i))' : i = ImageAt(ModuleOf(i), p)'
      <4>1. CASE i = <<c, n>>
        <5>1. ModuleOf(i) = c BY <4>1 DEF ModuleOf
        <5>2. QED BY <5>1, <4>1, <3>3, <3>5, Zenon
      <4>2. CASE i \in live
        <5>1. ModuleOf(i) \in Holding /\ ModuleOf(i) \in Mods BY <4>2 DEF Alive, Holding
        <5>2. PICK p \in Held(ModuleOf(i)) : i = ImageAt(ModuleOf(i), p) BY <4>2 DEF Alive
        <5>3. p \in Held(ModuleOf(i))' /\ i = ImageAt(ModuleOf(i), p)'
          <6>1. CASE ModuleOf(i) = c BY <6>1, <5>2, <3>3, <3>5, Zenon
          <6>2. CASE ModuleOf(i) # c BY <6>2, <5>1, <5>2, <3>3, <3>4, Zenon
          <6>3. QED BY <6>1, <6>2
        <5>4. QED BY <5>1, <5>3
      <4>3. QED BY <4>1, <4>2, <3>3
    <3>8. ASSUME NEW m \in Holding, NEW p \in Held(m)' PROVE ImageAt(m, p)' \in live'
      <4>0. m \in Mods BY DEF Holding
      <4>1. CASE m = c
        <5>1. CASE p = len + 1 BY <5>1, <4>1, <3>3, Zenon
        <5>2. CASE p \in 0 .. len
          <6>1. ImageAt(c, p) \in live BY <5>2, <3>3 DEF Alive
          <6>2. QED BY <6>1, <5>2, <4>1, <3>3, Zenon
        <5>3. QED BY <5>1, <5>2, <4>1, <3>3, <3>6
      <4>2. CASE m # c
        <5>1. p \in Held(m) BY <4>0, <4>2, <3>3
        <5>2. ImageAt(m, p) \in live BY <5>1 DEF Alive
        <5>3. QED BY <5>2, <4>0, <4>2, <3>3, <3>4, Zenon
      <4>3. QED BY <4>1, <4>2
    <3>9. QED BY <3>7, <3>8, <2>2, Zenon DEF Alive, ModuleOf
  <2>5. LoadManuallyFails(names[k]) => UNCHANGED <<deps, live>>
    BY DEF LoadManuallyFails
  <2>6. QED BY <2>3, <2>4, <2>5, <1>5, ResolveFrame
<1>6. CASE FindEntry
  <2>1. /\ pc = "linked" /\ pc' # "release" /\ UNCHANGED <<deps, live>>
        /\ UNCHANGED life \/ life' = [life EXCEPT ![cur] = "linked"]
    BY <1>6 DEF FindEntry, LinkFails
  <2>2. cur \in Holding BY <2>1 DEF Stage
  <2>3. Holding' = Holding BY <2>1, <2>2, <1>2 DEF Holding
  <2>4. \A m : Held(m)' = Held(m) BY <2>1, HeldFrame
  <2>5. QED BY <2>1, <2>3, <2>4, <1>1
<1>7. CASE StartRelease
  <2>1. /\ pc = "idle" /\ UNCHANGED <<deps, live, life>>
        /\ pc' = "release" => k' = Len(deps[cur'])
    BY <1>7 DEF StartRelease
  <2>2. Holding' = Holding BY <2>1, Zenon DEF Holding
  <2>3. \A m : Held(m)' = Held(m) BY <2>1, HeldFrame
  <2>4. QED BY <2>1, <2>2, <2>3, <1>1
<1>8. CASE RunDestructors
  <2>1. /\ pc = "fini" /\ UNCHANGED <<deps, live, life>> /\ k' = Len(deps[cur'])
    BY <1>8 DEF RunDestructors
  <2>2. Holding' = Holding BY <2>1, Zenon DEF Holding
  <2>3. \A m : Held(m)' = Held(m) BY <2>1, HeldFrame
  <2>4. QED BY <2>1, <2>2, <2>3, <1>1
<1>9. CASE ReleaseDependency
  <2>1. /\ pc = "release" /\ pc' = "release" /\ k > 0 /\ k' = k - 1
        /\ UNCHANGED <<deps, life, cur>>
        /\ live' = live \ {<<cur, deps[cur][k].lib>>}
    BY <1>9, Zenon DEF ReleaseDependency
  <2>0. PICK c : c = cur /\ c = cur' BY <2>1
  <2>2. c \in Mods /\ k <= Len(deps[c]) BY <2>0, <2>1 DEF Stage, Holding
  <2>3. k \in 0 .. Len(deps[c]) /\ k # 0 BY <2>1, <2>2, <1>2, Layout
  <2>4. live' = live \ {ImageAt(c, k)} BY <2>0, <2>1, <2>2, <2>3, Layout
  <2>5. Holding' = Holding BY <2>1, Zenon DEF Holding
  <2>6. \A m, p : ImageAt(m, p)' = ImageAt(m, p) BY <2>1, SameImages
  <2>7. \A m : m # c => Held(m)' = Held(m) BY <2>0, <2>1, Zenon DEF Held
  <2>8. Held(c) = 0 .. k /\ Held(c)' = 0 .. k' BY <2>0, <2>1, Zenon DEF Held
  <2>9. Held(c)' = Held(c) \ {k} BY <2>8, <2>1, <1>2
  <2>10. ASSUME NEW i \in live'
         PROVE  /\ ModuleOf(i) \in Holding
                /\ \E p \in Held(ModuleOf(i))' : i = ImageAt(ModuleOf(i), p)
    <3>1. i \in live /\ i # ImageAt(c, k) BY <2>4
    <3>2. PICK p \in Held(ModuleOf(i)) : i = ImageAt(ModuleOf(i), p) BY <3>1 DEF Alive
    <3>3. p \in Held(ModuleOf(i))'
      <4>1. CASE ModuleOf(i) = c
        <5>1. p # k BY <3>1, <3>2, <4>1
        <5>2. p \in Held(c) \ {k} BY <5>1, <3>2, <4>1
        <5>3. p \in Held(c)' BY <5>2, <2>9
        <5>4. QED BY <5>3, <4>1, Zenon
      <4>2. CASE ModuleOf(i) # c BY <4>2, <3>2, <2>7, Zenon
      <4>3. QED BY <4>1, <4>2
    <3>4. QED BY <3>1, <3>2, <3>3 DEF Alive
  <2>11. ASSUME NEW m \in Holding, NEW p \in Held(m)' PROVE ImageAt(m, p) \in live'
    <3>1. CASE m = c
      <4>1. p \in Held(c) \ {k} BY <3>1, <2>9, Zenon
      <4>2. p \in 0 .. Len(deps[c]) BY <4>1, <2>2, <2>8, <1>2, Layout
      <4>3. ImageAt(c, p) # ImageAt(c, k) BY <4>1, <4>2, <2>2, <2>3, Layout
      <4>4. ImageAt(c, p) \in live BY <4>1, <3>1 DEF Alive
      <4>5. QED BY <4>3, <4>4, <3>1, <2>4
    <3>2. CASE m # c
      <4>1. p \in Held(m) BY <3>2, <2>7
      <4>2. ImageAt(m, p) \in live BY <4>1 DEF Alive
      <4>3. m \in Mods /\ p \in 0 .. Len(deps[m]) BY <4>1, <3>2, HeldIs, <2>0, <2>2 DEF Holding
      <4>4. ModuleOf(ImageAt(m, p)) = m /\ ModuleOf(ImageAt(c, k)) = c
        BY <4>3, <2>2, <2>3, Layout
      <4>5. ImageAt(m, p) # ImageAt(c, k) BY <4>4, <3>2
      <4>6. QED BY <4>2, <4>5, <2>4
    <3>3. QED BY <3>1, <3>2
  <2>12. QED BY <2>5, <2>6, <2>10, <2>11, Zenon DEF Alive, ModuleOf
<1>10. CASE ReleaseMain
  <2>1. /\ pc = "release" /\ pc' = "idle" /\ k = 0
        /\ live' = live \ {Main(cur)}
        /\ life' = [life EXCEPT ![cur] = IF unload THEN "gone" ELSE "kept"]
        /\ deps' = [deps EXCEPT ![cur] = <<>>]
    BY <1>10, Zenon DEF ReleaseMain
  <2>2. cur \in Mods BY <2>1 DEF Stage, Holding
  <2>3. Holding' = Holding \ {cur} BY <2>1, <2>2, <1>2 DEF Holding
  <2>4. \A m \in Mods : m # cur => deps'[m] = deps[m] BY <2>1, <1>2
  <2>5. Held(cur) = 0 .. 0 BY <2>1, Zenon DEF Held
  <2>6. Held(cur) = {0} /\ ImageAt(cur, 0) = Main(cur) BY <2>5, <2>2, Layout
  <2>7. \A m \in Mods : m # cur => Held(m)' = Held(m) /\ \A p : ImageAt(m, p)' = ImageAt(m, p)
    <3>1. ASSUME NEW m \in Mods, m # cur PROVE Held(m)' = Held(m)
      <4>1. Held(m) = 0 .. Len(deps[m]) BY <3>1, Zenon DEF Held
      <4>2. Held(m)' = 0 .. Len(deps'[m]) BY <2>1, Zenon DEF Held
      <4>3. QED BY <4>1, <4>2, <3>1, <2>4
    <3>2. QED BY <3>1, <2>4, SameImages
  <2>8. ASSUME NEW i \in live'
        PROVE  /\ ModuleOf(i) \in Holding'
               /\ \E p \in Held(ModuleOf(i))' : i = ImageAt(ModuleOf(i), p)'
    <3>1. i \in live /\ i # Main(cur) BY <2>1
    <3>2. PICK p \in Held(ModuleOf(i)) : i = ImageAt(ModuleOf(i), p) BY <3>1 DEF Alive
    <3>3. ModuleOf(i) # cur BY <3>1, <3>2, <2>6
    <3>4. ModuleOf(i) \in Holding /\ ModuleOf(i) \in Mods BY <3>1 DEF Alive, Holding
    <3>5. QED BY <3>2, <3>3, <3>4, <2>3, <2>7, Zenon
  <2>9. ASSUME NEW m \in Holding', NEW p \in Held(m)' PROVE ImageAt(m, p)' \in live'
    <3>1. m \in Holding /\ m # cur /\ m \in Mods BY <2>3 DEF Holding
    <3>2. p \in Held(m) /\ ImageAt(m, p)' = ImageAt(m, p) BY <3>1, <2>7
    <3>3. ImageAt(m, p) \in live BY <3>1, <3>2 DEF Alive
    <3>4. p \in 0 .. Len(deps[m]) BY <3>1, <3>2, <2>2, HeldIs
    <3>5. ModuleOf(ImageAt(m, p)) = m /\ ModuleOf(Main(cur)) = cur
      BY <3>1, <3>4, <2>2, Layout, MainImage
    <3>6. QED BY <3>1, <3>2, <3>3, <3>5, <2>1
  <2>10. QED BY <2>8, <2>9, Zenon DEF Alive, ModuleOf
<1>11. CASE (\E t \in Threads : AccessTls(t) \/ ThreadExit(t)) \/ Deinit
  <2>1. UNCHANGED <<deps, live, life, pc, cur, k, unload>> BY <1>11, ThreadStepFrame
  <2>2. Holding' = Holding BY <2>1, Zenon DEF Holding
  <2>3. \A m : Held(m)' = Held(m) BY <2>1, HeldFrame
  <2>4. QED BY <2>1, <2>2, <2>3, <1>1
<1>12. QED BY <1>3, <1>4, <1>5, <1>6, <1>7, <1>8, <1>9, <1>10, <1>11, StepKinds

(* A module that is about to register has no slot.                           *)
LEMMA OwnedKeeps ==
  ASSUME IInv, Next
  PROVE  Owned'
<1> USE DEF IInv
<1> DEFINE From == IF pc = "tls" THEN k ELSE 0
           Free == \A p \in From .. Len(deps[cur]) : modId[ImageAt(cur, p)] = 0
<1>1. SlotTable' BY TlsKeeps
<1>2. SUFFICES ASSUME pc' \in {"deps", "tls"} PROVE Free' BY <1>1, Zenon DEF Owned
<1>3. pc \in {"deps", "tls"} => Free BY Zenon DEF Owned
<1>4. /\ deps \in [Mods -> Seq(Dep)] /\ k \in Nat /\ modId \in [Images -> 0 .. (MaxTlsModules - 1)]
  BY DEF Types, TypeOK, TlsTypeOK
<1>5. CASE UNCHANGED <<pc, k, deps, cur, modId>>
  <2>1. pc \in {"deps", "tls"} BY <1>2, <1>5
  <2>2. \A m, p : ImageAt(m, p)' = ImageAt(m, p) BY <1>5, SameImages
  <2>3. Free BY <1>3, <2>1
  <2>4. QED BY <2>2, <2>3, <1>5, Zenon
<1>6. CASE LinkStep
  <2>1. UNCHANGED <<cur, deps>> BY <1>6, LinkStepFrame
  <2>2. PICK c : c = cur /\ c = cur' BY <2>1
  <2>3. \A p : ImageAt(c, p)' = ImageAt(c, p) BY <2>1, SameImages
  <2>4. CASE DepsDone
    <3>1. pc = "deps" /\ pc' = "tls" /\ k' = 0 /\ UNCHANGED tlsVars
      BY <2>4, Zenon DEF DepsDone, LinkVarsInDeps
    <3>2. \A p \in 0 .. Len(deps[c]) : modId[ImageAt(c, p)] = 0 BY <1>3, <3>1, <2>2
    <3>3. UNCHANGED modId BY <3>1 DEF tlsVars
    <3>4. \A p \in k' .. Len(deps'[c]) : modId'[ImageAt(c, p)'] = 0
      BY <3>1, <3>2, <3>3, <2>1, <2>3
    <3>5. QED BY <3>1, <3>4, <2>2, Zenon
  <2>5. CASE RegisterTls
    <3>1. pc = "tls" /\ k <= Len(deps[c]) BY <2>5, <2>2 DEF RegisterTls
    <3>2. \A p \in k .. Len(deps[c]) : modId[ImageAt(c, p)] = 0 BY <1>3, <3>1, <2>2
    <3>3. c \in Mods BY <3>1, <2>2 DEF Stage, Holding
    <3>4. k \in 0 .. Len(deps[c]) BY <3>1, <3>3, <1>4, Layout
    <3>5. \/ pc' = "fini"
          \/ /\ k' = k + 1 /\ pc' = "tls"
             /\ UNCHANGED modId \/ \E s : modId' = [modId EXCEPT ![ImageAt(c, k)] = s]
      BY <2>5, <2>2, <3>1, Zenon DEF RegisterTls, RegisterTlsSegment, LinkFails, tlsVars
    <3>6. k' = k + 1 /\ pc' = "tls" BY <3>5, <1>2
    <3>7. ASSUME NEW p \in (k + 1) .. Len(deps[c]) PROVE modId'[ImageAt(c, p)] = 0
      <4>1. p \in 0 .. Len(deps[c]) /\ p # k /\ p \in k .. Len(deps[c])
        BY <3>4, <1>4, <3>3, Layout
      <4>2. ImageAt(c, p) # ImageAt(c, k) BY <4>1, <3>3, <3>4, Layout
      <4>3. ImageAt(c, p) \in Images BY <4>1, <3>3, Layout
      <4>4. modId[ImageAt(c, p)] = 0 BY <4>1, <3>2
      <4>5. QED BY <4>2, <4>3, <4>4, <3>5, <1>2, <1>4
    <3>8. \A p \in k' .. Len(deps'[c]) : modId'[ImageAt(c, p)'] = 0
      BY <3>6, <3>7, <2>1, <2>3
    <3>9. QED BY <3>6, <3>8, <2>2, Zenon
  <2>6. CASE ~DepsDone /\ ~RegisterTls
    <3>1. pc # "deps" /\ pc' # "deps"
      <4>1. pc' = "deps" => pc = "deps" BY <1>6, LinkStepFrame
      <4>2. pc # "deps"
        BY <1>6, <2>6 DEF LinkStep, TlsDone, ProcessRelocation, ImageDone,
           RelocsDone, RegisterUnwind, UnwindDone, StartWalk, WalkNext, WalkCalls, WalksDone,
           ConstructRest, ConstructMain
      <4>3. QED BY <4>1, <4>2
    <3>2. pc' # "tls"
      <4>1. CASE TlsDone BY <4>1 DEF TlsDone
      <4>2. CASE ProcessRelocation
        <5>1. pc = "reloc" /\ (UNCHANGED pc \/ LinkFails)
          BY <4>2, Zenon DEF ProcessRelocation, RelocOther, RelocRelative, Unresolved, RelocSymbol,
             NoTls, RelocDtpMod, RelocTlsDesc, RelocTprel, RefersTo, Skip, Refuse, NextReloc
        <5>2. QED BY <5>1 DEF LinkFails
      <4>3. CASE ImageDone BY <4>3 DEF ImageDone
      <4>4. CASE RelocsDone BY <4>4 DEF RelocsDone
      <4>5. CASE RegisterUnwind BY <4>5 DEF RegisterUnwind
      <4>6. CASE UnwindDone BY <4>6 DEF UnwindDone
      <4>7. CASE pc \in {"ctor", "rest"} BY <4>7, <1>6, LinkStepFrame
      <4>8. QED
        BY <1>6, <2>6, <4>1, <4>2, <4>3, <4>4, <4>5, <4>6, <4>7
           DEF LinkStep, StartWalk, WalkNext, WalkCalls, WalksDone, ConstructRest, ConstructMain
    <3>3. QED BY <3>1, <3>2, <1>2
  <2>7. QED BY <2>4, <2>5, <2>6
<1>7. CASE StartLoad
  <2>1. UNCHANGED deps BY <1>7, StartLoadIs
  <2>2. PICK m \in Mods :
          /\ m \notin Holding /\ Len(deps[m]) = 0
          /\ pc' = pc \/ (pc' = "deps" /\ cur' = m)
    BY <1>7, StartLoadIs
  <2>3. pc = "idle" BY <1>7, StartLoadIs
  <2>4. pc' = "deps" /\ cur' = m BY <2>2, <2>3, <1>2
  <2>5. UNCHANGED modId BY <1>7, Zenon DEF StartLoad, tlsVars
  <2>6. Main(m) \notin live BY <2>2, MainImage DEF Alive
  <2>7. modId[Main(m)] = 0 BY <2>6, MainImage DEF Owned, SlotTable
  <2>8. ImageAt(m, 0)' = Main(m) BY Zenon DEF ImageAt, Main
  <2>9. \A p \in 0 .. Len(deps'[m]) : modId'[ImageAt(m, p)'] = 0
    <3>1. \A p \in 0 .. Len(deps'[m]) : p = 0 BY <2>1, <2>2
    <3>2. QED BY <3>1, <2>5, <2>7, <2>8
  <2>10. QED BY <2>4, <2>9, Zenon
<1>8. CASE ResolveNeeded
  <2>1. /\ UNCHANGED cur /\ UNCHANGED tlsVars /\ pc = "deps" /\ pc' \in {"deps", "fini"}
    BY <1>8, ResolveFrame
  <2>2. UNCHANGED <<modId, pc>> BY <2>1, <1>2 DEF tlsVars
  <2>3. Free BY <1>3, <2>1
  <2>4. PICK c \in Mods : c = cur /\ c = cur' BY <2>1 DEF Stage, Holding
  <2>5. CASE UNCHANGED deps
    <3>1. \A p : ImageAt(c, p)' = ImageAt(c, p) BY <2>5, SameImages
    <3>2. \A p \in 0 .. Len(deps'[c]) : modId'[ImageAt(c, p)'] = 0
      BY <2>1, <2>2, <2>3, <2>4, <2>5, <3>1
    <3>3. QED BY <3>2, <2>1, <2>2, <2>4, Zenon
  <2>6. ASSUME NEW n, TakeLoaded(n) \/ LoadManually(n) PROVE Free'
    <3>1. PICK len \in Nat : len = Len(deps[c]) BY <2>4, <1>4
    <3>2. /\ Len(deps'[c]) = len + 1
          /\ \A p \in 0 .. len : ImageAt(c, p)' = ImageAt(c, p)
          /\ ImageAt(c, len + 1)' = <<c, n>> /\ modId[<<c, n>>] = 0
      BY <1>8, <2>4, <2>6, <3>1, NewDependency
    <3>3. \A p \in 0 .. len : modId[ImageAt(c, p)] = 0 BY <2>1, <2>3, <2>4, <3>1
    <3>4. \A p \in 0 .. len + 1 : p = len + 1 \/ p \in 0 .. len BY <3>1
    <3>5. \A p \in 0 .. Len(deps'[c]) : modId'[ImageAt(c, p)'] = 0
      BY <3>2, <3>3, <3>4, <2>2
    <3>6. QED BY <3>5, <2>1, <2>2, <2>4, Zenon
  <2>7. LoadManuallyFails(names[k]) => UNCHANGED deps BY Zenon DEF LoadManuallyFails
  <2>8. QED BY <2>5, <2>6, <2>7, <1>8, ResolveFrame
<1>9. CASE FindEntry BY <1>9, <1>2 DEF FindEntry, LinkFails
<1>10. CASE StartRelease
  <2>1. pc' = "fini" \/ pc' = "release" BY <1>10, Zenon DEF StartRelease
  <2>2. QED BY <2>1, <1>2
<1>11. CASE RunDestructors
  <2>1. pc' = "release" BY <1>11, Zenon DEF RunDestructors
  <2>2. QED BY <2>1, <1>2
<1>12. CASE ReleaseDependency
  <2>1. pc' = "release" BY <1>12, Zenon DEF ReleaseDependency
  <2>2. QED BY <2>1, <1>2
<1>13. CASE ReleaseMain
  <2>1. pc' = "idle" BY <1>13, Zenon DEF ReleaseMain
  <2>2. QED BY <2>1, <1>2
<1>14. CASE Deinit
  <2>1. UNCHANGED <<pc, k, deps, cur>> BY <1>14, ThreadStepFrame
  <2>2. UNCHANGED modId BY <1>14, Zenon DEF Deinit, TlsDeinit
  <2>3. QED BY <2>1, <2>2, <1>5
<1>15. ASSUME NEW t \in Threads, AccessTls(t) \/ ThreadExit(t) PROVE Free'
  <2>1. UNCHANGED <<pc, k, deps, cur>> BY <1>15, ThreadStepFrame
  <2>2. UNCHANGED modId BY <1>15, Zenon DEF AccessTls, ThreadExit, ThreadEnds
  <2>3. QED BY <2>1, <2>2, <1>5
<1>16. QED
  BY <1>6, <1>7, <1>8, <1>9, <1>10, <1>11, <1>12, <1>13, <1>14, <1>15, StepKinds

(* The positions, as the steps of linker_link move them.                     *)
LEMMA LinkStepCounts ==
  ASSUME LinkStep
  PROVE  /\ k' \in {k, k + 1, 0, 1} /\ rel' \in {rel, rel + 1, 1}
         /\ unload' = unload \/ unload' = TRUE
         /\ linked' = linked \/ linked' = [linked EXCEPT ![cur] = TRUE]
<1> USE DEF walkVars
<1>1. CASE DepsDone BY <1>1, Zenon DEF DepsDone, LinkVarsInDeps
<1>2. CASE RegisterTls BY <1>2, Zenon DEF RegisterTls, Stays, LinkFails
<1>3. CASE TlsDone BY <1>3, Zenon DEF TlsDone, Stays
<1>4. CASE ProcessRelocation
  <2>1. NextReloc \/ Refuse \/ Skip
    BY <1>4, Zenon DEF ProcessRelocation, RelocOther, RelocRelative, Unresolved, RelocSymbol,
       NoTls, RelocDtpMod, RelocTlsDesc, RelocTprel, RefersTo
  <2>2. UNCHANGED linked BY <1>4, Zenon DEF ProcessRelocation, Stays
  <2>3. QED BY <2>1, <2>2, Zenon DEF Stays, LinkFails, NextReloc, Refuse, Skip
<1>5. CASE ImageDone BY <1>5, Zenon DEF ImageDone, Stays
<1>6. CASE RelocsDone BY <1>6, Zenon DEF RelocsDone, Stays
<1>7. CASE RegisterUnwind BY <1>7, Zenon DEF RegisterUnwind, Stays
<1>8. CASE UnwindDone BY <1>8, Zenon DEF UnwindDone, Stays
<1>9. CASE StartWalk BY <1>9, Zenon DEF StartWalk, InWalk
<1>10. CASE WalkNext BY <1>10, Zenon DEF WalkNext, InWalk
<1>11. CASE WalkCalls BY <1>11, Zenon DEF WalkCalls, InWalk
<1>12. CASE WalksDone BY <1>12, Zenon DEF WalksDone, InWalk
<1>13. CASE ConstructRest BY <1>13, Zenon DEF ConstructRest, InWalk
<1>14. CASE ConstructMain BY <1>14, Zenon DEF ConstructMain, InWalk
<1>15. QED
  BY <1>1, <1>2, <1>3, <1>4, <1>5, <1>6, <1>7, <1>8, <1>9, <1>10, <1>11, <1>12, <1>13, <1>14
     DEF LinkStep

(* Each step of linker_link that runs constructors runs those of one image.  *)
LEMMA LinkStepConstructs ==
  ASSUME LinkStep
  PROVE  \/ UNCHANGED ctorLog
         \/ WalkCalls /\ ctorLog' = Append(ctorLog, ImageAt(cur, Top.dep))
         \/ ConstructRest /\ k <= Len(deps[cur]) /\ deps[cur][k].manual /\ visit[k] # 2
            /\ ctorLog' = Append(ctorLog, ImageAt(cur, k))
         \/ ConstructMain /\ ctorLog' = Append(ctorLog, ImageAt(cur, 0))
<1>1. CASE WalkCalls BY <1>1, Zenon DEF WalkCalls, CallConstructors
<1>2. CASE ConstructRest BY <1>2, Zenon DEF ConstructRest, CallConstructors
<1>3. CASE ConstructMain BY <1>3, Zenon DEF ConstructMain, CallConstructors
<1>4. CASE ~WalkCalls /\ ~ConstructRest /\ ~ConstructMain
  BY <1>4, Zenon DEF LinkStep, DepsDone, RegisterTls, TlsDone, ProcessRelocation, ImageDone,
     RelocsDone, RegisterUnwind, UnwindDone, StartWalk, WalkNext, WalksDone, LinkVarsInDeps
<1>5. QED BY <1>1, <1>2, <1>3, <1>4

(* Relocation binds an image to images of its own module.                    *)
LEMMA RelocationBinds ==
  ASSUME IInv, ProcessRelocation
  PROVE  \/ UNCHANGED bound
         \/ \E img \in LinkedImages(cur), p \in Images :
              /\ bound' = [bound EXCEPT ![img] = @ \cup {p}]
              /\ \E q \in 0 .. Len(deps[cur]) :
                   p = ImageAt(cur, q) /\ (q \in ToLink(cur) \/ IsSystem(p))
<1> USE DEF IInv
<1> DEFINE img == ImageAt(cur, k)
           r == Relocations(k)[rel]
           p == IF r.sym = "self" THEN img ELSE Provider(img, r.sym)
<1>1. pc = "reloc" /\ k \in ToLink(cur) BY Zenon DEF ProcessRelocation
<1>2. cur \in Mods BY <1>1 DEF Stage, Holding
<1>3. UNCHANGED bound \/ RelocSymbol(img, r, p)
  BY Zenon DEF ProcessRelocation, RelocOther, RelocRelative, Unresolved, NoTls, RelocDtpMod,
     RelocTlsDesc, RelocTprel, RefersTo, Skip, Refuse
<1>4. img \in LinkedImages(cur) BY <1>1 DEF LinkedImages
<1>5. k \in 0 .. Len(deps[cur]) BY <1>1, <1>2, Layout
<1>6. p = img \/ p = Provider(img, r.sym) BY Zenon
<1> HIDE DEF p, r
<1>7. CASE RelocSymbol(img, r, p)
  <2>1. bound' = [bound EXCEPT ![img] = @ \cup {p}] /\ p # NoImage
    BY <1>7, Zenon DEF RelocSymbol
  <2>2. \E q \in 0 .. Len(deps[cur]) :
          p = ImageAt(cur, q) /\ (q \in ToLink(cur) \/ IsSystem(p))
    <3>1. CASE p = img BY <3>1, <1>1, <1>5
    <3>2. CASE p # img
      <4>1. p = Provider(img, r.sym) /\ Provider(img, r.sym) # NoImage BY <1>6, <2>1, <3>2
      <4>2. QED BY <4>1, <3>2, <1>2, <1>5, ProviderIs
    <3>3. QED BY <3>1, <3>2
  <2>3. p \in Images BY <2>2, <1>2, Layout
  <2>4. QED BY <2>1, <2>2, <2>3, <1>4
<1>8. QED BY <1>3, <1>7

(* The types.                                                                *)
LEMMA TypesKeeps ==
  ASSUME IInv, Next
  PROVE  Types'
<1> DEFINE Bags == {mapped, live, leaked, finalised, backtrace, frames} \subseteq SUBSET Images
           Position ==
             /\ world \in Worlds
             /\ phase \in {"load", "post", "ended"}
             /\ pc \in {"idle", "deps", "tls", "reloc", "unwind", "ctor", "rest", "linked",
                        "fini", "release"}
             /\ cur \in Mods \cup {NoMain}
             /\ queue \in Seq(Mods)
             /\ k \in Nat /\ rel \in Nat
             /\ registry \subseteq {"local"} \cup Mods
           Flag == unload \in BOOLEAN
           Status ==
             /\ linked \in [Mods -> BOOLEAN]
             /\ life \in [Mods -> {"none", "loading", "linked", "kept", "gone"}]
             /\ addr \in [Mods -> {"local"} \cup Mods]
             /\ \A m \in Mods : addr[m] \in {"local", m}
           Links == bound \in [Images -> SUBSET Images] /\ ctorLog \in Seq(Images)
           Calls == visit \in [1 .. MaxDeps -> 0 .. 2] /\ stack \in Seq(Frame)
           Lists == deps \in [Mods -> Seq(Dep)]
<1>1. TlsTypeOK' BY TlsKeeps
<1> USE DEF IInv
<1>2. Bags /\ Position /\ Flag /\ Status /\ Links /\ Calls /\ Lists
  <2>1. Bags BY Zenon DEF Types, TypeOK
  <2>2. Position
    <3>1. /\ world \in Worlds /\ phase \in {"load", "post", "ended"}
          /\ pc \in {"idle", "deps", "tls", "reloc", "unwind", "ctor", "rest", "linked",
                     "fini", "release"}
          /\ cur \in Mods \cup {NoMain} /\ registry \subseteq {"local"} \cup Mods
      BY DEF Types, TypeOK, Mods
    <3>2. queue \in Seq(Mods) /\ k \in Nat /\ rel \in Nat BY DEF Types
    <3>3. QED BY <3>1, <3>2
  <2>5. Status
    <3>1. \A m \in Mods : addr[m] \in {"local", m} BY DEF Types, TypeOK, Mods
    <3>2. QED BY <3>1, Zenon DEF Types
  <2>3. Links /\ Calls /\ Lists /\ Flag BY Zenon DEF Types
  <2>4. QED BY <2>1, <2>2, <2>3, <2>5
<1>3. pc # "idle" => cur \in Mods BY DEF Stage, Holding
<1> HIDE DEF IInv
<1>4. IInv OBVIOUS
<1>5. ASSUME LinkStep PROVE Position' /\ Status' /\ Flag'
  <2>1. /\ UNCHANGED <<world, queue, phase, cur, addr, life, registry>>
        /\ pc' \in Loading \cup {"fini", "linked"}
    BY <1>5, LinkStepFrame
  <2>2. /\ k' \in {k, k + 1, 0, 1} /\ rel' \in {rel, rel + 1, 1}
        /\ unload' = unload \/ unload' = TRUE
        /\ linked' = linked \/ linked' = [linked EXCEPT ![cur] = TRUE]
    BY <1>5, LinkStepCounts
  <2>3. pc' \in {"deps", "tls", "reloc", "unwind", "ctor", "rest", "fini", "linked"}
    BY <2>1 DEF Loading
  <2>4. k' \in Nat /\ rel' \in Nat BY <2>2, <1>2
  <2>5. Position' BY <2>1, <2>3, <2>4, <1>2
  <2>6. linked' \in [Mods -> BOOLEAN] BY <2>2, <1>2
  <2>7. Status' BY <2>1, <2>6, <1>2
  <2>9. Flag' BY <2>2, <1>2, Zenon
  <2>8. QED BY <2>5, <2>7, <2>9
<1>6. ASSUME ~LinkStep PROVE Position' /\ Status' /\ Flag'
  <2>1. CASE StartLoad
    <3>1. PICK m \in Mods :
              /\ m = Head(queue)
              /\ \/ UNCHANGED <<pc, cur, k>>
                 \/ pc' = "deps" /\ cur' = m /\ k' = 1
      BY <2>1, <1>4, StartLoadIs
    <3>2. /\ UNCHANGED <<world, phase, linked, unload, rel, addr>> /\ queue' = Tail(queue)
          /\ \/ life' = [life EXCEPT ![m] = "gone"]
             \/ life' = [life EXCEPT ![m] = "loading"]
          /\ registry' = registry \/ registry' = registry \cup {"local"}
          /\ queue # <<>>
      BY <2>1, <3>1, Zenon DEF StartLoad, GiveUp, walkVars
    <3>3. Tail(queue) \in Seq(Mods) BY <3>2, <1>2
    <3>9. /\ pc' \in {"idle", "deps", "tls", "reloc", "unwind", "ctor", "rest", "linked",
                      "fini", "release"}
          /\ cur' \in Mods \cup {NoMain} /\ k' \in Nat
      BY <3>1, <1>2
    <3>4. Position'
      <4>1. registry' \subseteq {"local"} \cup Mods BY <3>2, <1>2
      <4>2. queue' \in Seq(Mods) BY <3>2, <3>3
      <4>3. UNCHANGED <<world, phase, rel>> BY <3>2
      <4>4. QED BY <4>1, <4>2, <4>3, <3>9, <1>2
    <3>5. life' \in [Mods -> {"none", "loading", "linked", "kept", "gone"}] BY <3>2, <1>2
    <3>6. Status' BY <3>2, <3>5, <1>2
    <3>7. Flag' BY <3>2, <1>2
    <3>8. QED BY <3>4, <3>6, <3>7
  <2>2. CASE ResolveNeeded
    <3>1. /\ UNCHANGED <<world, queue, phase, cur, linked, addr, life, registry, rel>>
          /\ pc' \in {"deps", "fini"}
      BY <2>2, ResolveFrame
    <3>2. /\ k' = k \/ k' = k + 1 \/ k' = 0
          /\ unload' = unload \/ unload' = TRUE
      BY <2>2, Zenon DEF ResolveNeeded, SkipMissing, SkipLoaded, TooManyDeps, TakeLoaded,
         LoadManually, LoadManuallyFails, LinkFails
    <3>3. k' \in Nat BY <3>2, <1>2
    <3>4. Position' BY <3>1, <3>3, <1>2
    <3>5. Status' BY <3>1, <1>2
    <3>6. Flag' BY <3>2, <1>2, Zenon
    <3>7. QED BY <3>4, <3>5, <3>6
  <2>3. CASE FindEntry
    <3>1. pc = "linked" /\ cur \in Mods BY <2>3, <1>3 DEF FindEntry
    <3>2. /\ UNCHANGED <<world, queue, phase, linked, registry, rel>>
          /\ \/ /\ life' = [life EXCEPT ![cur] = "linked"] /\ addr' = [addr EXCEPT ![cur] = cur]
                /\ pc' = "idle" /\ cur' = NoMain /\ UNCHANGED <<unload, k>>
             \/ /\ pc' = "fini" /\ unload' = TRUE /\ k' = 0 /\ UNCHANGED <<life, addr, cur>>
      BY <2>3, Zenon DEF FindEntry, LinkFails, walkVars
    <3>3. addr' \in [Mods -> {"local"} \cup Mods] /\ \A m \in Mods : addr'[m] \in {"local", m}
      <4>1. \/ addr' = addr
            \/ addr' = [addr EXCEPT ![cur] = cur]
        BY <3>2
      <4>2. Status BY <1>2
      <4>3. QED BY <4>1, <4>2, <3>1
    <3>4. life' \in [Mods -> {"none", "loading", "linked", "kept", "gone"}]
      <4>1. \/ life' = life
            \/ life' = [life EXCEPT ![cur] = "linked"]
        BY <3>2
      <4>2. Status BY <1>2
      <4>3. QED BY <4>1, <4>2
    <3>5. k' \in Nat BY <3>2, <1>2
    <3>6. pc' \in {"idle", "fini"} /\ cur' \in Mods \cup {NoMain} BY <3>1, <3>2
    <3>7. Position' BY <3>2, <3>5, <3>6, <1>2
    <3>8. Status' BY <3>2, <3>3, <3>4, <1>2
    <3>9. Flag' BY <3>2, <1>2, Zenon
    <3>10. QED BY <3>7, <3>8, <3>9
  <2>4. CASE StartRelease
    <3>1. PICK m \in Mods :
            /\ cur' = m /\ unload' \in BOOLEAN
            /\ pc' = IF unload' THEN "fini" ELSE "release"
            /\ k' = IF unload' THEN 0 ELSE Len(deps[m])
      BY <2>4, Zenon DEF StartRelease, Mods
    <3>2. phase' = "post" /\ UNCHANGED <<world, queue, linked, addr, life, registry, rel>>
      BY <2>4, Zenon DEF StartRelease, walkVars
    <3>3. Len(deps[m]) \in Nat BY <1>2
    <3>4. Flag' BY <3>1, Zenon
    <3>5. k' \in Nat /\ pc' \in {"fini", "release"} BY <3>1, <3>3
    <3>6. Position' BY <3>1, <3>2, <3>5, <1>2
    <3>7. Status' BY <3>2, <1>2
    <3>8. QED BY <3>4, <3>6, <3>7
  <2>5. CASE RunDestructors
    <3>1. /\ pc = "fini" /\ pc' = "release" /\ k' = Len(deps[cur])
          /\ UNCHANGED <<world, queue, phase, cur, linked, unload, rel, addr, life, registry>>
      BY <2>5, Zenon DEF RunDestructors, walkVars
    <3>2. Len(deps[cur]) \in Nat BY <3>1, <1>2, <1>3
    <3>3. QED BY <3>1, <3>2, <1>2
  <2>6. CASE ReleaseDependency
    <3>1. /\ k > 0 /\ k' = k - 1
          /\ UNCHANGED <<world, queue, phase, pc, cur, linked, unload, rel, addr, life, registry>>
      BY <2>6, Zenon DEF ReleaseDependency, walkVars
    <3>2. QED BY <3>1, <1>2
  <2>7. CASE ReleaseMain
    <3>1. /\ registry' = registry \ {addr[cur]} /\ cur' = NoMain /\ pc' = "idle"
          /\ life' = [life EXCEPT ![cur] = IF unload THEN "gone" ELSE "kept"]
          /\ linked' = [linked EXCEPT ![cur] = FALSE]
          /\ UNCHANGED <<world, queue, phase, k, unload, rel, addr>>
      BY <2>7, Zenon DEF ReleaseMain, walkVars
    <3>2. QED BY <3>1, <1>2
  <2>8. CASE (\E t \in Threads : AccessTls(t) \/ ThreadExit(t)) \/ Deinit
    <3>1. UNCHANGED <<world, queue, pc, cur, k, linked, unload, rel, addr, life, registry>>
      BY <2>8, ThreadStepFrame
    <3>2. phase' \in {phase, "ended"}
      BY <2>8, Zenon DEF Deinit, AccessTls, ThreadExit, linkVars
    <3>3. QED BY <3>1, <3>2, <1>2
  <2>9. QED BY <2>1, <2>2, <2>3, <2>4, <2>5, <2>6, <2>7, <2>8, <1>6, StepKinds
<1>7. Lists'
  <2>1. CASE UNCHANGED deps BY <2>1, <1>2
  <2>2. ASSUME ResolveNeeded, ~UNCHANGED deps PROVE Lists'
    <3>0. TakeLoaded(names[k]) \/ LoadManually(names[k])
      <4>1. LoadManuallyFails(names[k]) => UNCHANGED deps BY Zenon DEF LoadManuallyFails
      <4>2. QED BY <2>2, <4>1, ResolveFrame
    <3>1. MustLoad(names[k]) BY <3>0, Zenon DEF TakeLoaded, LoadManually
    <3>2. names[k] \in Libs BY <3>1, <1>2, WorldAssumption DEF MustLoad
    <3>3. \A b \in BOOLEAN : [lib |-> names[k], manual |-> b] \in Dep BY <3>2 DEF Dep
    <3>4. cur \in Mods BY <2>2, <1>3, ResolveFrame
    <3>5. \E d \in Dep : deps' = [deps EXCEPT ![cur] = Append(@, d)]
      <4>1. CASE TakeLoaded(names[k])
        <5>1. deps' = [deps EXCEPT ![cur] = Append(@, [lib |-> names[k], manual |-> FALSE])]
          BY <4>1, Zenon DEF TakeLoaded, AddDependency
        <5>2. [lib |-> names[k], manual |-> FALSE] \in Dep BY <3>3
        <5>3. QED BY <5>1, <5>2, Zenon
      <4>2. CASE LoadManually(names[k])
        <5>1. deps' = [deps EXCEPT ![cur] = Append(@, [lib |-> names[k], manual |-> TRUE])]
          BY <4>2, Zenon DEF LoadManually, AddDependency
        <5>2. [lib |-> names[k], manual |-> TRUE] \in Dep BY <3>3
        <5>3. QED BY <5>1, <5>2, Zenon
      <4>3. QED BY <3>0, <4>1, <4>2
    <3>6. \A d \in Dep : Append(deps[cur], d) \in Seq(Dep) BY <3>4, <1>2
    <3>7. deps \in [Mods -> Seq(Dep)] BY <1>2
    <3>8. QED BY <3>5, <3>6, <3>7, <3>4
  <2>3. CASE ReleaseMain
    <3>1. deps' = [deps EXCEPT ![cur] = <<>>] BY <2>3, Zenon DEF ReleaseMain
    <3>2. <<>> \in Seq(Dep) OBVIOUS
    <3>3. QED BY <3>1, <3>2, <1>2
  <2>4. LinkStep => UNCHANGED deps BY LinkStepFrame
  <2>5. (\E t \in Threads : AccessTls(t) \/ ThreadExit(t)) \/ Deinit => UNCHANGED deps
    BY ThreadStepFrame
  <2>6. UNCHANGED deps \/ ResolveNeeded \/ ReleaseMain
    BY <2>4, <2>5, StepKinds, Zenon DEF StartLoad, FindEntry, StartRelease, RunDestructors,
       ReleaseDependency
  <2>7. QED BY <2>1, <2>2, <2>3, <2>6
<1>8. Links'
  <2>1. CASE UNCHANGED <<bound, ctorLog>> BY <2>1, <1>2
  <2>2. CASE LinkStep
    <3>0. cur \in Mods BY <2>2, <1>3, LinkStepFrame DEF Loading
    <3>1. bound' \in [Images -> SUBSET Images]
      <4>1. CASE ProcessRelocation
        <5>1. \/ UNCHANGED bound
              \/ \E img \in LinkedImages(cur), p \in Images :
                     bound' = [bound EXCEPT ![img] = @ \cup {p}]
          BY <4>1, <1>4, RelocationBinds
        <5>2. bound \in [Images -> SUBSET Images] BY <1>2
        <5>3. QED BY <5>1, <5>2
      <4>2. CASE ~ProcessRelocation
        <5>1. UNCHANGED bound
          BY <4>2, <2>2, Zenon DEF LinkStep, DepsDone, RegisterTls, TlsDone, ImageDone,
             RelocsDone, RegisterUnwind, UnwindDone, StartWalk, WalkNext, WalkCalls, WalksDone,
             ConstructRest, ConstructMain, LinkVarsInDeps, InWalk
        <5>2. QED BY <5>1, <1>2
      <4>3. QED BY <4>1, <4>2
    <3>2. ctorLog' \in Seq(Images)
      <4>1. ASSUME NEW p \in 0 .. Len(deps[cur]), ctorLog' = Append(ctorLog, ImageAt(cur, p))
            PROVE  ctorLog' \in Seq(Images)
        <5>1. ImageAt(cur, p) \in Images BY <3>0, Layout DEF IInv
        <5>2. QED BY <5>1, <4>1, <1>2, RangeAppend
      <4>2. CASE UNCHANGED ctorLog BY <4>2, <1>2
      <4>3. CASE WalkCalls /\ ctorLog' = Append(ctorLog, ImageAt(cur, Top.dep))
        <5>1. stack # <<>> BY <4>3 DEF WalkCalls
        <5>2. Len(stack) \in 1 .. Len(stack) BY <5>1, <1>2
        <5>3. Top.dep \in ManualAt(cur) BY <5>2 DEF IInv, Walk, Stack, Top
        <5>4. Top.dep \in 0 .. Len(deps[cur]) BY <5>3, <3>0, Layout DEF IInv
        <5>5. QED BY <5>4, <4>1, <4>3
      <4>4. CASE /\ k <= Len(deps[cur]) /\ ctorLog' = Append(ctorLog, ImageAt(cur, k))
        <5>1. k \in 0 .. Len(deps[cur]) BY <4>4, <3>0, <1>2
        <5>2. QED BY <5>1, <4>1, <4>4
      <4>5. CASE ctorLog' = Append(ctorLog, ImageAt(cur, 0))
        <5>1. 0 \in 0 .. Len(deps[cur]) BY <3>0, Layout DEF IInv
        <5>2. QED BY <5>1, <4>1, <4>5
      <4>6. QED BY <4>2, <4>3, <4>4, <4>5, <2>2, LinkStepConstructs
    <3>3. QED BY <3>1, <3>2
  <2>3. ASSUME ~LinkStep PROVE UNCHANGED <<bound, ctorLog>>
    <3>1. ResolveNeeded => UNCHANGED <<bound, ctorLog>> BY ResolveFrame
    <3>2. (\E t \in Threads : AccessTls(t) \/ ThreadExit(t)) \/ Deinit
             => UNCHANGED <<bound, ctorLog>>
      BY ThreadStepFrame
    <3>3. QED
      BY <2>3, <3>1, <3>2, StepKinds, Zenon DEF StartLoad, FindEntry, StartRelease,
         RunDestructors, ReleaseDependency, ReleaseMain
  <2>4. QED BY <2>1, <2>2, <2>3
<1>9. Calls'
  <2>1. CASE UNCHANGED <<visit, stack>> BY <2>1, <1>2
  <2> DEFINE Position1(i) == i \in 1 .. MaxDeps
  <2>2. ASSUME pc \in {"ctor", "rest"}
        PROVE cur \in Mods /\ k >= 1 /\ ManualAt(cur) \subseteq 1 .. MaxDeps
    <3>1. cur \in Mods /\ k >= 1 BY <2>2, <1>3 DEF IInv, Walk
    <3>2. ManualAt(cur) \subseteq 1 .. Len(deps[cur]) BY <3>1, <1>2 DEF ManualAt
    <3>3. Len(deps[cur]) <= MaxDeps /\ Len(deps[cur]) \in Nat /\ MaxDeps \in Nat
      BY <3>1, Layout, LinkerAssumption DEF IInv
    <3>4. QED BY <3>1, <3>2, <3>3
  <2>3. \A i \in 1 .. MaxDeps : [dep |-> i, next |-> 1] \in Frame BY DEF Frame
  <2>4. \A i \in 1 .. MaxDeps : \A v \in 0 .. 2 :
          [visit EXCEPT ![i] = v] \in [1 .. MaxDeps -> 0 .. 2]
    BY <1>2
  <2>5. stack # <<>> => /\ Len(stack) \in 1 .. Len(stack) /\ Top \in Frame
                        /\ [stack EXCEPT ![Len(stack)].next = @ + 1] \in Seq(Frame)
    <3>1. ASSUME stack # <<>> PROVE Len(stack) \in 1 .. Len(stack) /\ Top \in Frame
      BY <3>1, <1>2 DEF Top
    <3>2. ASSUME NEW f \in Frame PROVE [f EXCEPT !.next = @ + 1] \in Frame
      BY DEF Frame
    <3>3. stack \in Seq(Frame) BY <1>2
    <3> HIDE DEF Calls
    <3>4. ASSUME stack # <<>> PROVE [stack EXCEPT ![Len(stack)].next = @ + 1] \in Seq(Frame)
      <4>1. [Top EXCEPT !.next = @ + 1] \in Frame BY <3>1, <3>2, <3>4
      <4>2. \A f \in Frame : [stack EXCEPT ![Len(stack)] = f] \in Seq(Frame)
        BY <3>1, <3>3, <3>4, ExceptSeq
      <4>3. [stack EXCEPT ![Len(stack)] = [Top EXCEPT !.next = @ + 1]] \in Seq(Frame)
        BY <4>1, <4>2, Zenon
      <4>4. QED BY <4>3, Zenon DEF Top
    <3>5. QED BY <3>1, <3>4
  <2>6. CASE StartWalk
    <3>1. pc = "ctor" /\ k <= Len(deps[cur]) BY <2>6, Zenon DEF StartWalk
    <3>2. cur \in Mods /\ k >= 1 BY <3>1, <2>2
    <3>3. k \in 1 .. MaxDeps
      BY <3>1, <3>2, <1>2, Layout, LinkerAssumption DEF IInv
    <3>4. UNCHANGED <<visit, stack>> \/ Enter(k, <<>>) BY <2>6, Zenon DEF StartWalk
    <3>5. CASE Enter(k, <<>>)
      <4>1. <<>> \in Seq(Frame) OBVIOUS
      <4>2. stack' \in Seq(Frame) BY <3>3, <3>5, <4>1, <2>3, RangeAppend DEF Enter
      <4>3. visit' \in [1 .. MaxDeps -> 0 .. 2] BY <3>3, <3>5, <2>4 DEF Enter
      <4>4. QED BY <4>2, <4>3
    <3>6. QED BY <3>4, <3>5, <2>1
  <2>7. CASE WalkNext
    <3> DEFINE d == FindDepIndex(NamesBelow[Top.next])
               onward == [stack EXCEPT ![Len(stack)].next = @ + 1]
    <3>1. pc = "ctor" /\ stack # <<>>
          /\ \/ stack' = onward /\ UNCHANGED visit
             \/ stack' = <<>> /\ UNCHANGED visit
             \/ d # 0 /\ Enter(d, onward)
      BY <2>7, Zenon DEF WalkNext
    <3>2. onward \in Seq(Frame) BY <3>1, <2>5
    <3>3. d # 0 => d \in 1 .. MaxDeps
      BY <3>1, <2>2, FindDepIndexIs DEF IInv
    <3> HIDE DEF onward, d
    <3>4. CASE d # 0 /\ Enter(d, onward)
      <4>1. visit' \in [1 .. MaxDeps -> 0 .. 2] BY <3>3, <3>4, <2>4 DEF Enter
      <4>2. stack' \in Seq(Frame) BY <3>2, <3>3, <3>4, <2>3 DEF Enter
      <4>3. QED BY <4>1, <4>2
    <3>5. CASE (stack' = onward \/ stack' = <<>>) /\ UNCHANGED visit
      <4>0. <<>> \in Seq(Frame) OBVIOUS
      <4>1. stack' \in Seq(Frame) BY <3>2, <3>5, <4>0
      <4>2. visit' \in [1 .. MaxDeps -> 0 .. 2] BY <3>5, <1>2
      <4>3. QED BY <4>1, <4>2
    <3>6. QED BY <3>1, <3>4, <3>5
  <2>8. CASE WalkCalls
    <3>1. /\ stack # <<>> /\ visit' = [visit EXCEPT ![Top.dep] = 2]
          /\ stack' = SubSeq(stack, 1, Len(stack) - 1)
      BY <2>8, Zenon DEF WalkCalls
    <3>2. Top.dep \in 1 .. MaxDeps BY <3>1, <2>5 DEF Frame
    <3>3. SubSeq(stack, 1, Len(stack) - 1) \in Seq(Frame) BY <3>1, <1>2
    <3>4. visit' \in [1 .. MaxDeps -> 0 .. 2] BY <3>1, <3>2, <2>4
    <3>5. stack' \in Seq(Frame) BY <3>1, <3>3
    <3>6. QED BY <3>4, <3>5
  <2>9. CASE ConstructRest
    <3>1. pc = "rest" /\ k <= Len(deps[cur]) BY <2>9, Zenon DEF ConstructRest
    <3>2. cur \in Mods /\ k >= 1 BY <3>1, <2>2
    <3>3. k \in 1 .. MaxDeps
      BY <3>1, <3>2, <1>2, Layout, LinkerAssumption DEF IInv
    <3>4. /\ UNCHANGED stack /\ (UNCHANGED visit \/ visit' = [visit EXCEPT ![k] = 2])
      BY <2>9, Zenon DEF ConstructRest
    <3>5. visit' \in [1 .. MaxDeps -> 0 .. 2] BY <3>3, <3>4, <2>4, <1>2
    <3>6. QED BY <3>4, <3>5, <1>2
  <2>10. CASE ConstructMain
    <3>1. UNCHANGED stack /\ visit' = [i \in 1 .. MaxDeps |-> 0] BY <2>10, Zenon DEF ConstructMain
    <3>2. QED BY <3>1, <1>2
  <2>11. \/ UNCHANGED <<visit, stack>>
         \/ StartWalk \/ WalkNext \/ WalkCalls \/ ConstructRest \/ ConstructMain
    <3>1. ResolveNeeded => UNCHANGED <<visit, stack>> BY ResolveFrame
    <3>2. (\E t \in Threads : AccessTls(t) \/ ThreadExit(t)) \/ Deinit
             => UNCHANGED <<visit, stack>>
      BY ThreadStepFrame
    <3>3. LinkStep => \/ UNCHANGED <<visit, stack>>
                      \/ StartWalk \/ WalkNext \/ WalkCalls \/ ConstructRest \/ ConstructMain
      BY Zenon DEF LinkStep, DepsDone, RegisterTls, TlsDone, ProcessRelocation, ImageDone,
         RelocsDone, RegisterUnwind, UnwindDone, WalksDone, LinkVarsInDeps, walkVars
    <3>4. QED
      BY <3>1, <3>2, <3>3, StepKinds, Zenon DEF StartLoad, FindEntry, StartRelease,
         RunDestructors, ReleaseDependency, ReleaseMain, walkVars
  <2>12. QED BY <2>1, <2>6, <2>7, <2>8, <2>9, <2>10, <2>11
<1>10. Bags'
  <2>0. /\ mapped \subseteq Images /\ live \subseteq Images /\ leaked \subseteq Images
        /\ finalised \subseteq Images /\ backtrace \subseteq Images /\ frames \subseteq Images
    BY <1>2
  <2>1. SUFFICES /\ mapped' \subseteq Images /\ live' \subseteq Images /\ leaked' \subseteq Images
                 /\ finalised' \subseteq Images /\ backtrace' \subseteq Images
                 /\ frames' \subseteq Images
    OBVIOUS
  <2>2. CASE UNCHANGED <<mapped, live, leaked, finalised, backtrace, frames>> BY <2>0, <2>2
  <2>3. CASE RegisterUnwind
    <3>1. /\ pc = "unwind" /\ k <= Len(deps[cur])
          /\ UNCHANGED <<mapped, live, leaked, finalised>>
          /\ backtrace' \in {backtrace, backtrace \cup {ImageAt(cur, k)}}
          /\ frames' \in {frames, frames \cup {ImageAt(cur, k)}}
      BY <2>3, Zenon DEF RegisterUnwind, RegisterForBacktrace, RegisterEhFrames, Stays
    <3>2. cur \in Mods BY <3>1, <1>3
    <3>3. k \in 0 .. Len(deps[cur]) BY <3>1, <3>2, <1>2
    <3>4. ImageAt(cur, k) \in Images BY <3>2, <3>3, Layout DEF IInv
    <3>5. QED BY <3>1, <3>4, <2>0
  <2>4. CASE StartLoad
    <3>1. \E m \in Mods : UNCHANGED <<mapped, live>> \/ (/\ mapped' = mapped \cup {Main(m)}
                                                         /\ live' = live \cup {Main(m)})
      BY <2>4, <1>4, StartLoadIs
    <3>2. UNCHANGED <<leaked, finalised, backtrace, frames>> BY <2>4, Zenon DEF StartLoad
    <3>3. QED BY <3>1, <3>2, <2>0, MainImage
  <2>5. CASE ResolveNeeded
    <3>1. UNCHANGED <<finalised, backtrace, frames, cur>> /\ pc = "deps"
      BY <2>5, ResolveFrame
    <3>2. cur \in Mods BY <3>1, <1>3
    <3>3. ASSUME NEW n, MustLoad(n) PROVE <<cur, n>> \in Images
      BY <3>2, <3>3, <1>2, WorldAssumption, LinkerAssumption DEF MustLoad, Mods, Files
    <3>4. \/ UNCHANGED <<mapped, leaked, live>>
          \/ \E n : /\ MustLoad(n)
                    /\ mapped' \in {mapped, mapped \cup {<<cur, n>>}}
                    /\ leaked' \in {leaked, leaked \cup {<<cur, n>>}}
                    /\ live' \in {live, live \cup {<<cur, n>>}}
      BY <2>5, ResolveFrame DEF TakeLoaded, LoadManually, LoadManuallyFails
    <3>5. QED BY <3>1, <3>3, <3>4, <2>0
  <2>6. CASE RunDestructors
    <3>1. pc = "fini" BY <2>6, Zenon DEF RunDestructors
    <3>2. LinkedImages(cur) \subseteq Images BY <3>1, <1>3, Layout DEF IInv
    <3>3. \E imgs \in SUBSET Images :
            finalised' = finalised \cup imgs /\ UnregisterUnwind(imgs)
      <4>1. CASE linked[cur]
        <5>1. finalised' = finalised \cup LinkedImages(cur) /\ UnregisterUnwind(LinkedImages(cur))
          BY <4>1, <2>6, Zenon DEF RunDestructors
        <5>2. QED BY <5>1, <3>2
      <4>2. CASE ~linked[cur]
        <5>1. finalised' = finalised \cup {} /\ UnregisterUnwind({})
          BY <4>2, <2>6, Zenon DEF RunDestructors
        <5>2. QED BY <5>1
      <4>3. QED BY <4>1, <4>2
    <3>4. UNCHANGED <<mapped, live, leaked>> BY <2>6, Zenon DEF RunDestructors
    <3>5. QED BY <3>3, <3>4, <2>0 DEF UnregisterUnwind
  <2>7. CASE ReleaseDependency
    <3>1. /\ UNCHANGED <<leaked, finalised, backtrace, frames>>
          /\ live' \subseteq live /\ mapped' \subseteq mapped
      BY <2>7 DEF ReleaseDependency
    <3>2. QED BY <3>1, <2>0
  <2>8. CASE ReleaseMain
    <3>1. /\ UNCHANGED <<leaked, finalised>> /\ live' \subseteq live /\ mapped' \subseteq mapped
          /\ UnregisterUnwind({Main(cur)}) \/ UNCHANGED <<frames, backtrace>>
      BY <2>8 DEF ReleaseMain
    <3>2. QED BY <3>1, <2>0 DEF UnregisterUnwind
  <2>9. \/ UNCHANGED <<mapped, live, leaked, finalised, backtrace, frames>>
        \/ RegisterUnwind \/ StartLoad \/ ResolveNeeded \/ RunDestructors \/ ReleaseDependency
        \/ ReleaseMain
    <3>1. (\E t \in Threads : AccessTls(t) \/ ThreadExit(t)) \/ Deinit
             => UNCHANGED <<mapped, live, leaked, finalised, backtrace, frames>>
      BY ThreadStepFrame
    <3>2. LinkStep => /\ UNCHANGED <<mapped, live, leaked, finalised>>
                      /\ UNCHANGED <<backtrace, frames>> \/ RegisterUnwind
      <4>1. LinkStep => UNCHANGED <<mapped, live, leaked, finalised>> BY LinkStepFrame
      <4>2. LinkStep => UNCHANGED <<backtrace, frames>> \/ RegisterUnwind
        BY Zenon DEF LinkStep, DepsDone, RegisterTls, TlsDone, ProcessRelocation, ImageDone,
           RelocsDone, UnwindDone, StartWalk, WalkNext, WalkCalls, WalksDone, ConstructRest,
           ConstructMain, LinkVarsInDeps, InWalk
      <4>3. QED BY <4>1, <4>2
    <3>3. FindEntry \/ StartRelease =>
            UNCHANGED <<mapped, live, leaked, finalised, backtrace, frames>>
      BY Zenon DEF FindEntry, StartRelease
    <3>4. QED BY <3>1, <3>2, <3>3, StepKinds
  <2>10. QED BY <2>2, <2>3, <2>4, <2>5, <2>6, <2>7, <2>8, <2>9
<1>11. Position' /\ Status' /\ Flag' BY <1>5, <1>6
<1>12. TypeOK'
  <2>1. \A m \in Mods : /\ deps'[m] \in Seq([lib : Libs, manual : BOOLEAN])
                        /\ life'[m] \in {"none", "loading", "linked", "kept", "gone"}
                        /\ addr'[m] \in {"local", m}
    <3>1. deps' \in [Mods -> Seq(Dep)] BY <1>7
    <3>2. QED BY <3>1, <1>11 DEF Dep
  <2>2. Bags' BY <1>10
  <2>3. /\ world' \in Worlds /\ phase' \in {"load", "post", "ended"}
        /\ pc' \in {"idle", "deps", "tls", "reloc", "unwind", "ctor", "rest", "linked",
                    "fini", "release"}
        /\ cur' \in Mods \cup {NoMain} /\ registry' \subseteq {"local"} \cup Mods
    BY <1>11
  <2> HIDE DEF Bags, Position, Links, Calls, Lists
  <2>4. QED BY <2>1, <2>2, <2>3, <1>1, Zenon DEF TypeOK, Bags, Mods
<1>13. QED BY <1>8, <1>9, <1>7, <1>11, <1>12, Zenon DEF Types

(* What the log of constructors gains.                                       *)
LEMMA ConstructedGrows ==
  ASSUME IInv, LinkStep
  PROVE  /\ cur \in Mods /\ cur \in Holding
         /\ \/ UNCHANGED <<ctorLog, Constructed>>
            \/ \E p \in ToLink(cur) :
                 /\ ctorLog' = Append(ctorLog, ImageAt(cur, p))
                 /\ Constructed' = Constructed \cup {ImageAt(cur, p)}
                 /\ p = 0 <=> ConstructMain
                 /\ pc \in {"ctor", "rest"}
                 /\ visit[p] # 2 \/ p = 0
<1> USE DEF IInv
<1>1. cur \in Mods /\ cur \in Holding BY LinkStepFrame DEF Stage, Holding, Loading
<1>2. ctorLog \in Seq(Images) BY DEF Types
<1>3. ASSUME NEW p \in ToLink(cur), ctorLog' = Append(ctorLog, ImageAt(cur, p))
      PROVE  Constructed' = Constructed \cup {ImageAt(cur, p)}
  <2>1. ImageAt(cur, p) \in Images BY <1>1, Layout
  <2>2. Range(Append(ctorLog, ImageAt(cur, p))) = Range(ctorLog) \cup {ImageAt(cur, p)}
    BY <1>2, <2>1, RangeAppend
  <2>3. QED BY <1>3, <2>2, Zenon DEF Constructed
<1>4. CASE UNCHANGED ctorLog BY <1>1, <1>4, Zenon DEF Constructed
<1>5. CASE WalkCalls /\ ctorLog' = Append(ctorLog, ImageAt(cur, Top.dep))
  <2>1. stack # <<>> /\ pc = "ctor" BY <1>5, Zenon DEF WalkCalls
  <2>2. Len(stack) \in 1 .. Len(stack) BY <2>1 DEF Types
  <2>3. Top.dep \in ManualAt(cur) /\ visit[Top.dep] = 1 BY <2>2 DEF Walk, Stack, Top
  <2>4. Top.dep \in ToLink(cur) /\ Top.dep # 0 BY <2>3, <1>1, Layout
  <2>5. ~ConstructMain BY <2>1 DEF ConstructMain
  <2>6. QED BY <1>1, <1>3, <1>5, <2>1, <2>3, <2>4, <2>5
<1>6. CASE ConstructRest /\ k <= Len(deps[cur]) /\ deps[cur][k].manual /\ visit[k] # 2
           /\ ctorLog' = Append(ctorLog, ImageAt(cur, k))
  <2>1. pc = "rest" /\ k' = k + 1 BY <1>6, Zenon DEF ConstructRest
  <2>2. k >= 1 /\ k \in Nat BY <2>1 DEF Walk, Types
  <2>3. k \in DOMAIN deps[cur] BY <1>1, <1>6, <2>2, Layout
  <2>4. k \in ToLink(cur) /\ k # 0 BY <1>6, <2>2, <2>3 DEF ToLink
  <2>5. ~ConstructMain
    <3>1. ConstructMain => k > Len(deps[cur]) BY Zenon DEF ConstructMain
    <3>2. QED BY <3>1, <1>1, <1>6, <2>2, Layout
  <2>6. QED BY <1>1, <1>3, <1>6, <2>1, <2>4, <2>5
<1>7. CASE ConstructMain /\ ctorLog' = Append(ctorLog, ImageAt(cur, 0))
  <2>1. 0 \in ToLink(cur) BY DEF ToLink
  <2>2. pc = "rest" BY <1>7, Zenon DEF ConstructMain
  <2>3. QED BY <1>1, <1>3, <1>7, <2>1, <2>2
<1>8. QED BY <1>4, <1>5, <1>6, <1>7, LinkStepConstructs

(* When main's constructors run, those of all the dependencies have.         *)
LEMMA MainIsLast ==
  ASSUME IInv, ConstructMain
  PROVE  /\ cur \in Mods /\ pc = "rest"
         /\ \A p \in ManualAt(cur) : visit[p] = 2 /\ ImageAt(cur, p) \in Constructed
         /\ LinkedImages(cur) \subseteq Constructed \cup {Main(cur)}
<1> USE DEF IInv
<1>1. pc = "rest" /\ k > Len(deps[cur]) BY Zenon DEF ConstructMain
<1>2. cur \in Mods BY <1>1 DEF Stage, Holding
<1>3. \A p \in ManualAt(cur) : p < k BY <1>1, <1>2, Layout DEF Types
<1>4. \A p \in ManualAt(cur) : visit[p] = 2 /\ ImageAt(cur, p) \in Constructed
  BY <1>1, <1>3 DEF Walk
<1>5. \A p \in ToLink(cur) : p = 0 \/ p \in ManualAt(cur) BY <1>2, Layout
<1>6. ImageAt(cur, 0) = Main(cur) BY <1>2, Layout
<1>7. QED BY <1>1, <1>2, <1>4, <1>5, <1>6 DEF LinkedImages

(* Before its walk begins, nothing of the module in hand has been run.       *)
LEMMA NothingRunYet ==
  ASSUME IInv, pc \in {"deps", "tls", "reloc", "unwind"}
  PROVE  \A i \in Constructed : ModuleOf(i) # cur
<1>1. ASSUME NEW i \in Constructed, ModuleOf(i) = cur PROVE FALSE
  <2>1. Main(cur) \in Constructed BY <1>1, Zenon DEF IInv, Built
  <2>2. pc \in Loading BY DEF Loading
  <2>3. QED BY <2>1, <2>2, Zenon DEF IInv, Built
<1>2. QED BY <1>1

(* What has been constructed.                                                *)
LEMMA BuiltKeeps ==
  ASSUME IInv, Next
  PROVE  Built'
<1> DEFINE Run(i) == i \in Constructed
<1>1. /\ life \in [Mods -> {"none", "loading", "linked", "kept", "gone"}]
      /\ linked \in [Mods -> BOOLEAN] /\ ctorLog \in Seq(Images)
      /\ deps \in [Mods -> Seq(Dep)]
  BY DEF IInv, Types
<1>2. \A i \in Constructed : i \in Images BY <1>1 DEF Constructed, Range
<1>3. /\ \A m \in Mods : linked[m] <=> Main(m) \in Constructed /\ m \in Holding
      /\ \A m \in Mods : life[m] = "linked" => linked[m]
      /\ \A i \in Constructed :
         /\ life[ModuleOf(i)] # "none"
         /\ Main(ModuleOf(i)) \in Constructed \/ (ModuleOf(i) = cur /\ pc \in {"ctor", "rest"})
         /\ ModuleOf(i) \in Holding => i \in LinkedImages(ModuleOf(i))
      /\ pc \in Loading => Main(cur) \notin Constructed
      /\ \A m \in Holding : linked[m] => LinkedImages(m) \subseteq Constructed
  BY Zenon DEF IInv, Built
<1>4. ASSUME UNCHANGED <<ctorLog, linked, deps>>, Holding' = Holding,
             \A m \in Mods : life[m] # "none" => life'[m] # "none",
             \A m \in Mods : life'[m] = "linked" => linked[m],
             pc \in {"ctor", "rest"} => pc' \in {"ctor", "rest"} /\ cur' = cur,
             pc' \in Loading => Main(cur') \notin Constructed
      PROVE  Built'
  <2>1. Constructed' = Constructed BY <1>4, Zenon DEF Constructed
  <2>2. \A m : LinkedImages(m)' = LinkedImages(m) BY <1>4, SameImages
  <2>3. \A i \in Constructed : life'[ModuleOf(i)] # "none" BY <1>2, <1>3, <1>4, ImagePair
  <2>4. \A i \in Constructed :
          Main(ModuleOf(i)) \in Constructed \/ (ModuleOf(i) = cur' /\ pc' \in {"ctor", "rest"})
    BY <1>3, <1>4
  <2>5. \A m \in Holding' : linked'[m] => LinkedImages(m)' \subseteq Constructed'
    BY <1>3, <1>4, <2>1, <2>2
  <2>6. \A i \in Constructed' : ModuleOf(i) \in Holding' => i \in LinkedImages(ModuleOf(i))'
    BY <1>3, <1>4, <2>1, <2>2, Zenon
  <2>7. QED BY <1>3, <1>4, <2>1, <2>3, <2>4, <2>5, <2>6, Zenon DEF Built, ModuleOf, Main
<1>5. CASE LinkStep
  <2>1. /\ UNCHANGED <<cur, life, deps>> /\ pc \in Loading
        /\ pc \in {"ctor", "rest"} => pc' \in {"ctor", "rest", "linked"}
        /\ UNCHANGED linked \/ ConstructMain
        /\ pc' = "linked" <=> ConstructMain
    BY <1>5, LinkStepFrame
  <2>2. Holding' = Holding BY <2>1, Zenon DEF Holding
  <2>3. CASE UNCHANGED <<ctorLog, Constructed>> /\ ~ConstructMain
    BY <2>1, <2>2, <2>3, <1>3, <1>4
  <2>4. ASSUME NEW p \in ToLink(cur), Constructed' = Constructed \cup {ImageAt(cur, p)},
               p = 0 <=> ConstructMain, pc \in {"ctor", "rest"}
        PROVE  Built'
    <3> DEFINE x == ImageAt(cur, p)
    <3>1. cur \in Mods /\ cur \in Holding BY <1>5, ConstructedGrows
    <3>2. x \in Images /\ ModuleOf(x) = cur /\ x \in LinkedImages(cur) /\ (x = Main(cur) <=> p = 0)
      <4>1. p \in 0 .. Len(deps[cur]) BY <3>1, Layout DEF IInv
      <4>2. x \in LinkedImages(cur) BY DEF LinkedImages
      <4>3. QED BY <3>1, <4>1, <4>2, Layout DEF IInv
    <3>3. \A m \in Mods : m # cur => Main(m) # x BY <3>2, MainImage
    <3>4. \A m : LinkedImages(m)' = LinkedImages(m) BY <2>1, SameImages
    <3>5. life[cur] # "none" BY <3>1 DEF Holding
    <3> HIDE DEF x
    <3>6. Constructed' = Constructed \cup {x} BY <2>4 DEF x
    <3>7. ASSUME NEW i \in Constructed'
          PROVE  /\ life'[ModuleOf(i)] # "none"
                 /\ ModuleOf(i) \in Holding' => i \in LinkedImages(ModuleOf(i))'
      <4>1. CASE i = x BY <4>1, <2>1, <3>2, <3>4, <3>5, Zenon
      <4>2. CASE i \in Constructed BY <4>2, <1>3, <2>1, <2>2, <3>4, Zenon
      <4>3. QED BY <4>1, <4>2, <3>6
    <3>8. CASE ~ConstructMain
      <4>1. x # Main(cur) /\ UNCHANGED linked BY <3>2, <3>8, <2>1, <2>4
      <4>2. \A m \in Mods : Main(m) \in Constructed' <=> Main(m) \in Constructed
        BY <3>3, <3>6, <4>1
      <4>3. pc' \in {"ctor", "rest"} BY <2>1, <2>4, <3>8
      <4>4. Main(cur) \notin Constructed' BY <1>3, <2>1, <3>1, <4>2
      <4>5. \A m \in Mods : linked'[m] <=> Main(m) \in Constructed' /\ m \in Holding'
        BY <1>3, <2>2, <4>1, <4>2, Zenon
      <4>6. ASSUME NEW i \in Constructed'
            PROVE  \/ Main(ModuleOf(i)) \in Constructed'
                    \/ (ModuleOf(i) = cur' /\ pc' \in {"ctor", "rest"})
        <5>1. CASE i = x BY <5>1, <2>1, <3>2, <4>3
        <5>2. CASE i \in Constructed BY <5>2, <1>3, <2>1, <3>6, <4>3
        <5>3. QED BY <5>1, <5>2, <3>6
      <4>7. \A m \in Holding' : linked'[m] => LinkedImages(m)' \subseteq Constructed'
        BY <1>3, <2>2, <3>4, <3>6, <4>1
      <4>8. \A m \in Mods : life'[m] = "linked" => linked'[m] BY <1>3, <2>1, <4>1, Zenon
      <4>9. QED BY <2>1, <3>7, <4>4, <4>5, <4>6, <4>7, <4>8, Zenon DEF Built, ModuleOf, Main
    <3>9. CASE ConstructMain
      <4>1. x = Main(cur) BY <3>2, <3>9, <2>4
      <4>2. linked' = [linked EXCEPT ![cur] = TRUE] /\ pc' = "linked"
        BY <3>9, Zenon DEF ConstructMain
      <4>3. /\ linked'[cur] = TRUE
            /\ \A m \in Mods : m # cur => linked'[m] = linked[m]
        BY <1>1, <3>1, <4>2
      <4>4. \A m \in Mods : linked'[m] <=> Main(m) \in Constructed' /\ m \in Holding'
        <5>1. ASSUME NEW m \in Mods PROVE linked'[m] <=> Main(m) \in Constructed' /\ m \in Holding'
          <6>1. CASE m = cur BY <6>1, <4>1, <4>3, <3>1, <3>6, <2>2
          <6>2. CASE m # cur
            <7>1. linked'[m] = linked[m] BY <6>2, <4>3
            <7>2. Main(m) \in Constructed' <=> Main(m) \in Constructed BY <6>2, <3>3, <3>6
            <7>3. QED BY <7>1, <7>2, <1>3, <2>2, Zenon
          <6>3. QED BY <6>1, <6>2
        <5>2. QED BY <5>1
      <4>5. ASSUME NEW i \in Constructed' PROVE Main(ModuleOf(i)) \in Constructed'
        <5>1. CASE ModuleOf(i) = cur BY <5>1, <4>1, <3>6
        <5>2. CASE ModuleOf(i) # cur
          <6>1. i \in Constructed BY <5>2, <3>2, <3>6
          <6>2. QED BY <6>1, <5>2, <1>3, <3>6
        <5>3. QED BY <5>1, <5>2
      <4>6. ASSUME NEW m \in Holding', linked'[m]
            PROVE  LinkedImages(m)' \subseteq Constructed'
        <5>1. CASE m = cur
          <6>1. LinkedImages(cur) \subseteq Constructed' BY <3>6, <3>9, <4>1, MainIsLast
          <6>2. QED BY <6>1, <5>1, <3>4, Zenon
        <5>2. CASE m # cur
          <6>1. m \in Mods /\ m \in Holding BY <2>2, <4>6 DEF Holding
          <6>2. LinkedImages(m) \subseteq Constructed BY <6>1, <5>2, <4>3, <4>6, <1>3
          <6>3. QED BY <6>2, <3>4, <3>6
        <5>3. QED BY <5>1, <5>2
      <4>7. \A m \in Mods : life'[m] = "linked" => linked'[m]
        <5>1. ASSUME NEW m \in Mods, life'[m] = "linked" PROVE linked'[m]
          <6>1. CASE m = cur BY <6>1, <4>3
          <6>2. CASE m # cur BY <6>2, <5>1, <4>3, <1>3, <2>1, Zenon
          <6>3. QED BY <6>1, <6>2
        <5>2. QED BY <5>1
      <4>8. pc' \notin Loading BY <4>2 DEF Loading
      <4>9. QED BY <3>7, <4>4, <4>5, <4>6, <4>7, <4>8, Zenon DEF Built, ModuleOf, Main
    <3>10. QED BY <3>8, <3>9
  <2>5. ConstructMain => ~UNCHANGED ctorLog
    <3>1. ASSUME ConstructMain, UNCHANGED ctorLog PROVE FALSE
      <4>1. Append(ctorLog, ImageAt(cur, 0)) = ctorLog
        BY <3>1, Zenon DEF ConstructMain, CallConstructors
      <4>2. Len(Append(ctorLog, ImageAt(cur, 0))) = Len(ctorLog) + 1 BY <1>1
      <4>3. QED BY <4>1, <4>2, <1>1
    <3>2. QED BY <3>1
  <2>6. QED BY <1>5, <2>3, <2>4, <2>5, ConstructedGrows
<1>6. CASE StartLoad
  <2>1. pc = "idle" /\ UNCHANGED <<deps, ctorLog, linked>>
    BY <1>6, Zenon DEF StartLoad
  <2>2. PICK m \in Mods :
              /\ life[m] = "none" /\ m \notin Holding
              /\ \A x \in Mods : x # m => life'[x] = life[x]
              /\ \/ /\ life'[m] = "gone" /\ Holding' = Holding /\ UNCHANGED <<pc, cur>>
                 \/ /\ life'[m] = "loading" /\ Holding' = Holding \cup {m}
                    /\ pc' = "deps" /\ cur' = m
    BY <1>6, StartLoadIs
  <2>3. \A i \in Constructed : ModuleOf(i) # m BY <2>2, <1>3
  <2>4. Main(m) \notin Constructed /\ ~linked[m] BY <2>3, <2>2, <1>3, MainImage
  <2>5. Constructed' = Constructed BY <2>1, Zenon DEF Constructed
  <2>6. \A x : LinkedImages(x)' = LinkedImages(x) BY <2>1, SameImages
  <2>7. \A x \in Mods : x # m => (x \in Holding' <=> x \in Holding) BY <2>2
  <2>8. \A x \in Mods : linked'[x] <=> Main(x) \in Constructed' /\ x \in Holding'
    BY <2>1, <2>4, <2>5, <2>7, <1>3
  <2>9. ASSUME NEW i \in Constructed'
        PROVE  /\ life'[ModuleOf(i)] # "none" /\ Main(ModuleOf(i)) \in Constructed'
               /\ ModuleOf(i) \in Holding' => i \in LinkedImages(ModuleOf(i))'
    <3>1. i \in Constructed /\ ModuleOf(i) # m /\ ModuleOf(i) \in Mods
      BY <2>3, <2>5, <1>2, ImagePair
    <3>2. life'[ModuleOf(i)] # "none" BY <3>1, <2>2, <1>3
    <3>3. Main(ModuleOf(i)) \in Constructed' BY <3>1, <2>1, <2>5, <1>3
    <3>4. ModuleOf(i) \in Holding' => i \in LinkedImages(ModuleOf(i))'
      BY <3>1, <2>6, <2>7, <1>3, Zenon
    <3>5. QED BY <3>2, <3>3, <3>4
  <2>10. pc' \in Loading => Main(cur') \notin Constructed'
    BY <2>1, <2>2, <2>4, <2>5 DEF Loading
  <2>11. ASSUME NEW x \in Holding', linked'[x] PROVE LinkedImages(x)' \subseteq Constructed'
    <3>1. x # m /\ x \in Mods BY <2>1, <2>4, <2>11 DEF Holding
    <3>2. x \in Holding /\ linked[x] BY <3>1, <2>1, <2>7, <2>11
    <3>3. QED BY <3>2, <2>5, <2>6, <1>3
  <2>12. ASSUME NEW x \in Mods, life'[x] = "linked" PROVE linked'[x]
    <3>1. x # m BY <2>2, <2>12
    <3>2. QED BY <3>1, <2>1, <2>2, <2>12, <1>3, Zenon
  <2>13. QED BY <2>8, <2>9, <2>10, <2>11, <2>12, Zenon DEF Built, ModuleOf, Main
<1>7. CASE ResolveNeeded
  <2>1. /\ UNCHANGED <<cur, linked, life, ctorLog>> /\ pc = "deps" /\ pc' \in {"deps", "fini"}
    BY <1>7, ResolveFrame
  <2>2. \A i \in Constructed : ModuleOf(i) # cur BY <2>1, NothingRunYet
  <2>3. Constructed' = Constructed BY <2>1, Zenon DEF Constructed
  <2>4. Holding' = Holding BY <2>1, Zenon DEF Holding
  <2>5. cur \in Mods BY <2>1 DEF IInv, Stage, Holding
  <2>6. Main(cur) \notin Constructed /\ ~linked[cur] BY <2>1, <2>2, <2>5, <1>3, MainImage
  <2>7. \A m \in Mods : m # cur => deps'[m] = deps[m]
    <3>1. CASE UNCHANGED deps BY <3>1
    <3>2. CASE \E n, manual : AddDependency(cur, n, manual) BY <3>2, <1>1 DEF AddDependency
    <3>3. QED BY <3>1, <3>2, <1>7, ResolveFrame DEF TakeLoaded, LoadManually, LoadManuallyFails
  <2>8. \A m \in Mods : m # cur => LinkedImages(m)' = LinkedImages(m) BY <2>7, SameImages
  <2>9. ASSUME NEW i \in Constructed'
        PROVE  /\ life'[ModuleOf(i)] # "none" /\ Main(ModuleOf(i)) \in Constructed'
               /\ ModuleOf(i) \in Holding' => i \in LinkedImages(ModuleOf(i))'
    <3>1. i \in Constructed /\ ModuleOf(i) # cur /\ ModuleOf(i) \in Mods
      BY <2>2, <2>3, <1>2, ImagePair
    <3>2. QED BY <3>1, <2>1, <2>3, <2>4, <2>8, <1>3, Zenon
  <2>10. ASSUME NEW m \in Holding', linked'[m] PROVE LinkedImages(m)' \subseteq Constructed'
    <3>1. m # cur /\ m \in Mods BY <2>1, <2>6, <2>10 DEF Holding
    <3>2. LinkedImages(m) \subseteq Constructed BY <2>1, <2>4, <2>10, <1>3
    <3>3. LinkedImages(m)' = LinkedImages(m) BY <3>1, <2>8
    <3>4. QED BY <3>2, <3>3, <2>3
  <2>11. \A m \in Mods : linked'[m] <=> Main(m) \in Constructed' /\ m \in Holding'
    BY <2>1, <2>3, <2>4, <1>3, Zenon
  <2>12. \A m \in Mods : life'[m] = "linked" => linked'[m] BY <2>1, <1>3, Zenon
  <2>13. Main(cur') \notin Constructed' BY <2>1, <2>3, <2>6
  <2>14. QED BY <2>9, <2>10, <2>11, <2>12, <2>13, Zenon DEF Built, ModuleOf, Main
<1>8. CASE FindEntry
  <2>1. /\ pc = "linked" /\ UNCHANGED <<deps, linked, ctorLog>> /\ pc' \in {"idle", "fini"}
        /\ UNCHANGED life \/ life' = [life EXCEPT ![cur] = "linked"]
    BY <1>8 DEF FindEntry, LinkFails
  <2>2. cur \in Holding /\ linked[cur] /\ cur \in Mods BY <2>1 DEF IInv, Stage, Holding
  <2>3. Holding' = Holding BY <2>1, <2>2, <1>1 DEF Holding
  <2>4. /\ \A m \in Mods : life[m] # "none" => life'[m] # "none"
        /\ \A m \in Mods : life'[m] = "linked" => m = cur \/ life[m] = "linked"
    BY <2>1, <1>1
  <2>5. \A m \in Mods : life'[m] = "linked" => linked[m] BY <2>2, <2>4, <1>3, Zenon
  <2>6. pc' \notin Loading /\ pc \notin {"ctor", "rest"} BY <2>1 DEF Loading
  <2>7. QED BY <2>1, <2>3, <2>4, <2>5, <2>6, <1>4
<1>9. CASE StartRelease \/ RunDestructors \/ ReleaseDependency
  <2>1. /\ UNCHANGED <<deps, linked, ctorLog, life>>
        /\ pc \in {"idle", "fini", "release"} /\ pc' \in {"fini", "release"}
    BY <1>9 DEF StartRelease, RunDestructors, ReleaseDependency
  <2>2. Holding' = Holding BY <2>1, Zenon DEF Holding
  <2>3. pc' \notin Loading /\ pc \notin {"ctor", "rest"} BY <2>1 DEF Loading
  <2>4. \A m \in Mods : life'[m] = "linked" => linked[m] BY <2>1, <1>3, Zenon
  <2>5. QED BY <2>1, <2>2, <2>3, <2>4, <1>4
<1>10. CASE ReleaseMain
  <2>1. /\ pc = "release" /\ pc' = "idle" /\ UNCHANGED ctorLog
        /\ life' = [life EXCEPT ![cur] = IF unload THEN "gone" ELSE "kept"]
        /\ linked' = [linked EXCEPT ![cur] = FALSE]
        /\ deps' = [deps EXCEPT ![cur] = <<>>]
    BY <1>10, Zenon DEF ReleaseMain
  <2>2. cur \in Mods BY <2>1 DEF IInv, Stage, Holding
  <2>3. /\ Holding' = Holding \ {cur} /\ life'[cur] \in {"gone", "kept"} /\ linked'[cur] = FALSE
        /\ \A m \in Mods : m # cur => /\ life'[m] = life[m] /\ linked'[m] = linked[m]
                                      /\ deps'[m] = deps[m]
    BY <2>1, <2>2, <1>1 DEF Holding
  <2>4. Constructed' = Constructed BY <2>1, Zenon DEF Constructed
  <2>5. \A m \in Mods : m # cur => LinkedImages(m)' = LinkedImages(m) BY <2>3, SameImages
  <2>6. ASSUME NEW m \in Mods
        PROVE  /\ linked'[m] <=> Main(m) \in Constructed' /\ m \in Holding'
               /\ life'[m] = "linked" => linked'[m]
    <3>1. CASE m = cur BY <3>1, <2>3
    <3>2. CASE m # cur
      <4>1. life'[m] = life[m] /\ linked'[m] = linked[m] /\ (m \in Holding' <=> m \in Holding)
        BY <3>2, <2>3
      <4>2. QED BY <4>1, <2>4, <1>3, Zenon
    <3>3. QED BY <3>1, <3>2
  <2>7. ASSUME NEW i \in Constructed'
        PROVE  /\ life'[ModuleOf(i)] # "none" /\ Main(ModuleOf(i)) \in Constructed'
               /\ ModuleOf(i) \in Holding' => i \in LinkedImages(ModuleOf(i))'
    <3>1. i \in Constructed /\ ModuleOf(i) \in Mods BY <2>4, <1>2, ImagePair
    <3>2. life'[ModuleOf(i)] # "none" BY <3>1, <2>3, <1>3
    <3>3. Main(ModuleOf(i)) \in Constructed' BY <3>1, <2>1, <2>4, <1>3
    <3>4. ModuleOf(i) \in Holding' => i \in LinkedImages(ModuleOf(i))'
      <4>1. SUFFICES ASSUME ModuleOf(i) \in Holding' PROVE i \in LinkedImages(ModuleOf(i))'
        OBVIOUS
      <4>2. ModuleOf(i) # cur /\ ModuleOf(i) \in Holding BY <4>1, <2>3
      <4>3. LinkedImages(ModuleOf(i))' = LinkedImages(ModuleOf(i)) BY <4>2, <3>1, <2>5
      <4>4. QED BY <4>2, <4>3, <3>1, <1>3
    <3>5. QED BY <3>2, <3>3, <3>4
  <2>8. ASSUME NEW m \in Holding', linked'[m] PROVE LinkedImages(m)' \subseteq Constructed'
    <3>1. m # cur /\ m \in Mods /\ m \in Holding BY <2>3 DEF Holding
    <3>2. linked[m] BY <3>1, <2>3, <2>8
    <3>3. LinkedImages(m) \subseteq Constructed BY <3>1, <3>2, <1>3
    <3>4. QED BY <3>1, <3>3, <2>4, <2>5
  <2>9. pc' \notin Loading BY <2>1 DEF Loading
  <2>10. QED BY <2>6, <2>7, <2>8, <2>9, Zenon DEF Built, ModuleOf, Main
<1>11. CASE (\E t \in Threads : AccessTls(t) \/ ThreadExit(t)) \/ Deinit
  <2>1. UNCHANGED <<deps, linked, ctorLog, life, pc, cur>> BY <1>11, ThreadStepFrame
  <2>2. Holding' = Holding BY <2>1, Zenon DEF Holding
  <2>3. \A m \in Mods : life'[m] = "linked" => linked[m] BY <2>1, <1>3, Zenon
  <2>4. QED BY <2>1, <2>2, <2>3, <1>3, <1>4
<1>12. QED BY <1>5, <1>6, <1>7, <1>8, <1>9, <1>10, <1>11, StepKinds

(* What an image is when it is unloaded depends on the life of its module.   *)
LEMMA UnloadedFrame ==
  ASSUME UNCHANGED life,
         \/ UNCHANGED <<pc, cur, unload>>
         \/ pc # "release" /\ (pc' = "release" => ~unload')
  PROVE  \A m : Unloaded(m)' <=> Unloaded(m)
<1>1. CASE UNCHANGED <<pc, cur, unload>> BY <1>1, Zenon DEF Unloaded
<1>2. CASE pc # "release" /\ (pc' = "release" => ~unload')
  <2>1. \A m : Unloaded(m) <=> life[m] = "gone" BY <1>2, Zenon DEF Unloaded
  <2>2. \A m : Unloaded(m)' <=> life'[m] = "gone" BY <1>2, Zenon DEF Unloaded
  <2>3. QED BY <2>1, <2>2
<1>3. QED BY <1>1, <1>2

(* A module that is loaded is not unloaded, but while it is released.        *)
LEMMA NotUnloaded ==
  ASSUME IInv, cur \in Holding, pc # "release" \/ ~unload
  PROVE  ~Unloaded(cur)
BY DEF Unloaded, Holding

(* What is mapped, and what leads there.                                     *)
LEMMA MemoryKeeps ==
  ASSUME IInv, Next
  PROVE  Memory'
<1>1. /\ life \in [Mods -> {"none", "loading", "linked", "kept", "gone"}]
      /\ deps \in [Mods -> Seq(Dep)] /\ k \in Nat
      /\ bound \in [Images -> SUBSET Images] /\ mapped \subseteq Images
      /\ ctorLog \in Seq(Images)
  BY DEF IInv, Types, TypeOK
<1>2. \A i \in Constructed : i \in Images BY <1>1 DEF Constructed, Range
<1>3. /\ \A m \in Holding : \A p \in ToLink(m) \cap Kept(m) : ImageAt(m, p) \in mapped
      /\ \A i \in mapped \ leaked : life[ModuleOf(i)] # "kept" =>
          /\ ModuleOf(i) \in Holding
          /\ \E p \in ToLink(ModuleOf(i)) \cap Kept(ModuleOf(i)) : i = ImageAt(ModuleOf(i), p)
      /\ \A i \in Constructed : i \in mapped \/ Unloaded(ModuleOf(i))
      /\ \A i \in Constructed : Unloaded(ModuleOf(i)) => i \in finalised
      /\ finalised \subseteq Constructed
      /\ \A i \in Images : \A p \in bound[i] :
          /\ ModuleOf(p) = ModuleOf(i)
          /\ p \in mapped \/ IsSystem(p) \/ Unloaded(ModuleOf(i))
  BY Zenon DEF IInv, Memory
<1> DEFINE Frame1 ==
             /\ UNCHANGED <<mapped, leaked, deps, world, life>>
             /\ \A m : Kept(m)' = Kept(m)
             /\ \A m : Unloaded(m)' <=> Unloaded(m)
<1>4. ASSUME Frame1
      PROVE  /\ \A m \in Holding' : \A p \in ToLink(m)' \cap Kept(m)' : ImageAt(m, p)' \in mapped'
             /\ \A i \in mapped' \ leaked' : life'[ModuleOf(i)] # "kept" =>
                  /\ ModuleOf(i) \in Holding'
                  /\ \E p \in ToLink(ModuleOf(i))' \cap Kept(ModuleOf(i))' :
                        i = ImageAt(ModuleOf(i), p)'
  <2>1. Holding' = Holding BY <1>4, Zenon DEF Holding
  <2>2. \A m : ToLink(m)' = ToLink(m) BY <1>4, SameImages
  <2>3. \A m, p : ImageAt(m, p)' = ImageAt(m, p) BY <1>4, SameImages
  <2>4. QED BY <1>3, <1>4, <2>1, <2>2, <2>3
<1>5. ASSUME Frame1, UNCHANGED <<ctorLog, bound, finalised>> PROVE Memory'
  <2>1. Constructed' = Constructed BY <1>5, Zenon DEF Constructed
  <2>2. \A i : IsSystem(i)' <=> IsSystem(i) BY <1>5, Zenon DEF IsSystem, FileOf
  <2>3. QED BY <1>3, <1>4, <1>5, <2>1, <2>2, Zenon DEF Memory, ModuleOf
<1>6. CASE LinkStep
  <2>1. /\ UNCHANGED <<mapped, leaked, deps, world, life, cur, finalised>>
        /\ pc \in Loading /\ pc' \in Loading \cup {"fini", "linked"}
    BY <1>6, LinkStepFrame
  <2>2. pc # "release" /\ pc' # "release" BY <2>1 DEF Loading
  <2>3. Frame1 BY <2>1, <2>2, HeldFrame, UnloadedFrame
  <2>4. cur \in Mods /\ cur \in Holding BY <1>6, ConstructedGrows
  <2>5. ~Unloaded(cur) BY <2>2, <2>4, NotUnloaded
  <2>6. Kept(cur) = 0 .. Len(deps[cur]) BY <2>2, Zenon DEF Kept
  <2>7. ASSUME NEW p \in ToLink(cur)
        PROVE  ImageAt(cur, p) \in mapped /\ ModuleOf(ImageAt(cur, p)) = cur
    <3>1. p \in 0 .. Len(deps[cur]) BY <2>4, Layout DEF IInv
    <3>2. QED BY <3>1, <2>4, <2>6, <1>3, Layout DEF IInv
  <2>8. /\ Constructed \subseteq Constructed'
        /\ \A i \in Constructed' : i \in Constructed \/ (i \in mapped /\ ModuleOf(i) = cur)
    <3>1. CASE UNCHANGED Constructed BY <3>1
    <3>2. CASE \E p \in ToLink(cur) : Constructed' = Constructed \cup {ImageAt(cur, p)}
      BY <3>2, <2>7
    <3>3. QED BY <3>1, <3>2, <1>6, ConstructedGrows
  <2>9. /\ \A i \in Constructed' : i \in mapped' \/ Unloaded(ModuleOf(i))'
        /\ \A i \in Constructed' : Unloaded(ModuleOf(i))' => i \in finalised'
        /\ finalised' \subseteq Constructed'
    BY <1>3, <2>1, <2>3, <2>5, <2>8
  <2>10. ASSUME NEW i \in Images, NEW p \in bound'[i]
         PROVE  /\ ModuleOf(p) = ModuleOf(i)
                /\ p \in mapped' \/ IsSystem(p)' \/ Unloaded(ModuleOf(i))'
    <3>1. IsSystem(p)' <=> IsSystem(p) BY <2>1, Zenon DEF IsSystem, FileOf
    <3>2. CASE p \in bound[i] BY <3>2, <3>1, <1>3, <2>1, <2>3
    <3>3. CASE p \notin bound[i]
      <4>1. ProcessRelocation
        BY <1>6, <3>3, <2>10, Zenon DEF LinkStep, DepsDone, RegisterTls, TlsDone, ImageDone,
           RelocsDone, RegisterUnwind, UnwindDone, StartWalk, WalkNext, WalkCalls, WalksDone,
           ConstructRest, ConstructMain, LinkVarsInDeps, InWalk
      <4>2. PICK img \in LinkedImages(cur), x \in Images :
              /\ bound' = [bound EXCEPT ![img] = @ \cup {x}]
              /\ \E q \in 0 .. Len(deps[cur]) :
                   x = ImageAt(cur, q) /\ (q \in ToLink(cur) \/ IsSystem(x))
        BY <4>1, <3>3, <2>10, RelocationBinds
      <4>3. i = img /\ p = x BY <4>2, <3>3, <2>10, <1>1
      <4>4. ModuleOf(i) = cur BY <4>3, <2>7 DEF LinkedImages
      <4>5. ModuleOf(p) = cur BY <4>2, <4>3, <2>4, Layout DEF IInv
      <4>6. p \in mapped \/ IsSystem(p) BY <4>2, <4>3, <2>7
      <4>7. QED BY <4>4, <4>5, <4>6, <3>1, <2>1
    <3>4. QED BY <3>2, <3>3
  <2>11. QED BY <2>3, <2>9, <2>10, <1>4, Zenon DEF Memory, ModuleOf
<1>7. CASE StartLoad
  <2>1. pc = "idle" /\ cur = NoMain /\ UNCHANGED <<deps, ctorLog, bound, world, leaked, finalised>>
    <3>1. UNCHANGED <<deps, ctorLog, bound, world, leaked, finalised>> BY <1>7, Zenon DEF StartLoad
    <3>2. QED BY <3>1, <1>7, StartLoadIs
  <2>2. PICK m \in Mods :
              /\ life[m] = "none" /\ m \notin Holding
              /\ deps[m] = <<>> /\ Len(deps[m]) = 0 /\ ToLink(m) = {0}
              /\ \A x \in Mods : x # m => life'[x] = life[x]
              /\ \/ /\ life'[m] = "gone" /\ Holding' = Holding
                    /\ UNCHANGED <<pc, cur, k, mapped, live>>
                 \/ /\ life'[m] = "loading" /\ Holding' = Holding \cup {m}
                    /\ pc' = "deps" /\ mapped' = mapped \cup {Main(m)}
    BY <1>7, StartLoadIs
  <2>3. \A x : Kept(x)' = Kept(x) BY <2>1, <2>2, HeldFrame
  <2>4. \A x : ToLink(x)' = ToLink(x) BY <2>1, SameImages
  <2>5. \A x, p : ImageAt(x, p)' = ImageAt(x, p) BY <2>1, SameImages
  <2>6. \A i : IsSystem(i)' <=> IsSystem(i) BY <2>1, Zenon DEF IsSystem, FileOf
  <2>7. Constructed' = Constructed BY <2>1, Zenon DEF Constructed
  <2>8. \A i \in Constructed : ModuleOf(i) # m /\ ModuleOf(i) \in Mods
    <3>1. \A i \in Constructed : life[ModuleOf(i)] # "none" BY Zenon DEF IInv, Built
    <3>2. QED BY <3>1, <2>2, <1>2, ImagePair
  <2>9. /\ \A x : Unloaded(x) <=> life[x] = "gone"
        /\ \A x : Unloaded(x)' <=> life'[x] = "gone"
    <3>1. pc # "release" /\ pc' # "release" BY <2>1, <2>2
    <3>2. QED BY <3>1, Zenon DEF Unloaded
  <2>10. \A x \in Mods : (Unloaded(x) => Unloaded(x)') /\ (x # m => (Unloaded(x)' <=> Unloaded(x)))
    BY <2>2, <2>9
  <2>11. mapped \subseteq mapped' /\ \A x \in Mods : x # m => (x \in Holding' <=> x \in Holding)
    BY <2>2
  <2>12. Kept(m) = {0} /\ ImageAt(m, 0) = Main(m)
    <3>1. Kept(m) = 0 .. 0 BY <2>1, <2>2, Zenon DEF Kept
    <3>2. 0 .. 0 = {0} OBVIOUS
    <3>3. QED BY <3>1, <3>2, Layout DEF IInv
  <2>13. ASSUME NEW x \in Holding', NEW p \in ToLink(x)' \cap Kept(x)'
         PROVE  ImageAt(x, p)' \in mapped'
    <3>1. x \in Mods BY DEF Holding
    <3>2. p \in ToLink(x) \cap Kept(x) BY <2>3, <2>4
    <3>3. CASE x \in Holding
      <4>1. ImageAt(x, p) \in mapped BY <3>2, <3>3, <1>3
      <4>2. QED BY <4>1, <2>5, <2>11
    <3>4. CASE x \notin Holding
      <4>1. x = m /\ mapped' = mapped \cup {Main(m)} BY <3>4, <3>1, <2>2, <2>11, <2>13
      <4>2. p = 0 BY <4>1, <3>2, <2>12
      <4>3. QED BY <4>1, <4>2, <2>5, <2>12
    <3>5. QED BY <3>3, <3>4
  <2>14. ASSUME NEW i \in mapped' \ leaked', life'[ModuleOf(i)] # "kept"
         PROVE  /\ ModuleOf(i) \in Holding'
                /\ \E p \in ToLink(ModuleOf(i))' \cap Kept(ModuleOf(i))' :
                        i = ImageAt(ModuleOf(i), p)'
    <3>1. CASE i \in mapped
      <4>1. ModuleOf(i) \in Mods BY <3>1, <1>1, ImagePair
      <4>2. life[ModuleOf(i)] # "kept" BY <4>1, <2>2, <2>14
      <4>3. ModuleOf(i) \in Holding
            /\ \E p \in ToLink(ModuleOf(i)) \cap Kept(ModuleOf(i)) : i = ImageAt(ModuleOf(i), p)
        BY <3>1, <4>2, <2>1, <1>3
      <4>4. ModuleOf(i) \in Holding' BY <4>1, <4>3, <2>2
      <4>5. QED BY <4>3, <4>4, <2>3, <2>4, <2>5
    <3>2. CASE i \notin mapped
      <4>1. i = Main(m) /\ Holding' = Holding \cup {m} BY <3>2, <2>2
      <4>2. ModuleOf(i) = m BY <4>1, MainImage
      <4>3. 0 \in ToLink(m)' \cap Kept(m)' /\ i = ImageAt(m, 0)'
        BY <4>1, <2>2, <2>3, <2>4, <2>5, <2>12
      <4>4. QED BY <4>1, <4>2, <4>3
    <3>3. QED BY <3>1, <3>2
  <2>15. \A i \in Constructed' : i \in mapped' \/ Unloaded(ModuleOf(i))'
    BY <2>7, <2>8, <2>10, <2>11, <1>3
  <2>16. \A i \in Constructed' : Unloaded(ModuleOf(i))' => i \in finalised'
    BY <2>1, <2>7, <2>8, <2>10, <1>3
  <2>17. finalised' \subseteq Constructed' BY <2>1, <2>7, <1>3
  <2>18. \A i \in Images : \A p \in bound'[i] :
          /\ ModuleOf(p) = ModuleOf(i)
          /\ p \in mapped' \/ IsSystem(p)' \/ Unloaded(ModuleOf(i))'
    BY <2>1, <2>6, <2>10, <2>11, <1>3, ImagePair
  <2>19. QED BY <2>13, <2>14, <2>15, <2>16, <2>17, <2>18, Zenon DEF Memory, ModuleOf
<1>8. CASE ResolveNeeded
  <2>1. /\ UNCHANGED <<world, cur, life, bound, ctorLog, finalised>>
        /\ pc = "deps" /\ pc' \in {"deps", "fini"}
    BY <1>8, ResolveFrame
  <2>2. \A m : Unloaded(m)' <=> Unloaded(m) BY <2>1, UnloadedFrame
  <2>3. Holding' = Holding BY <2>1, Zenon DEF Holding
  <2>4. Constructed' = Constructed BY <2>1, Zenon DEF Constructed
  <2>5. \A i : IsSystem(i)' <=> IsSystem(i) BY <2>1, Zenon DEF IsSystem, FileOf
  <2>6. ASSUME mapped \subseteq mapped'
        PROVE  /\ \A i \in Constructed' : i \in mapped' \/ Unloaded(ModuleOf(i))'
               /\ \A i \in Constructed' : Unloaded(ModuleOf(i))' => i \in finalised'
               /\ finalised' \subseteq Constructed'
               /\ \A i \in Images : \A p \in bound'[i] :
                    /\ ModuleOf(p) = ModuleOf(i)
                    /\ p \in mapped' \/ IsSystem(p)' \/ Unloaded(ModuleOf(i))'
    BY <2>1, <2>2, <2>4, <2>5, <2>6, <1>3
  <2>7. CASE UNCHANGED <<deps, mapped, leaked>>
    <3>1. \A m : Kept(m)' = Kept(m) BY <2>1, <2>7, HeldFrame
    <3>2. QED BY <3>1, <2>1, <2>2, <2>7, <1>5
  <2>8. CASE LoadManuallyFails(names[k])
    <3>1. /\ UNCHANGED deps /\ mapped \subseteq mapped'
          /\ mapped' \ leaked' \subseteq mapped \ leaked
      BY <2>8 DEF LoadManuallyFails
    <3>2. \A m : Kept(m)' = Kept(m) BY <2>1, <3>1, HeldFrame
    <3>3. \A m : ToLink(m)' = ToLink(m) BY <3>1, SameImages
    <3>4. \A m, p : ImageAt(m, p)' = ImageAt(m, p) BY <3>1, SameImages
    <3>5. /\ \A m \in Holding' : \A p \in ToLink(m)' \cap Kept(m)' : ImageAt(m, p)' \in mapped'
          /\ \A i \in mapped' \ leaked' : life'[ModuleOf(i)] # "kept" =>
                  /\ ModuleOf(i) \in Holding'
                  /\ \E p \in ToLink(ModuleOf(i))' \cap Kept(ModuleOf(i))' :
                        i = ImageAt(ModuleOf(i), p)'
      BY <1>3, <2>1, <2>3, <3>1, <3>2, <3>3, <3>4
    <3>6. QED BY <2>6, <3>1, <3>5, Zenon DEF Memory, ModuleOf
  <2>9. ASSUME NEW n, TakeLoaded(n) \/ LoadManually(n) PROVE Memory'
    <3>1. PICK c \in Mods : c = cur BY <2>1 DEF IInv, Stage, Holding
    <3>2. PICK len \in Nat : len = Len(deps[c]) BY <1>1
    <3>3. /\ c \in Holding /\ UNCHANGED leaked
          /\ \A m \in Mods : m # c => deps'[m] = deps[m] /\ Kept(m)' = Kept(m)
          /\ \A p \in 0 .. len : ImageAt(c, p)' = ImageAt(c, p)
          /\ ImageAt(c, len + 1)' = <<c, n>>
          /\ ToLink(c)' = IF n \notin world.system THEN ToLink(c) \cup {len + 1} ELSE ToLink(c)
          /\ Kept(c) = 0 .. len /\ Kept(c)' = 0 .. len + 1
          /\ LoadManually(n) => mapped' = mapped \cup {<<c, n>>} /\ n \notin world.system
          /\ TakeLoaded(n) => UNCHANGED mapped /\ n \in world.system
      BY <1>8, <2>9, <3>1, <3>2, NewDependency
    <3>4. \A m \in Mods : m # c => /\ \A p : ImageAt(m, p)' = ImageAt(m, p)
                                   /\ ToLink(m)' = ToLink(m)
      BY <3>3, SameImages
    <3>5. /\ \A p \in 0 .. len : p \in 0 .. len + 1 /\ p # len + 1
          /\ \A p \in 0 .. len + 1 : p = len + 1 \/ p \in 0 .. len
          /\ len + 1 \in 0 .. len + 1
      BY <3>2
    <3>6. ToLink(c) \subseteq 0 .. len BY <3>1, <3>2, Layout DEF IInv
    <3>7. \/ /\ mapped' = mapped /\ ToLink(c)' = ToLink(c)
          \/ /\ mapped' = mapped \cup {<<c, n>>} /\ ToLink(c)' = ToLink(c) \cup {len + 1}
      BY <2>9, <3>3
    <3>8. ASSUME NEW m \in Holding', NEW p \in ToLink(m)' \cap Kept(m)'
          PROVE  ImageAt(m, p)' \in mapped'
      <4>1. m \in Holding /\ m \in Mods BY <2>3 DEF Holding
      <4>2. CASE m # c
        <5>1. p \in ToLink(m) \cap Kept(m) BY <4>1, <4>2, <3>3, <3>4
        <5>2. ImageAt(m, p) \in mapped BY <4>1, <5>1, <1>3
        <5>3. QED BY <5>2, <4>1, <4>2, <3>4, <3>7
      <4>3. CASE m = c
        <5>1. p \in ToLink(c)' /\ p \in 0 .. len + 1 BY <4>3, <3>3, Zenon
        <5>2. CASE p \in 0 .. len
          <6>1. p \in ToLink(c) BY <5>1, <5>2, <3>5, <3>7
          <6>2. ImageAt(c, p) \in mapped BY <6>1, <5>2, <3>3, <1>3
          <6>3. ImageAt(c, p)' \in mapped' BY <6>2, <5>2, <3>3, <3>7
          <6>4. QED BY <6>3, <4>3, Zenon
        <5>3. CASE p = len + 1
          <6>1. p \notin ToLink(c) BY <5>3, <3>5, <3>6
          <6>2. mapped' = mapped \cup {<<c, n>>} BY <6>1, <5>1, <3>7
          <6>3. ImageAt(c, len + 1)' \in mapped' BY <6>2, <3>3
          <6>4. QED BY <6>3, <5>3, <4>3, Zenon
        <5>4. QED BY <5>1, <5>2, <5>3, <3>5
      <4>4. QED BY <4>2, <4>3
    <3>9. ASSUME NEW i \in mapped' \ leaked', life'[ModuleOf(i)] # "kept"
          PROVE  /\ ModuleOf(i) \in Holding
                 /\ \E p \in ToLink(ModuleOf(i))' \cap Kept(ModuleOf(i))' :
                        i = ImageAt(ModuleOf(i), p)'
      <4>1. CASE i \in mapped
        <5>1. ModuleOf(i) \in Holding /\ ModuleOf(i) \in Mods
          BY <4>1, <3>3, <3>9, <2>1, <1>3 DEF Holding
        <5>2. PICK p \in ToLink(ModuleOf(i)) \cap Kept(ModuleOf(i)) : i = ImageAt(ModuleOf(i), p)
          BY <4>1, <3>3, <3>9, <2>1, <1>3
        <5>3. p \in ToLink(ModuleOf(i))' \cap Kept(ModuleOf(i))' /\ i = ImageAt(ModuleOf(i), p)'
          <6>1. CASE ModuleOf(i) = c
            <7>1. p \in ToLink(c) /\ p \in 0 .. len /\ i = ImageAt(c, p) BY <6>1, <5>2, <3>3, Zenon
            <7>2. p \in ToLink(c)' \cap Kept(c)' /\ i = ImageAt(c, p)'
              BY <7>1, <3>3, <3>5, <3>7
            <7>3. QED BY <7>2, <6>1, Zenon
          <6>2. CASE ModuleOf(i) # c BY <6>2, <5>1, <5>2, <3>3, <3>4
          <6>3. QED BY <6>1, <6>2
        <5>4. QED BY <5>1, <5>3
      <4>2. CASE i \notin mapped
        <5>1. i = <<c, n>> /\ ToLink(c)' = ToLink(c) \cup {len + 1} BY <4>2, <3>7
        <5>2. ModuleOf(i) = c BY <5>1 DEF ModuleOf
        <5>3. len + 1 \in ToLink(c)' \cap Kept(c)' /\ i = ImageAt(c, len + 1)'
          BY <5>1, <3>3, <3>5
        <5>4. QED BY <5>2, <5>3, <3>3, Zenon
      <4>3. QED BY <4>1, <4>2
    <3>10. mapped \subseteq mapped' BY <3>7
    <3>11. QED BY <2>3, <2>6, <3>8, <3>9, <3>10, Zenon DEF Memory, ModuleOf
  <2>10. QED BY <1>8, <2>7, <2>8, <2>9, ResolveFrame
<1>9. CASE FindEntry
  <2>1. /\ pc = "linked" /\ pc' # "release"
        /\ UNCHANGED <<mapped, leaked, deps, world, ctorLog, bound, finalised>>
        /\ UNCHANGED life \/ life' = [life EXCEPT ![cur] = "linked"]
    BY <1>9 DEF FindEntry, LinkFails
  <2>2. cur \in Holding BY <2>1 DEF IInv, Stage
  <2>3. /\ Holding' = Holding
        /\ \A m \in Mods : /\ life'[m] = "kept" <=> life[m] = "kept"
                           /\ life'[m] = "gone" <=> life[m] = "gone"
    BY <2>1, <2>2, <1>1 DEF Holding
  <2>4. /\ \A m : Unloaded(m) <=> life[m] = "gone"
        /\ \A m : Unloaded(m)' <=> life'[m] = "gone"
    BY <2>1 DEF Unloaded
  <2>5. \A m : Kept(m)' = Kept(m) BY <2>1, HeldFrame
  <2>6. \A m : ToLink(m)' = ToLink(m) BY <2>1, SameImages
  <2>7. \A m, p : ImageAt(m, p)' = ImageAt(m, p) BY <2>1, SameImages
  <2>8. Constructed' = Constructed BY <2>1, Zenon DEF Constructed
  <2>9. \A i : IsSystem(i)' <=> IsSystem(i) BY <2>1, Zenon DEF IsSystem, FileOf
  <2>10. \A m \in Mods : Unloaded(m)' <=> Unloaded(m) BY <2>3, <2>4
  <2>11. \A m \in Holding' : \A p \in ToLink(m)' \cap Kept(m)' : ImageAt(m, p)' \in mapped'
    BY <1>3, <2>1, <2>3, <2>5, <2>6, <2>7
  <2>12. \A i \in mapped' \ leaked' : life'[ModuleOf(i)] # "kept" =>
                  /\ ModuleOf(i) \in Holding'
                  /\ \E p \in ToLink(ModuleOf(i))' \cap Kept(ModuleOf(i))' :
                        i = ImageAt(ModuleOf(i), p)'
    <3>1. \A i \in mapped : ModuleOf(i) \in Mods BY <1>1, ImagePair
    <3>2. QED BY <3>1, <1>3, <2>1, <2>3, <2>5, <2>6, <2>7
  <2>13. /\ \A i \in Constructed' : i \in mapped' \/ Unloaded(ModuleOf(i))'
         /\ \A i \in Constructed' : Unloaded(ModuleOf(i))' => i \in finalised'
         /\ finalised' \subseteq Constructed'
         /\ \A i \in Images : \A p \in bound'[i] :
                    /\ ModuleOf(p) = ModuleOf(i)
                    /\ p \in mapped' \/ IsSystem(p)' \/ Unloaded(ModuleOf(i))'
    <3>1. \A i \in Images : Unloaded(ModuleOf(i))' <=> Unloaded(ModuleOf(i)) BY <2>10, ImagePair
    <3>2. QED BY <3>1, <1>2, <1>3, <2>1, <2>8, <2>9
  <2>14. QED BY <2>11, <2>12, <2>13, Zenon DEF Memory, ModuleOf
<1>10. CASE StartRelease
  <2>1. /\ pc = "idle" /\ UNCHANGED <<mapped, leaked, deps, world, ctorLog, bound, finalised, life>>
        /\ pc' = "release" => k' = Len(deps[cur']) /\ ~unload'
    BY <1>10 DEF StartRelease
  <2>2. QED BY <2>1, <1>5, HeldFrame, UnloadedFrame
<1>11. CASE RunDestructors
  <2>1. /\ pc = "fini" /\ pc' = "release" /\ k' = Len(deps[cur])
        /\ UNCHANGED <<mapped, leaked, deps, world, ctorLog, bound, life, linked, unload, cur>>
        /\ finalised' = finalised \cup (IF linked[cur] THEN LinkedImages(cur) ELSE {})
    BY <1>11, Zenon DEF RunDestructors
  <2>2. cur \in Holding /\ cur \in Mods /\ unload BY <2>1 DEF IInv, Stage, Holding
  <2>3. \A m : Kept(m)' = Kept(m) BY <2>1, HeldFrame
  <2>4. \A m : ToLink(m)' = ToLink(m) BY <2>1, SameImages
  <2>5. \A m, p : ImageAt(m, p)' = ImageAt(m, p) BY <2>1, SameImages
  <2>6. Constructed' = Constructed BY <2>1, Zenon DEF Constructed
  <2>7. \A i : IsSystem(i)' <=> IsSystem(i) BY <2>1, Zenon DEF IsSystem, FileOf
  <2>8. Holding' = Holding BY <2>1, Zenon DEF Holding
  <2>9. \A m : Unloaded(m)' <=> Unloaded(m) \/ m = cur BY <2>1, <2>2 DEF Unloaded
  <2>10. ASSUME NEW i \in Constructed, ModuleOf(i) = cur
         PROVE linked[cur] /\ i \in LinkedImages(cur)
    <3>1. i \in LinkedImages(cur) BY <2>2, <2>10, Zenon DEF IInv, Built
    <3>2. Main(cur) \in Constructed BY <2>1, <2>10 DEF IInv, Built
    <3>3. linked[cur] BY <3>2, <2>2, Zenon DEF IInv, Built
    <3>4. QED BY <3>1, <3>3
  <2>11. \A i \in Constructed : Unloaded(ModuleOf(i))' => i \in finalised'
    BY <2>1, <2>9, <2>10, <1>3
  <2>12. finalised' \subseteq Constructed
    <3>1. linked[cur] => LinkedImages(cur) \subseteq Constructed BY <2>2, Zenon DEF IInv, Built
    <3>2. QED BY <3>1, <2>1, <1>3
  <2>13. \A m \in Holding' : \A p \in ToLink(m)' \cap Kept(m)' : ImageAt(m, p)' \in mapped'
    BY <1>3, <2>1, <2>3, <2>4, <2>5, <2>8
  <2>14. \A i \in mapped' \ leaked' : life'[ModuleOf(i)] # "kept" =>
                  /\ ModuleOf(i) \in Holding'
                  /\ \E p \in ToLink(ModuleOf(i))' \cap Kept(ModuleOf(i))' :
                        i = ImageAt(ModuleOf(i), p)'
    BY <1>3, <2>1, <2>3, <2>4, <2>5, <2>8
  <2>15. /\ \A i \in Constructed' : i \in mapped' \/ Unloaded(ModuleOf(i))'
         /\ \A i \in Images : \A p \in bound'[i] :
                    /\ ModuleOf(p) = ModuleOf(i)
                    /\ p \in mapped' \/ IsSystem(p)' \/ Unloaded(ModuleOf(i))'
    BY <1>3, <2>1, <2>6, <2>7, <2>9
  <2>16. QED BY <2>6, <2>11, <2>12, <2>13, <2>14, <2>15, Zenon DEF Memory, ModuleOf
<1>12. CASE ReleaseDependency
  <2>1. /\ pc = "release" /\ pc' = "release" /\ k > 0 /\ k' = k - 1
        /\ UNCHANGED <<leaked, deps, world, ctorLog, bound, life, unload, cur, finalised>>
        /\ mapped' = IF unload /\ deps[cur][k].manual
                     THEN mapped \ {<<cur, deps[cur][k].lib>>} ELSE mapped
    BY <1>12, Zenon DEF ReleaseDependency
  <2>2. PICK c : c = cur /\ c = cur' BY <2>1
  <2>3. c \in Holding /\ c \in Mods /\ k <= Len(deps[c]) BY <2>1, <2>2 DEF IInv, Stage, Holding
  <2>4. k \in 1 .. Len(deps[c]) /\ k \in 0 .. Len(deps[c]) /\ k # 0 BY <2>1, <2>3, <1>1
  <2>5. /\ k \in ToLink(c) <=> deps[c][k].manual
        /\ ImageAt(c, k) = <<c, deps[c][k].lib>> /\ ModuleOf(ImageAt(c, k)) = c
    BY <2>3, <2>4, Layout DEF IInv, ToLink
  <2>6. \A m : ToLink(m)' = ToLink(m) BY <2>1, SameImages
  <2>7. \A m, p : ImageAt(m, p)' = ImageAt(m, p) BY <2>1, SameImages
  <2>8. Constructed' = Constructed BY <2>1, Zenon DEF Constructed
  <2>9. \A i : IsSystem(i)' <=> IsSystem(i) BY <2>1, Zenon DEF IsSystem, FileOf
  <2>10. Holding' = Holding BY <2>1, Zenon DEF Holding
  <2>11. \A m : Unloaded(m)' <=> Unloaded(m) BY <2>1, UnloadedFrame
  <2>12. \A m : m # c => Kept(m)' = Kept(m) BY <2>1, <2>2, Zenon DEF Kept
  <2>13. CASE ~unload
    <3>1. Kept(c)' = Kept(c) BY <2>1, <2>2, <2>13, Zenon DEF Kept
    <3>2. \A m : Kept(m)' = Kept(m) BY <3>1, <2>12
    <3>3. UNCHANGED mapped BY <2>1, <2>13
    <3>4. QED BY <3>2, <3>3, <2>1, <2>11, <1>5
  <2>14. CASE unload
    <3>1. Kept(c) = 0 .. k /\ Kept(c)' = 0 .. k'
      BY <2>1, <2>2, <2>14, Zenon DEF Kept
    <3>2. Kept(c)' = Kept(c) \ {k} BY <3>1, <2>1, <1>1
    <3>3. Kept(c) \subseteq 0 .. Len(deps[c]) BY <3>1, <2>3, <2>4, <1>1
    <3>4. mapped' = IF k \in ToLink(c) THEN mapped \ {ImageAt(c, k)} ELSE mapped
      BY <2>1, <2>2, <2>5, <2>14
    <3>5. Unloaded(c) /\ Unloaded(c)' BY <2>1, <2>2, <2>11, <2>14 DEF Unloaded
    <3>6. ASSUME NEW m \in Holding', NEW p \in ToLink(m)' \cap Kept(m)'
          PROVE  ImageAt(m, p)' \in mapped'
      <4>1. m \in Holding /\ m \in Mods /\ p \in ToLink(m) BY <2>6, <2>10 DEF Holding
      <4>2. p \in 0 .. Len(deps[m]) BY <4>1, Layout DEF IInv
      <4>3. p \in Kept(m) /\ ImageAt(m, p) # ImageAt(c, k)
        <5>1. CASE m = c
          <6>1. p \in Kept(c) \ {k} BY <5>1, <3>2, Zenon
          <6>2. p \in 0 .. Len(deps[c]) BY <6>1, <3>3
          <6>3. ImageAt(c, p) # ImageAt(c, k) BY <6>1, <6>2, <2>3, <2>4, Layout DEF IInv
          <6>4. QED BY <6>1, <6>3, <5>1
        <5>2. CASE m # c
          <6>1. ModuleOf(ImageAt(m, p)) = m BY <4>1, <4>2, Layout DEF IInv
          <6>2. QED BY <6>1, <5>2, <2>5, <2>12
        <5>3. QED BY <5>1, <5>2
      <4>4. ImageAt(m, p) \in mapped BY <4>1, <4>3, <1>3
      <4>5. QED BY <4>3, <4>4, <2>7, <3>4
    <3>7. ASSUME NEW i \in mapped' \ leaked', life'[ModuleOf(i)] # "kept"
          PROVE  /\ ModuleOf(i) \in Holding'
                 /\ \E p \in ToLink(ModuleOf(i))' \cap Kept(ModuleOf(i))' :
                        i = ImageAt(ModuleOf(i), p)'
      <4>1. /\ i \in mapped \ leaked /\ life[ModuleOf(i)] # "kept"
            /\ k \in ToLink(c) => i # ImageAt(c, k)
        BY <3>4, <3>7, <2>1
      <4>2. ModuleOf(i) \in Holding BY <4>1, <1>3
      <4>3. PICK p \in ToLink(ModuleOf(i)) \cap Kept(ModuleOf(i)) : i = ImageAt(ModuleOf(i), p)
        BY <4>1, <1>3
      <4>4. p \in Kept(ModuleOf(i))'
        <5>1. CASE ModuleOf(i) = c
          <6>1. p # k BY <5>1, <4>1, <4>3
          <6>2. p \in Kept(c) \ {k} BY <6>1, <5>1, <4>3
          <6>3. p \in Kept(c)' BY <6>2, <3>2
          <6>4. QED BY <6>3, <5>1, Zenon
        <5>2. CASE ModuleOf(i) # c BY <5>2, <4>3, <2>12, Zenon
        <5>3. QED BY <5>1, <5>2
      <4>5. QED BY <4>2, <4>3, <4>4, <2>6, <2>7, <2>10
    <3>8. mapped \ mapped' \subseteq {ImageAt(c, k)} BY <3>4
    <3>9. ASSUME NEW i \in Constructed' PROVE i \in mapped' \/ Unloaded(ModuleOf(i))'
      <4>1. CASE i = ImageAt(c, k) BY <4>1, <2>5, <3>5
      <4>2. CASE i # ImageAt(c, k) BY <4>2, <2>8, <2>11, <3>8, <1>3
      <4>3. QED BY <4>1, <4>2
    <3>10. ASSUME NEW i \in Images, NEW p \in bound'[i]
           PROVE  /\ ModuleOf(p) = ModuleOf(i)
                  /\ p \in mapped' \/ IsSystem(p)' \/ Unloaded(ModuleOf(i))'
      <4>1. p \in bound[i] /\ ModuleOf(p) = ModuleOf(i) BY <2>1, <1>3
      <4>2. CASE p = ImageAt(c, k) BY <4>1, <4>2, <2>5, <3>5
      <4>3. CASE p # ImageAt(c, k) BY <4>1, <4>3, <2>9, <2>11, <3>8, <1>3
      <4>4. QED BY <4>1, <4>2, <4>3
    <3>11. /\ \A i \in Constructed' : Unloaded(ModuleOf(i))' => i \in finalised'
           /\ finalised' \subseteq Constructed'
      BY <2>1, <2>8, <2>11, <1>3
    <3>12. QED BY <3>6, <3>7, <3>9, <3>10, <3>11, Zenon DEF Memory, ModuleOf
  <2>15. QED BY <2>13, <2>14
<1>13. CASE ReleaseMain
  <2>1. /\ pc = "release" /\ pc' = "idle" /\ k = 0
        /\ UNCHANGED <<leaked, world, ctorLog, bound, unload, finalised>>
        /\ mapped' = IF unload THEN mapped \ {Main(cur)} ELSE mapped
        /\ life' = [life EXCEPT ![cur] = IF unload THEN "gone" ELSE "kept"]
        /\ deps' = [deps EXCEPT ![cur] = <<>>]
    BY <1>13, Zenon DEF ReleaseMain
  <2>2. cur \in Mods /\ cur \in Holding BY <2>1 DEF IInv, Stage, Holding
  <2>3. /\ Holding' = Holding \ {cur}
        /\ life'[cur] = IF unload THEN "gone" ELSE "kept"
        /\ \A m \in Mods : m # cur => life'[m] = life[m] /\ deps'[m] = deps[m]
    BY <2>1, <2>2, <1>1 DEF Holding
  <2>4. \A m \in Mods : m # cur => /\ ToLink(m)' = ToLink(m)
                                   /\ \A p : ImageAt(m, p)' = ImageAt(m, p)
    BY <2>3, SameImages
  <2>5. ASSUME NEW m \in Mods, m # cur PROVE Kept(m)' = Kept(m)
    <3>1. Kept(m) = 0 .. Len(deps[m]) BY <2>5, Zenon DEF Kept
    <3>2. Kept(m)' = 0 .. Len(deps'[m]) BY <2>1, Zenon DEF Kept
    <3>3. QED BY <3>1, <3>2, <2>3, <2>5
  <2>6. Constructed' = Constructed BY <2>1, Zenon DEF Constructed
  <2>7. \A i : IsSystem(i)' <=> IsSystem(i) BY <2>1, Zenon DEF IsSystem, FileOf
  <2>8. /\ ModuleOf(Main(cur)) = cur /\ ImageAt(cur, 0) = Main(cur)
        /\ life[cur] # "gone" /\ life[cur] # "kept"
    BY <2>2, MainImage DEF Holding, ImageAt
  <2>9. \A m \in Mods : Unloaded(m)' <=> Unloaded(m)
    <3>1. \A m : Unloaded(m)' <=> life'[m] = "gone" BY <2>1 DEF Unloaded
    <3>2. Unloaded(cur) <=> unload BY <2>1, <2>8 DEF Unloaded
    <3>3. \A m \in Mods : m # cur => (Unloaded(m) <=> life[m] = "gone") BY DEF Unloaded
    <3>4. life'[cur] = "gone" <=> unload BY <2>3
    <3>5. QED BY <3>1, <3>2, <3>3, <3>4, <2>3
  <2>10. unload => Kept(cur) = {0}
    <3>1. unload => Kept(cur) = 0 .. 0 BY <2>1, Zenon DEF Kept
    <3>2. 0 .. 0 = {0} OBVIOUS
    <3>3. QED BY <3>1, <3>2
  <2>11. PICK c \in Mods : c = cur BY <2>2
  <2>12. mapped \ mapped' \subseteq {Main(c)} /\ (mapped' # mapped => Unloaded(c)')
    <3>1. unload => Unloaded(c) BY <2>1, <2>11 DEF Unloaded
    <3>2. mapped' # mapped => unload BY <2>1
    <3>3. QED BY <3>1, <3>2, <2>1, <2>9, <2>11
  <2>13. ASSUME NEW m \in Holding', NEW p \in ToLink(m)' \cap Kept(m)'
         PROVE  ImageAt(m, p)' \in mapped'
    <3>1. m \in Holding /\ m \in Mods /\ m # cur BY <2>3 DEF Holding
    <3>2. p \in ToLink(m) \cap Kept(m) /\ ImageAt(m, p)' = ImageAt(m, p)
      BY <3>1, <2>4, <2>5
    <3>3. ImageAt(m, p) \in mapped BY <3>1, <3>2, <1>3
    <3>4. p \in 0 .. Len(deps[m]) BY <3>1, <3>2, Layout DEF IInv
    <3>5. ModuleOf(ImageAt(m, p)) = m BY <3>1, <3>4, Layout DEF IInv
    <3>6. ImageAt(m, p) # Main(c) BY <3>1, <3>5, <2>8, <2>11
    <3>7. QED BY <3>2, <3>3, <3>6, <2>12
  <2>14. ASSUME NEW i \in mapped' \ leaked', life'[ModuleOf(i)] # "kept"
         PROVE  /\ ModuleOf(i) \in Holding'
                /\ \E p \in ToLink(ModuleOf(i))' \cap Kept(ModuleOf(i))' :
                        i = ImageAt(ModuleOf(i), p)'
    <3>1. i \in mapped \ leaked BY <2>1
    <3>2. ModuleOf(i) \in Mods BY <3>1, <1>1, ImagePair
    <3>3. life[ModuleOf(i)] # "kept"
      <4>1. CASE ModuleOf(i) = cur BY <4>1, <2>8
      <4>2. CASE ModuleOf(i) # cur BY <4>2, <3>2, <2>3, <2>14
      <4>3. QED BY <4>1, <4>2
    <3>4. ModuleOf(i) \in Holding BY <3>1, <3>3, <1>3
    <3>5. PICK p \in ToLink(ModuleOf(i)) \cap Kept(ModuleOf(i)) : i = ImageAt(ModuleOf(i), p)
      BY <3>1, <3>3, <1>3
    <3>6. ModuleOf(i) # cur
      <4>1. ASSUME ModuleOf(i) = cur PROVE FALSE
        <5>1. unload BY <4>1, <2>3, <2>14
        <5>2. p = 0 BY <5>1, <4>1, <3>5, <2>10
        <5>3. i = Main(cur) BY <5>2, <4>1, <3>5, <2>8
        <5>4. QED BY <5>1, <5>3, <2>1
      <4>2. QED BY <4>1
    <3>7. QED BY <3>2, <3>4, <3>5, <3>6, <2>3, <2>4, <2>5
  <2>15. ASSUME NEW i \in Constructed' PROVE i \in mapped' \/ Unloaded(ModuleOf(i))'
    <3>1. i \in Constructed /\ ModuleOf(i) \in Mods BY <2>6, <1>2, ImagePair
    <3>2. i \in mapped \/ Unloaded(ModuleOf(i)) BY <3>1, <1>3
    <3>3. CASE i \in mapped \ mapped' BY <3>3, <2>8, <2>12, <2>11
    <3>4. CASE i \notin mapped \ mapped' BY <3>1, <3>2, <3>4, <2>9
    <3>5. QED BY <3>3, <3>4
  <2>16. ASSUME NEW i \in Images, NEW p \in bound'[i]
         PROVE  /\ ModuleOf(p) = ModuleOf(i)
                /\ p \in mapped' \/ IsSystem(p)' \/ Unloaded(ModuleOf(i))'
    <3>1. p \in bound[i] /\ ModuleOf(p) = ModuleOf(i) /\ ModuleOf(i) \in Mods
      BY <2>1, <1>3, ImagePair
    <3>2. p \in mapped \/ IsSystem(p) \/ Unloaded(ModuleOf(i)) BY <3>1, <1>3
    <3>3. CASE p \in mapped \ mapped' BY <3>1, <3>3, <2>8, <2>12, <2>11
    <3>4. CASE p \notin mapped \ mapped' BY <3>1, <3>2, <3>4, <2>7, <2>9
    <3>5. QED BY <3>3, <3>4
  <2>17. /\ \A i \in Constructed' : Unloaded(ModuleOf(i))' => i \in finalised'
         /\ finalised' \subseteq Constructed'
    <3>1. \A i \in Constructed : Unloaded(ModuleOf(i))' <=> Unloaded(ModuleOf(i))
      BY <2>9, <1>2, ImagePair
    <3>2. QED BY <3>1, <2>1, <2>6, <1>3
  <2>18. QED BY <2>13, <2>14, <2>15, <2>16, <2>17, Zenon DEF Memory, ModuleOf
<1>14. CASE (\E t \in Threads : AccessTls(t) \/ ThreadExit(t)) \/ Deinit
  <2>1. UNCHANGED <<pc, cur, k, deps, unload, world, life, mapped, leaked, bound, ctorLog,
                    finalised>>
    BY <1>14, ThreadStepFrame
  <2>2. QED BY <2>1, <1>5, HeldFrame, UnloadedFrame
<1>15. QED BY <1>6, <1>7, <1>8, <1>9, <1>10, <1>11, <1>12, <1>13, <1>14, StepKinds

(* A set that grows stays above a bound.                                     *)
LEMMA StaysAbove ==
  ASSUME NEW S, NEW T, IsFiniteSet(T), S \subseteq T, Cardinality(S) > MaxCustomLibs
  PROVE  Cardinality(T) > MaxCustomLibs
<1>1. IsFiniteSet(S) /\ Cardinality(S) <= Cardinality(T) BY FS_Subset
<1>2. Cardinality(S) \in Nat /\ Cardinality(T) \in Nat BY <1>1, FS_CardinalityType
<1>3. QED BY <1>1, <1>2, LinkerAssumption

(* The images of a list of dependencies are finitely many.                   *)
LEMMA ImagesFinite ==
  ASSUME NEW m, NEW d \in Seq(Dep)
  PROVE  IsFiniteSet({IF i = 0 THEN Main(m) ELSE <<m, d[i].lib>> :
                         i \in {0} \cup {j \in DOMAIN d : d[j].manual}})
<1> DEFINE P == {0} \cup {j \in DOMAIN d : d[j].manual}
           F(i) == IF i = 0 THEN Main(m) ELSE <<m, d[i].lib>>
<1>1. P \subseteq 0 .. Len(d) OBVIOUS
<1>2. IsFiniteSet(0 .. Len(d)) BY FS_Interval
<1>3. IsFiniteSet(P) BY <1>1, <1>2, FS_Subset
<1> DEFINE f == [i \in P |-> F(i)]
<1>4. f \in Surjection(P, {f[i] : i \in P}) BY DEF Surjection
<1>5. IsFiniteSet({f[i] : i \in P}) BY <1>3, <1>4, FS_Surjection
<1>6. {f[i] : i \in P} = {F(i) : i \in P} OBVIOUS
<1>7. QED BY <1>5, <1>6

(* What has been constructed and what will be are finitely many images, now  *)
(* and after the step.                                                       *)
LEMMA NotedFinite ==
  ASSUME IInv, Next
  PROVE  /\ IsFiniteSet(Constructed) /\ IsFiniteSet(Constructed \cup Pending)
         /\ IsFiniteSet(Constructed') /\ IsFiniteSet(Constructed' \cup Pending')
<1>1. Types' /\ Stage' BY TypesKeeps, StageKeeps
<1>2. ctorLog \in Seq(Images) /\ deps \in [Mods -> Seq(Dep)] BY DEF IInv, Types
<1>3. ctorLog' \in Seq(Images) /\ deps' \in [Mods -> Seq(Dep)] BY <1>1 DEF Types
<1>4. IsFiniteSet(Constructed) /\ IsFiniteSet(Constructed')
  BY <1>2, <1>3, RangeFinite DEF Constructed
<1>5. pc # "idle" => cur \in Mods BY DEF IInv, Stage, Holding
<1>6. pc' # "idle" => cur' \in Mods BY <1>1 DEF Stage, Holding
<1>7. IsFiniteSet(Pending)
  <2>1. CASE pc \in {"unwind", "ctor", "rest"}
    <3>1. deps[cur] \in Seq(Dep) BY <2>1, <1>2, <1>5
    <3>2. Pending = {IF i = 0 THEN Main(cur) ELSE <<cur, deps[cur][i].lib>> :
                        i \in {0} \cup {j \in DOMAIN deps[cur] : deps[cur][j].manual}}
      BY <2>1 DEF Pending, LinkedImages, ImageAt, ToLink
    <3>3. QED BY <3>1, <3>2, ImagesFinite
  <2>2. CASE pc \notin {"unwind", "ctor", "rest"} BY <2>2, FS_EmptySet DEF Pending
  <2>3. QED BY <2>1, <2>2
<1>8. IsFiniteSet(Pending')
  <2>1. CASE pc' \in {"unwind", "ctor", "rest"}
    <3>1. deps'[cur'] \in Seq(Dep) BY <2>1, <1>3, <1>6
    <3>2. Pending' = {IF i = 0 THEN Main(cur') ELSE <<cur', deps'[cur'][i].lib>> :
                        i \in {0} \cup {j \in DOMAIN deps'[cur'] : deps'[cur'][j].manual}}
      BY <2>1 DEF Pending, LinkedImages, ImageAt, ToLink, Main
    <3>3. QED BY <3>1, <3>2, ImagesFinite DEF Main
  <2>2. CASE pc' \notin {"unwind", "ctor", "rest"} BY <2>2, FS_EmptySet DEF Pending
  <2>3. QED BY <2>1, <2>2
<1>9. QED BY <1>4, <1>7, <1>8, FS_Union

(* A module that is to be unloaded has been run whole or not at all.         *)
LEMMA RunBeforeUnload ==
  ASSUME IInv, pc = "fini", NEW i \in Constructed, ModuleOf(i) = cur
  PROVE  linked[cur] /\ i \in LinkedImages(cur)
<1>1. cur \in Holding /\ cur \in Mods BY DEF IInv, Stage, Holding
<1>2. i \in LinkedImages(cur) BY <1>1, Zenon DEF IInv, Built
<1>3. Main(cur) \in Constructed BY DEF IInv, Built
<1>4. linked[cur] BY <1>1, <1>3, Zenon DEF IInv, Built
<1>5. QED BY <1>2, <1>4

(* The device stays what it is.                                              *)
LEMMA WorldStays ==
  ASSUME IInv, Next
  PROVE  UNCHANGED world
<1>1. ResolveNeeded => UNCHANGED world BY Zenon DEF ResolveNeeded, LinkVarsInDeps
<1>2. (\E t \in Threads : AccessTls(t) \/ ThreadExit(t)) \/ Deinit => UNCHANGED world
  BY ThreadStepFrame
<1>3. LinkStep => UNCHANGED world
  BY Zenon DEF LinkStep, DepsDone, RegisterTls, TlsDone, ProcessRelocation, ImageDone,
     RelocsDone, RegisterUnwind, UnwindDone, StartWalk, WalkNext, WalkCalls, WalksDone,
     ConstructRest, ConstructMain, LinkVarsInDeps, InWalk, Stays
<1>4. QED
  BY <1>1, <1>2, <1>3, StepKinds, Zenon DEF StartLoad, FindEntry, StartRelease,
     RunDestructors, ReleaseDependency, ReleaseMain

(* What the registry of the unwinder and the unwinder know.                  *)
LEMMA UnwinderKeeps ==
  ASSUME IInv, Next
  PROVE  Unwinder'
<1>1. /\ backtrace \cup frames \subseteq Constructed \cup Pending
      /\ \A i \in backtrace : ~Unloaded(ModuleOf(i))
      /\ \A i \in frames : i \in backtrace \/ i \in Pending \/ i \in world.uncopied
                           \/ Cardinality(Constructed) > MaxCustomLibs
      /\ \/ frames \ world.uncopied \subseteq backtrace
         \/ Cardinality(Constructed \cup Pending) > MaxCustomLibs
  BY Zenon DEF IInv, Unwinder
<1>2. /\ IsFiniteSet(Constructed') /\ IsFiniteSet(Constructed' \cup Pending')
      /\ IsFiniteSet(Constructed \cup Pending)
  BY NotedFinite
<1>0. world' = world BY WorldStays
<1>3. /\ life \in [Mods -> {"none", "loading", "linked", "kept", "gone"}]
      /\ \A i \in Constructed : i \in Images
  BY DEF IInv, Types, Constructed, Range
<1>4. ASSUME UNCHANGED <<backtrace, frames>>, Constructed \subseteq Constructed',
             Constructed \cup Pending \subseteq Constructed' \cup Pending',
             Pending \subseteq Pending' \/ Constructed \cup Pending \subseteq Constructed',
             \A i \in backtrace : Unloaded(ModuleOf(i))' => Unloaded(ModuleOf(i))
      PROVE  Unwinder'
  <2>1. Cardinality(Constructed) > MaxCustomLibs => Cardinality(Constructed') > MaxCustomLibs
    BY <1>2, <1>4, StaysAbove
  <2>2. Cardinality(Constructed \cup Pending) > MaxCustomLibs =>
        Cardinality(Constructed' \cup Pending') > MaxCustomLibs
    BY <1>2, <1>4, StaysAbove
  <2>3. ASSUME NEW i \in frames
        PROVE  i \in backtrace \/ i \in Pending' \/ i \in world.uncopied
               \/ Cardinality(Constructed') > MaxCustomLibs
    <3>1. CASE Pending \subseteq Pending' BY <3>1, <1>1, <2>1
    <3>2. CASE Constructed \cup Pending \subseteq Constructed'
      <4>1. Cardinality(Constructed \cup Pending) > MaxCustomLibs =>
            Cardinality(Constructed') > MaxCustomLibs
        BY <3>2, <1>2, StaysAbove
      <4>2. QED BY <4>1, <1>1
    <3>3. QED BY <3>1, <3>2, <1>4
  <2>4. backtrace' \cup frames' \subseteq Constructed' \cup Pending' BY <1>1, <1>4
  <2>5. \A i \in backtrace' : ~Unloaded(ModuleOf(i))' BY <1>1, <1>4
  <2>6. \/ frames' \ world'.uncopied \subseteq backtrace'
        \/ Cardinality(Constructed' \cup Pending') > MaxCustomLibs
    BY <1>0, <1>1, <1>4, <2>2
  <2>7. \A i \in frames' :
          i \in backtrace' \/ i \in Pending' \/ i \in world'.uncopied
          \/ Cardinality(Constructed') > MaxCustomLibs
    BY <1>0, <1>4, <2>3
  <2>8. QED BY <2>4, <2>5, <2>6, <2>7, Zenon DEF Unwinder, ModuleOf
<1>5. ASSUME NEW imgs, frames' = frames \ (imgs \cap backtrace), backtrace' = backtrace \ imgs,
             Constructed' = Constructed, Pending = {}, Pending' = {},
             \A i \in backtrace : Unloaded(ModuleOf(i))' => Unloaded(ModuleOf(i)) \/ i \in imgs
      PROVE  Unwinder'
  <2>1. Constructed' \cup Pending' = Constructed \cup Pending BY <1>5
  <2>2. /\ backtrace' \cup frames' \subseteq Constructed' \cup Pending'
        /\ \A i \in backtrace' : ~Unloaded(ModuleOf(i))'
        /\ \A i \in frames' : i \in backtrace' \/ i \in world'.uncopied
                               \/ Cardinality(Constructed') > MaxCustomLibs
        /\ \/ frames' \ world'.uncopied \subseteq backtrace'
           \/ Cardinality(Constructed' \cup Pending') > MaxCustomLibs
    BY <1>0, <1>1, <1>5, <2>1
  <2>3. QED BY <2>2, Zenon DEF Unwinder, ModuleOf
<1>6. CASE LinkStep
  <2>1. /\ UNCHANGED <<cur, life, deps>>
        /\ pc \in Loading /\ pc' \in Loading \cup {"fini", "linked"}
        /\ pc' = "fini" => unload'
        /\ pc \in {"ctor", "rest"} => pc' \in {"ctor", "rest", "linked"}
        /\ pc' = "linked" <=> ConstructMain
    BY <1>6, LinkStepFrame
  <2>2. PICK c : c = cur /\ c = cur' BY <2>1
  <2>3. c \in Mods /\ c \in Holding BY <1>6, <2>2, ConstructedGrows
  <2>4. LinkedImages(c)' = LinkedImages(c) BY <2>1, SameImages
  <2>5. /\ Pending = IF pc \in {"unwind", "ctor", "rest"} THEN LinkedImages(c) ELSE {}
        /\ Pending' = IF pc' \in {"unwind", "ctor", "rest"} THEN LinkedImages(c) ELSE {}
    BY <2>2, <2>4, Zenon DEF Pending
  <2>6. pc # "release" /\ pc' # "release" BY <2>1 DEF Loading
  <2>7. \A m : Unloaded(m)' <=> Unloaded(m) BY <2>1, <2>6, UnloadedFrame
  <2>8. Constructed \subseteq Constructed'
    <3>1. CASE UNCHANGED Constructed BY <3>1
    <3>2. CASE \E p \in ToLink(cur) : Constructed' = Constructed \cup {ImageAt(cur, p)} BY <3>2
    <3>3. QED BY <3>1, <3>2, <1>6, ConstructedGrows
  <2>9. CASE RegisterUnwind /\ k \in ToLink(cur)
    <3> DEFINE img == ImageAt(c, k)
    <3>1. /\ pc = "unwind" /\ pc' = "unwind" /\ UNCHANGED ctorLog
          /\ frames' = frames \cup {img}
          /\ backtrace' = IF Cardinality(backtrace) < MaxCustomLibs /\ img \notin world.uncopied
                          THEN backtrace \cup {img} ELSE backtrace
      BY <2>2, <2>9, Zenon DEF RegisterUnwind, RegisterForBacktrace, RegisterEhFrames
    <3>2. Constructed' = Constructed BY <3>1, Zenon DEF Constructed
    <3>3. Pending' = Pending /\ Pending = LinkedImages(c) BY <2>5, <3>1
    <3>4. img \in Pending /\ ModuleOf(img) = c
      <4>1. k \in 0 .. Len(deps[c]) /\ k \in ToLink(c) BY <2>2, <2>3, <2>9, Layout DEF IInv
      <4>2. ModuleOf(img) = c BY <4>1, <2>3, Layout DEF IInv
      <4>3. QED BY <4>1, <4>2, <3>3 DEF LinkedImages
    <3>5. ~Unloaded(c) BY <2>2, <2>3, <2>6, NotUnloaded
    <3> HIDE DEF img
    <3>6. backtrace' \cup frames' \subseteq Constructed' \cup Pending'
      BY <1>1, <3>1, <3>2, <3>3, <3>4
    <3>7. \A i \in backtrace' : ~Unloaded(ModuleOf(i))' BY <1>1, <2>7, <3>1, <3>4, <3>5
    <3>8. \A i \in frames' :
              i \in backtrace' \/ i \in Pending' \/ i \in world'.uncopied
              \/ Cardinality(Constructed') > MaxCustomLibs
      <4>1. backtrace \subseteq backtrace' BY <3>1
      <4>2. QED BY <1>0, <4>1, <1>1, <3>1, <3>2, <3>3, <3>4
    <3>9. \/ frames' \ world'.uncopied \subseteq backtrace'
          \/ Cardinality(Constructed' \cup Pending') > MaxCustomLibs
      <4>1. CASE Cardinality(backtrace) < MaxCustomLibs \/ img \in backtrace
        BY <1>0, <4>1, <1>1, <3>1, <3>2, <3>3
      <4>2. CASE ~(Cardinality(backtrace) < MaxCustomLibs) /\ img \notin backtrace
        <5>1. backtrace \cup {img} \subseteq Constructed \cup Pending BY <1>1, <3>4
        <5>2. IsFiniteSet(backtrace) BY <1>2, <5>1, FS_Subset
        <5>3. /\ Cardinality(backtrace \cup {img}) = Cardinality(backtrace) + 1
              /\ Cardinality(backtrace) \in Nat
          BY <4>2, <5>2, FS_AddElement, FS_CardinalityType
        <5>4. Cardinality(backtrace \cup {img}) > MaxCustomLibs
          BY <4>2, <5>3, LinkerAssumption
        <5>5. Cardinality(Constructed \cup Pending) > MaxCustomLibs
          BY <1>2, <5>1, <5>4, StaysAbove
        <5>6. QED BY <5>5, <3>2, <3>3
      <4>3. QED BY <4>1, <4>2
    <3>10. QED BY <3>6, <3>7, <3>8, <3>9, Zenon DEF Unwinder, ModuleOf
  <2>10. CASE ~(RegisterUnwind /\ k \in ToLink(cur))
    <3>1. UNCHANGED <<backtrace, frames>>
      <4>1. CASE RegisterUnwind BY <2>10, <4>1, Zenon DEF RegisterUnwind
      <4>2. CASE ~RegisterUnwind
        BY <1>6, <4>2, Zenon DEF LinkStep, DepsDone, RegisterTls, TlsDone, ProcessRelocation,
           ImageDone, RelocsDone, UnwindDone, StartWalk, WalkNext, WalkCalls, WalksDone,
           ConstructRest, ConstructMain, LinkVarsInDeps, InWalk
      <4>3. QED BY <4>1, <4>2
    <3>2. CASE ConstructMain
      <4>1. LinkedImages(cur) \subseteq Constructed \cup {Main(cur)} /\ pc = "rest"
        BY <3>2, MainIsLast
      <4>2. Constructed' = Constructed \cup {Main(cur)}
        <5>1. PICK p \in ToLink(cur) :
                 Constructed' = Constructed \cup {ImageAt(cur, p)} /\ p = 0
          <6>1. ctorLog' # ctorLog
            <7>1. ctorLog \in Seq(Images) BY DEF IInv, Types
            <7>2. ctorLog' = Append(ctorLog, ImageAt(cur, 0))
              BY <3>2, Zenon DEF ConstructMain, CallConstructors
            <7>3. Len(Append(ctorLog, ImageAt(cur, 0))) = Len(ctorLog) + 1 BY <7>1
            <7>4. QED BY <7>1, <7>2, <7>3
          <6>2. QED BY <6>1, <3>2, <1>6, ConstructedGrows
        <5>2. QED BY <5>1 DEF ImageAt
      <4>3. Constructed \cup Pending \subseteq Constructed' BY <4>1, <4>2, <2>2, <2>5
      <4>4. QED BY <4>3, <1>4, <2>7, <2>8, <3>1
    <3>3. CASE ~ConstructMain
      <4>1. pc \in {"unwind", "ctor", "rest"} => pc' \in {"unwind", "ctor", "rest"}
        <5>1. pc' # "linked" BY <2>1, <3>3
        <5>2. CASE pc \in {"ctor", "rest"} BY <5>1, <5>2, <2>1
        <5>3. CASE pc = "unwind"
          BY <5>3, <1>6, Zenon DEF LinkStep, DepsDone, RegisterTls, TlsDone, ProcessRelocation,
             ImageDone, RelocsDone, RegisterUnwind, UnwindDone, StartWalk, WalkNext, WalkCalls,
             WalksDone, ConstructRest, ConstructMain
        <5>4. QED BY <5>2, <5>3
      <4>2. Pending \subseteq Pending' BY <4>1, <2>5
      <4>3. QED BY <4>2, <1>4, <2>7, <2>8, <3>1
    <3>4. QED BY <3>2, <3>3
  <2>11. QED BY <2>9, <2>10
<1>7. ASSUME UNCHANGED <<backtrace, frames, ctorLog>>, pc \notin {"unwind", "ctor", "rest"},
             pc' \notin {"unwind", "ctor", "rest"},
             \A i \in Constructed : Unloaded(ModuleOf(i))' => Unloaded(ModuleOf(i))
      PROVE  Unwinder'
  <2>1. Constructed' = Constructed BY <1>7, Zenon DEF Constructed
  <2>2. Pending = {} /\ Pending' = {} BY <1>7 DEF Pending
  <2>3. QED BY <2>1, <2>2, <1>1, <1>4, <1>7
<1>8. CASE StartLoad
  <2>1. UNCHANGED <<backtrace, frames, ctorLog>> /\ pc = "idle" BY <1>8, Zenon DEF StartLoad
  <2>2. PICK m \in Mods :
              /\ life[m] = "none"
              /\ \A x \in Mods : x # m => life'[x] = life[x]
              /\ \/ UNCHANGED <<pc, cur>>
                 \/ pc' = "deps"
    BY <1>8, StartLoadIs
  <2>3. ASSUME NEW i \in Constructed, Unloaded(ModuleOf(i))' PROVE Unloaded(ModuleOf(i))
    <3>1. ModuleOf(i) \in Mods /\ ModuleOf(i) # m
      <4>1. life[ModuleOf(i)] # "none" BY Zenon DEF IInv, Built
      <4>2. QED BY <4>1, <2>2, <1>3, ImagePair
    <3>2. life'[ModuleOf(i)] = "gone" BY <2>1, <2>2, <2>3 DEF Unloaded
    <3>3. QED BY <3>1, <3>2, <2>2, Zenon DEF Unloaded
  <2>4. QED BY <2>1, <2>2, <2>3, <1>7
<1>9. CASE ResolveNeeded
  <2>1. /\ UNCHANGED <<backtrace, frames, ctorLog, life, cur>>
        /\ pc = "deps" /\ pc' \in {"deps", "fini"}
    BY <1>9, ResolveFrame
  <2>2. \A m : Unloaded(m)' <=> Unloaded(m) BY <2>1, UnloadedFrame
  <2>3. QED BY <2>1, <2>2, <1>7
<1>10. CASE FindEntry
  <2>1. /\ UNCHANGED <<backtrace, frames, ctorLog>> /\ pc = "linked" /\ pc' \in {"idle", "fini"}
        /\ UNCHANGED life \/ life' = [life EXCEPT ![cur] = "linked"]
    BY <1>10 DEF FindEntry, LinkFails
  <2>2. \A m \in Mods : life'[m] = "gone" => life[m] = "gone" BY <2>1, <1>3
  <2>3. \A m \in Mods : Unloaded(m)' => Unloaded(m) BY <2>1, <2>2 DEF Unloaded
  <2>4. \A i \in Constructed : Unloaded(ModuleOf(i))' => Unloaded(ModuleOf(i))
    BY <2>3, <1>3, ImagePair
  <2>5. QED BY <2>1, <2>4, <1>7
<1>11. CASE StartRelease
  <2>1. /\ UNCHANGED <<backtrace, frames, ctorLog, life>>
        /\ pc = "idle" /\ pc' \in {"fini", "release"}
        /\ pc' = "release" => ~unload'
    BY <1>11 DEF StartRelease
  <2>2. \A m : Unloaded(m)' <=> Unloaded(m) BY <2>1, UnloadedFrame
  <2>3. QED BY <2>1, <2>2, <1>7
<1>12. CASE RunDestructors
  <2> DEFINE imgs == IF linked[cur] THEN LinkedImages(cur) ELSE {}
  <2>1. /\ pc = "fini" /\ pc' = "release"
        /\ UNCHANGED <<ctorLog, life, unload, cur>>
        /\ frames' = frames \ (imgs \cap backtrace) /\ backtrace' = backtrace \ imgs
    BY <1>12, Zenon DEF RunDestructors, UnregisterUnwind
  <2>2. Constructed' = Constructed BY <2>1, Zenon DEF Constructed
  <2>3. Pending = {} /\ Pending' = {} BY <2>1 DEF Pending
  <2>4. ASSUME NEW i \in backtrace, Unloaded(ModuleOf(i))'
        PROVE  Unloaded(ModuleOf(i)) \/ i \in imgs
    <3>1. i \in Constructed BY <1>1, <2>3
    <3>2. CASE ModuleOf(i) = cur BY <3>1, <3>2, <2>1, RunBeforeUnload
    <3>3. CASE ModuleOf(i) # cur BY <3>3, <2>1, <2>4 DEF Unloaded
    <3>4. QED BY <3>2, <3>3
  <2> HIDE DEF imgs
  <2>5. QED BY <2>1, <2>2, <2>3, <2>4, <1>5
<1>13. CASE ReleaseDependency
  <2>1. UNCHANGED <<backtrace, frames, ctorLog, life, pc, cur, unload>> /\ pc = "release"
    BY <1>13, Zenon DEF ReleaseDependency
  <2>2. \A m : Unloaded(m)' <=> Unloaded(m) BY <2>1, UnloadedFrame
  <2>3. QED BY <2>1, <2>2, <1>7
<1>14. CASE ReleaseMain
  <2> DEFINE imgs == IF ~unload /\ linked[cur] THEN {Main(cur)} ELSE {}
  <2>1. /\ pc = "release" /\ pc' = "idle" /\ UNCHANGED ctorLog
        /\ life' = [life EXCEPT ![cur] = IF unload THEN "gone" ELSE "kept"]
        /\ IF ~unload /\ linked[cur]
           THEN /\ frames' = frames \ ({Main(cur)} \cap backtrace)
                 /\ backtrace' = backtrace \ {Main(cur)}
           ELSE UNCHANGED <<frames, backtrace>>
    BY <1>14, Zenon DEF ReleaseMain, UnregisterUnwind
  <2>2. frames' = frames \ (imgs \cap backtrace) /\ backtrace' = backtrace \ imgs BY <2>1
  <2>3. Constructed' = Constructed BY <2>1, Zenon DEF Constructed
  <2>4. Pending = {} /\ Pending' = {} BY <2>1 DEF Pending
  <2>5. cur \in Mods BY <2>1 DEF IInv, Stage, Holding
  <2>6. ASSUME NEW m \in Mods, Unloaded(m)' PROVE Unloaded(m)
    <3>1. life'[m] = "gone" BY <2>1, <2>6 DEF Unloaded
    <3>2. CASE m = cur
      <4>1. unload BY <3>1, <3>2, <2>1, <2>5, <1>3
      <4>2. QED BY <4>1, <3>2, <2>1 DEF Unloaded
    <3>3. CASE m # cur BY <3>1, <3>3, <2>1, <2>5, <1>3 DEF Unloaded
    <3>4. QED BY <3>2, <3>3
  <2>7. \A i \in backtrace : ModuleOf(i) \in Mods BY <1>1, <2>4, <1>3, ImagePair
  <2>8. \A i \in backtrace : Unloaded(ModuleOf(i))' => Unloaded(ModuleOf(i)) BY <2>6, <2>7
  <2> HIDE DEF imgs
  <2>9. QED BY <2>2, <2>3, <2>4, <2>8, <1>5
<1>15. CASE (\E t \in Threads : AccessTls(t) \/ ThreadExit(t)) \/ Deinit
  <2>1. UNCHANGED <<pc, cur, deps, unload, life, ctorLog, backtrace, frames>>
    BY <1>15, ThreadStepFrame
  <2>2. \A m : Unloaded(m)' <=> Unloaded(m) BY <2>1, UnloadedFrame
  <2>3. Constructed' = Constructed BY <2>1, Zenon DEF Constructed
  <2>4. \A m : LinkedImages(m)' = LinkedImages(m) BY <2>1, SameImages
  <2>5. Pending' = Pending BY <2>1, <2>4, Zenon DEF Pending
  <2>6. QED BY <2>1, <2>2, <2>3, <2>5, <1>4
<1>16. QED BY <1>6, <1>8, <1>9, <1>10, <1>11, <1>12, <1>13, <1>14, <1>15, StepKinds

(* What is appended to the log comes after what stands there.                *)
LEMMA PrecedesAppend ==
  ASSUME ctorLog \in Seq(Images), NEW x \in Images, x \notin Constructed,
         ctorLog' = Append(ctorLog, x)
  PROVE  /\ \A a, b : Precedes(a, b) /\ a # x /\ b # x =>
               \A p, q \in DOMAIN ctorLog' : ctorLog'[p] = a /\ ctorLog'[q] = b => p < q
         /\ \A a : a # x =>
               \A p, q \in DOMAIN ctorLog' : ctorLog'[p] = a /\ ctorLog'[q] = x => p < q
         /\ (\A p, q \in DOMAIN ctorLog : ctorLog[p] = ctorLog[q] => p = q) =>
               \A p, q \in DOMAIN ctorLog' : ctorLog'[p] = ctorLog'[q] => p = q
<1> DEFINE n == Len(ctorLog)
<1>1. /\ n \in Nat /\ DOMAIN ctorLog = 1 .. n /\ DOMAIN ctorLog' = 1 .. n + 1
      /\ ctorLog'[n + 1] = x
      /\ \A p \in 1 .. n : ctorLog'[p] = ctorLog[p]
  OBVIOUS
<1>2. \A p \in 1 .. n : ctorLog[p] # x BY <1>1 DEF Constructed, Range
<1>3. \A p \in DOMAIN ctorLog' : p \in 1 .. n \/ p = n + 1 BY <1>1
<1>4. \A p \in 1 .. n : p < n + 1 BY <1>1
<1> HIDE DEF n
<1>5. ASSUME NEW a, NEW b, Precedes(a, b), a # x, b # x,
             NEW p \in DOMAIN ctorLog', NEW q \in DOMAIN ctorLog',
             ctorLog'[p] = a, ctorLog'[q] = b
      PROVE  p < q
  <2>1. p \in 1 .. n /\ q \in 1 .. n BY <1>1, <1>3, <1>5
  <2>2. QED BY <2>1, <1>1, <1>5 DEF Precedes
<1>6. ASSUME NEW a, a # x, NEW p \in DOMAIN ctorLog', NEW q \in DOMAIN ctorLog',
             ctorLog'[p] = a, ctorLog'[q] = x
      PROVE  p < q
  <2>1. p \in 1 .. n /\ q = n + 1 BY <1>1, <1>2, <1>3, <1>6
  <2>2. QED BY <2>1, <1>4
<1>7. ASSUME \A p, q \in DOMAIN ctorLog : ctorLog[p] = ctorLog[q] => p = q,
             NEW p \in DOMAIN ctorLog', NEW q \in DOMAIN ctorLog', ctorLog'[p] = ctorLog'[q]
      PROVE  p = q
  <2>1. CASE p = n + 1 BY <2>1, <1>1, <1>2, <1>3, <1>7
  <2>2. CASE p \in 1 .. n
    <3>1. q \in 1 .. n BY <2>2, <1>1, <1>2, <1>3, <1>7
    <3>2. QED BY <2>2, <3>1, <1>1, <1>7
  <2>3. QED BY <2>1, <2>2, <1>3
<1>8. QED BY <1>5, <1>6, <1>7

(* What the walk looks at stays while the module in hand does.               *)
LEMMA WalkSame ==
  ASSUME UNCHANGED <<cur, deps, world>>
  PROVE  /\ ManualAt(cur)' = ManualAt(cur)
         /\ \A i : LibAt(i)' = LibAt(i) /\ ImageAt(cur, i)' = ImageAt(cur, i)
         /\ \A i, j : NeedsAt(i, j)' <=> NeedsAt(i, j)
         /\ \A i : NoOrder(i)' <=> NoOrder(i)
<1>1. ManualAt(cur)' = ManualAt(cur) BY Zenon DEF ManualAt
<1>2. \A i : LibAt(i)' = LibAt(i) BY Zenon DEF LibAt
<1>3. \A i : ImageAt(cur, i)' = ImageAt(cur, i) BY Zenon DEF ImageAt, Main
<1>4. \A i, j : NeedsAt(i, j)' <=> NeedsAt(i, j) BY <1>2, Zenon DEF NeedsAt
<1>5. \A i : NoOrder(i)' <=> NoOrder(i) BY <1>1, <1>4, Zenon DEF NoOrder
<1>6. QED BY <1>1, <1>2, <1>3, <1>4, <1>5

(* The stack after a step of the walk, in terms of the module in hand.       *)
LEMMA StackFrom ==
  ASSUME UNCHANGED <<cur, deps, world>>,
         \A p \in 1 .. Len(stack') :
           /\ stack'[p].dep \in ManualAt(cur)
           /\ visit'[stack'[p].dep] = 1
           /\ \A q \in 1 .. Len(stack') : stack'[p].dep = stack'[q].dep => p = q
           /\ \A j \in 1 .. (IF p = Len(stack') THEN stack'[p].next - 1 ELSE stack'[p].next - 2) :
                j <= Len(world.needed[LibAt(stack'[p].dep)]) =>
                \A i \in ManualAt(cur) :
                  LibAt(i) = world.needed[LibAt(stack'[p].dep)][j] => visit'[i] = 2
           /\ p < Len(stack') =>
              /\ stack'[p].next - 1 \in 1 .. Len(world.needed[LibAt(stack'[p].dep)])
              /\ LibAt(stack'[p + 1].dep) = world.needed[LibAt(stack'[p].dep)][stack'[p].next - 1]
  PROVE  Stack'
<1> DEFINE Good(w, d) ==
      \A p \in 1 .. Len(stack') :
        /\ stack'[p].dep \in {x \in DOMAIN d : d[x].manual}
        /\ visit'[stack'[p].dep] = 1
        /\ \A q \in 1 .. Len(stack') : stack'[p].dep = stack'[q].dep => p = q
        /\ \A j \in 1 .. (IF p = Len(stack') THEN stack'[p].next - 1 ELSE stack'[p].next - 2) :
             j <= Len(w.needed[d[stack'[p].dep].lib]) =>
             \A i \in {x \in DOMAIN d : d[x].manual} :
               d[i].lib = w.needed[d[stack'[p].dep].lib][j] => visit'[i] = 2
        /\ p < Len(stack') =>
           /\ stack'[p].next - 1 \in 1 .. Len(w.needed[d[stack'[p].dep].lib])
           /\ d[stack'[p + 1].dep].lib = w.needed[d[stack'[p].dep].lib][stack'[p].next - 1]
<1>1. Good(world, deps[cur]) BY Zenon DEF LibAt, ManualAt
<1> HIDE DEF Good
<1>2. Good(world', deps'[cur']) BY <1>1
<1>3. QED BY <1>2, Zenon DEF Good, Stack, Done, LibAt, ManualAt

(* A step that leaves the walk alone.                                        *)
LEMMA StackSame ==
  ASSUME Stack, UNCHANGED <<cur, deps, world, stack, visit>>
  PROVE  Stack'
<1> DEFINE Good(s, v) ==
      \A p \in 1 .. Len(s) :
        /\ s[p].dep \in ManualAt(cur)
        /\ v[s[p].dep] = 1
        /\ \A q \in 1 .. Len(s) : s[p].dep = s[q].dep => p = q
        /\ \A j \in 1 .. (IF p = Len(s) THEN s[p].next - 1 ELSE s[p].next - 2) :
             j <= Len(world.needed[LibAt(s[p].dep)]) =>
             \A i \in ManualAt(cur) :
               LibAt(i) = world.needed[LibAt(s[p].dep)][j] => v[i] = 2
        /\ p < Len(s) =>
           /\ s[p].next - 1 \in 1 .. Len(world.needed[LibAt(s[p].dep)])
           /\ LibAt(s[p + 1].dep) = world.needed[LibAt(s[p].dep)][s[p].next - 1]
<1>1. Good(stack, visit) BY Zenon DEF Stack, Done
<1> HIDE DEF Good
<1>2. Good(stack', visit') BY <1>1
<1>3. QED BY <1>2, StackFrom DEF Good

(* The whole of it.                                                          *)
LEMMA WalkFrom ==
  ASSUME UNCHANGED <<cur, deps, world>>, Stack',
         pc' \in {"ctor", "rest"}, pc' # "ctor" => stack' = <<>>, k' >= 1,
         \A i \in 1 .. MaxDeps : visit'[i] # 0 => i \in ManualAt(cur),
         \A i \in ManualAt(cur) : visit'[i] = 2 <=> ImageAt(cur, i) \in Constructed',
         \A i \in ManualAt(cur) : i < k' \/ pc' = "rest" => visit'[i] # 0,
         \A i \in ManualAt(cur) : i < k' /\ pc' = "rest" => visit'[i] = 2,
         \A i \in ManualAt(cur) :
           visit'[i] = 1 => (\E p \in 1 .. Len(stack') : stack'[p].dep = i) \/ NoOrder(i),
         \A i \in ManualAt(cur) : visit'[i] = 2 =>
           NoOrder(i) \/ \A j \in ManualAt(cur) : NeedsAt(i, j) =>
             /\ visit'[j] = 2
             /\ \A p, q \in DOMAIN ctorLog' :
                  ctorLog'[p] = ImageAt(cur, j) /\ ctorLog'[q] = ImageAt(cur, i) => p < q
  PROVE  Walk'
<1>1. /\ ManualAt(cur)' = ManualAt(cur)
      /\ \A i : LibAt(i)' = LibAt(i) /\ ImageAt(cur, i)' = ImageAt(cur, i)
      /\ \A i, j : NeedsAt(i, j)' <=> NeedsAt(i, j)
      /\ \A i : NoOrder(i)' <=> NoOrder(i)
  BY WalkSame
<1>2. pc' \notin {"ctor", "rest"} => visit' = [i \in 1 .. MaxDeps |-> 0] OBVIOUS
<1>3. \A i \in ManualAt(cur)' : visit'[i] = 2 <=> ImageAt(cur, i)' \in Constructed' BY <1>1
<1>4. \A i \in ManualAt(cur)' : visit'[i] = 1 => OnStack(i)' \/ NoOrder(i)'
  BY <1>1, Zenon DEF OnStack
<1>5. \A i \in ManualAt(cur)' : visit'[i] = 2 =>
        NoOrder(i)' \/ \A j \in ManualAt(cur)' : NeedsAt(i, j)' =>
                         visit'[j] = 2 /\ Precedes(ImageAt(cur, j), ImageAt(cur, i))'
  BY <1>1 DEF Precedes
<1>6. /\ \A i \in 1 .. MaxDeps : visit'[i] # 0 => i \in ManualAt(cur)'
      /\ \A i \in ManualAt(cur)' : i < k' \/ pc' = "rest" => visit'[i] # 0
      /\ \A i \in ManualAt(cur)' : i < k' /\ pc' = "rest" => visit'[i] = 2
  BY <1>1
<1>7. QED BY <1>2, <1>3, <1>4, <1>5, <1>6, Zenon DEF Walk

(* A dependency's constructors are called, once all it needs have been, or   *)
(* when there is no order for it.                                            *)
LEMMA DependencyCalled ==
  ASSUME IInv, UNCHANGED <<cur, deps, world>>, pc \in {"ctor", "rest"},
         NEW t \in ManualAt(cur), visit[t] # 2,
         visit' = [visit EXCEPT ![t] = 2],
         ctorLog' = Append(ctorLog, ImageAt(cur, t)),
         NoOrder(t) \/ \A j \in ManualAt(cur) : NeedsAt(t, j) => visit[j] = 2
  PROVE  /\ visit'[t] = 2 /\ \A i \in 1 .. MaxDeps : i # t => visit'[i] = visit[i]
         /\ \A i \in 1 .. MaxDeps : visit'[i] # 0 => i \in ManualAt(cur)
         /\ \A i \in ManualAt(cur) : visit'[i] = 2 <=> ImageAt(cur, i) \in Constructed'
         /\ \A i \in ManualAt(cur) : visit'[i] = 2 =>
              NoOrder(i) \/ \A j \in ManualAt(cur) : NeedsAt(i, j) =>
                /\ visit'[j] = 2
                /\ \A p, q \in DOMAIN ctorLog' :
                     ctorLog'[p] = ImageAt(cur, j) /\ ctorLog'[q] = ImageAt(cur, i) => p < q
<1>1. /\ cur \in Mods /\ Types /\ Named BY DEF IInv, Stage, Holding
<1>2. /\ visit \in [1 .. MaxDeps -> 0 .. 2] /\ ctorLog \in Seq(Images) BY <1>1 DEF Types
<1>3. /\ \A i \in 1 .. MaxDeps : visit[i] # 0 => i \in ManualAt(cur)
      /\ \A i \in ManualAt(cur) : visit[i] = 2 <=> ImageAt(cur, i) \in Constructed
      /\ \A i \in ManualAt(cur) : visit[i] = 2 =>
           NoOrder(i) \/ \A j \in ManualAt(cur) : NeedsAt(i, j) =>
                            visit[j] = 2 /\ Precedes(ImageAt(cur, j), ImageAt(cur, i))
  BY Zenon DEF IInv, Walk
<1>4. \A i \in ManualAt(cur) : i \in 1 .. MaxDeps /\ i \in 0 .. Len(deps[cur]) /\ i # 0
  BY <1>1, Layout, LinkerAssumption
<1>5. visit'[t] = 2 /\ \A i \in 1 .. MaxDeps : i # t => visit'[i] = visit[i] BY <1>2, <1>4
<1> DEFINE x == ImageAt(cur, t)
<1>6. x \in Images /\ x \notin Constructed BY <1>1, <1>3, <1>4, Layout
<1>7. \A i \in ManualAt(cur) : ImageAt(cur, i) = x => i = t BY <1>1, <1>4, Layout
<1>8. Constructed' = Constructed \cup {x}
  <2>1. Range(Append(ctorLog, x)) = Range(ctorLog) \cup {x} BY <1>2, <1>6, RangeAppend
  <2>2. QED BY <2>1, Zenon DEF Constructed
<1>9. /\ \A a, b : Precedes(a, b) /\ a # x /\ b # x =>
           \A p, q \in DOMAIN ctorLog' : ctorLog'[p] = a /\ ctorLog'[q] = b => p < q
      /\ \A a : a # x =>
           \A p, q \in DOMAIN ctorLog' : ctorLog'[p] = a /\ ctorLog'[q] = x => p < q
  BY <1>2, <1>6, PrecedesAppend
<1> HIDE DEF x
<1>10. \A i \in 1 .. MaxDeps : visit'[i] # 0 => i \in ManualAt(cur) BY <1>3, <1>5
<1>11. \A i \in ManualAt(cur) : visit'[i] = 2 <=> ImageAt(cur, i) \in Constructed'
  BY <1>3, <1>4, <1>5, <1>7, <1>8 DEF x
<1>12. ASSUME NEW i \in ManualAt(cur), visit'[i] = 2, ~NoOrder(i),
              NEW j \in ManualAt(cur), NeedsAt(i, j)
       PROVE  /\ visit'[j] = 2
              /\ \A p, q \in DOMAIN ctorLog' :
                   ctorLog'[p] = ImageAt(cur, j) /\ ctorLog'[q] = ImageAt(cur, i) => p < q
  <2>1. CASE i = t
    <3>1. visit[j] = 2 /\ j # t BY <2>1, <1>12
    <3>2. ImageAt(cur, j) # x /\ ImageAt(cur, i) = x BY <2>1, <3>1, <1>7 DEF x
    <3>3. visit'[j] = 2 BY <3>1, <1>4, <1>5
    <3>4. QED BY <3>2, <3>3, <1>9
  <2>2. CASE i # t
    <3>1. visit[i] = 2 BY <2>2, <1>4, <1>5, <1>12
    <3>2. visit[j] = 2 /\ Precedes(ImageAt(cur, j), ImageAt(cur, i)) BY <3>1, <1>3, <1>12
    <3>3. j # t /\ visit'[j] = 2 BY <3>2, <1>4, <1>5
    <3>4. ImageAt(cur, j) # x /\ ImageAt(cur, i) # x BY <2>2, <3>3, <1>7
    <3>5. QED BY <3>2, <3>3, <3>4, <1>9
  <2>3. QED BY <2>1, <2>2
<1>13. QED BY <1>5, <1>10, <1>11, <1>12

(* The names a manual dependency needs.                                      *)
LEMMA NamesAre ==
  ASSUME IInv, pc # "idle", NEW i \in ManualAt(cur)
  PROVE  /\ LibAt(i) \in Libs /\ world.needed[LibAt(i)] \in Seq(Libs)
         /\ Len(world.needed[LibAt(i)]) \in Nat
         /\ \A j : NeedsAt(i, j) <=> \E q \in 1 .. Len(world.needed[LibAt(i)]) :
                                        world.needed[LibAt(i)][q] = LibAt(j)
         /\ \A j \in ManualAt(cur) : LibAt(i) = LibAt(j) => i = j
         /\ i \in 1 .. MaxDeps
<1>1. cur \in Mods /\ Types /\ Named BY DEF IInv, Stage, Holding
<1>2. i \in 1 .. Len(deps[cur]) /\ deps[cur] \in Seq(Dep) /\ Len(deps[cur]) <= MaxDeps
  BY <1>1, Layout DEF ManualAt
<1>3. LibAt(i) \in Libs
  <2>1. deps[cur][i] \in Dep BY <1>2
  <2>2. QED BY <2>1 DEF LibAt, Dep
<1>4. world \in Worlds BY <1>1 DEF Types, TypeOK
<1>5. world.needed \in [Files -> Seq(Libs)] BY <1>4, WorldAssumption
<1>6. world.needed[LibAt(i)] \in Seq(Libs) BY <1>3, <1>5 DEF Files
<1>7. \A j \in ManualAt(cur) : LibAt(i) = LibAt(j) => i = j
  BY <1>1 DEF Named, ManualAt, LibAt
<1>8. \A j : NeedsAt(i, j) <=> \E q \in 1 .. Len(world.needed[LibAt(i)]) :
                                  world.needed[LibAt(i)][q] = LibAt(j)
  BY <1>6 DEF NeedsAt, Range
<1>9. i \in 1 .. MaxDeps BY <1>1, <1>2, Layout, LinkerAssumption
<1>10. QED BY <1>3, <1>6, <1>7, <1>8, <1>9

(* The innermost call.                                                       *)
LEMMA TopIs ==
  ASSUME IInv, pc = "ctor", stack # <<>>
  PROVE  /\ stack \in Seq(Frame) /\ Len(stack) \in Nat /\ Len(stack) >= 1
         /\ Top = stack[Len(stack)] /\ Top \in Frame /\ Top.dep \in ManualAt(cur)
         /\ visit[Top.dep] = 1 /\ NamesBelow = world.needed[LibAt(Top.dep)]
         /\ Done(Len(stack)) = Top.next - 1
         /\ \A p \in 1 .. Len(stack) : /\ stack[p].next \in Nat \ {0}
                                       /\ stack[p].dep \in ManualAt(cur)
<1>1. stack \in Seq(Frame) /\ Stack BY DEF IInv, Types, Walk
<1>2. Len(stack) \in Nat /\ Len(stack) >= 1 /\ Len(stack) \in 1 .. Len(stack) BY <1>1
<1>3. \A p \in 1 .. Len(stack) : stack[p] \in Frame BY <1>1
<1>4. Top = stack[Len(stack)] /\ Top \in Frame BY <1>2, <1>3 DEF Top
<1>5. Top.dep \in ManualAt(cur) /\ visit[Top.dep] = 1 BY <1>1, <1>2, <1>4 DEF Stack
<1>6. NamesBelow = world.needed[LibAt(Top.dep)] BY DEF NamesBelow, LibAt
<1>7. Done(Len(stack)) = Top.next - 1 BY <1>4 DEF Done
<1>8. \A p \in 1 .. Len(stack) : stack[p].next \in Nat \ {0} /\ stack[p].dep \in ManualAt(cur)
  BY <1>1, <1>3 DEF Frame, Stack
<1>9. QED BY <1>1, <1>2, <1>4, <1>5, <1>6, <1>7, <1>8

(* call_manual_constructors has looked at all the names, and calls.          *)
LEMMA WalkCallsKeeps ==
  ASSUME IInv, WalkCalls
  PROVE  Walk'
<1> DEFINE t == Top.dep
           n == Len(stack)
           Need(p) == world.needed[LibAt(stack[p].dep)]
<1>1. /\ pc = "ctor" /\ stack # <<>> /\ UNCHANGED <<pc, k, cur, deps, world>>
      /\ Top.next > Len(NamesBelow)
      /\ ctorLog' = Append(ctorLog, ImageAt(cur, t))
      /\ visit' = [visit EXCEPT ![t] = 2]
      /\ stack' = SubSeq(stack, 1, n - 1)
  BY Zenon DEF WalkCalls, CallConstructors, InWalk
<1>2. /\ stack \in Seq(Frame) /\ n \in Nat /\ n >= 1 /\ n \in 1 .. n
      /\ stack[n].dep = t /\ stack[n].next = Top.next /\ stack[n].next \in Nat \ {0}
      /\ t \in ManualAt(cur) /\ visit[t] = 1 /\ NamesBelow = Need(n)
      /\ \A p \in 1 .. n : stack[p].next \in Nat \ {0} /\ stack[p].dep \in ManualAt(cur)
  BY <1>1, TopIs
<1>3. /\ t \in 1 .. MaxDeps /\ Len(Need(n)) \in Nat
      /\ \A j : NeedsAt(t, j) <=> \E q \in 1 .. Len(Need(n)) : Need(n)[q] = LibAt(j)
      /\ \A j \in ManualAt(cur) : LibAt(j) = LibAt(t) => j = t
  BY <1>1, <1>2, NamesAre
<1>4. \A p \in 1 .. n :
        /\ visit[stack[p].dep] = 1
        /\ \A q \in 1 .. n : stack[p].dep = stack[q].dep => p = q
        /\ \A j \in 1 .. (IF p = n THEN stack[p].next - 1 ELSE stack[p].next - 2) :
             j <= Len(Need(p)) =>
               \A i \in ManualAt(cur) : LibAt(i) = Need(p)[j] => visit[i] = 2
        /\ p < n => /\ stack[p].next - 1 \in 1 .. Len(Need(p))
                    /\ LibAt(stack[p + 1].dep) = Need(p)[stack[p].next - 1]
  BY Zenon DEF IInv, Walk, Stack, Done
<1> HIDE DEF t, n, Need
<1>5. \A j \in 1 .. stack[n].next - 1 : j <= Len(Need(n)) =>
         \A i \in ManualAt(cur) : LibAt(i) = Need(n)[j] => visit[i] = 2
  BY <1>2, <1>4
<1>6. \A j \in ManualAt(cur) : NeedsAt(t, j) => visit[j] = 2
  <2>1. ASSUME NEW j \in ManualAt(cur), NeedsAt(t, j) PROVE visit[j] = 2
    <3>1. PICK q \in 1 .. Len(Need(n)) : Need(n)[q] = LibAt(j) BY <2>1, <1>3
    <3>2. q \in 1 .. stack[n].next - 1 BY <1>1, <1>2, <1>3
    <3>3. q \in Nat /\ q <= Len(Need(n)) BY <3>1, <1>3
    <3>4. QED BY <3>1, <3>2, <3>3, <1>5
  <2>2. QED BY <2>1
<1>7. /\ visit'[t] = 2 /\ \A i \in 1 .. MaxDeps : i # t => visit'[i] = visit[i]
      /\ \A i \in 1 .. MaxDeps : visit'[i] # 0 => i \in ManualAt(cur)
      /\ \A i \in ManualAt(cur) : visit'[i] = 2 <=> ImageAt(cur, i) \in Constructed'
      /\ \A i \in ManualAt(cur) : visit'[i] = 2 =>
           NoOrder(i) \/ \A j \in ManualAt(cur) : NeedsAt(i, j) =>
             /\ visit'[j] = 2
             /\ \A p, q \in DOMAIN ctorLog' :
                  ctorLog'[p] = ImageAt(cur, j) /\ ctorLog'[q] = ImageAt(cur, i) => p < q
  <2>1. pc \in {"ctor", "rest"} /\ visit[t] # 2 BY <1>1, <1>2
  <2>2. QED BY <2>1, <1>1, <1>2, <1>6, DependencyCalled, Zenon
<1>8. \A i \in ManualAt(cur) : i \in 1 .. MaxDeps BY <1>1, NamesAre
<1>9. Len(stack') = n - 1 /\ \A p \in 1 .. n - 1 : stack'[p] = stack[p]
  <2>1. \A i \in 1 .. n - 1 : stack[i] \in Frame BY <1>2 DEF n
  <2>2. 1 \in Int /\ n - 1 \in Int BY <1>2
  <2>3. /\ Len(SubSeq(stack, 1, n - 1)) = IF 1 <= n - 1 THEN n - 1 - 1 + 1 ELSE 0
        /\ \A i \in 1 .. n - 1 - 1 + 1 : SubSeq(stack, 1, n - 1)[i] = stack[1 + i - 1]
    BY <2>1, <2>2, SubSeqProperties
  <2>4. Len(stack') = n - 1 BY <2>3, <1>1, <1>2
  <2>5. ASSUME NEW p \in 1 .. n - 1 PROVE stack'[p] = stack[p]
    <3>1. p \in 1 .. n - 1 - 1 + 1 /\ 1 + p - 1 = p BY <1>2
    <3>2. QED BY <3>1, <2>3, <1>1
  <2>6. QED BY <2>4, <2>5
<1>10. ASSUME NEW p \in 1 .. Len(stack')
      PROVE  /\ stack'[p].dep \in ManualAt(cur)
             /\ visit'[stack'[p].dep] = 1
             /\ \A q \in 1 .. Len(stack') : stack'[p].dep = stack'[q].dep => p = q
             /\ \A j \in 1 .. (IF p = Len(stack') THEN stack'[p].next - 1
                               ELSE stack'[p].next - 2) :
                  j <= Len(world.needed[LibAt(stack'[p].dep)]) =>
                  \A i \in ManualAt(cur) :
                    LibAt(i) = world.needed[LibAt(stack'[p].dep)][j] => visit'[i] = 2
             /\ p < Len(stack') =>
                  /\ stack'[p].next - 1 \in 1 .. Len(world.needed[LibAt(stack'[p].dep)])
                  /\ LibAt(stack'[p + 1].dep)
                       = world.needed[LibAt(stack'[p].dep)][stack'[p].next - 1]
  <2>1. p \in 1 .. n /\ p # n /\ p < n /\ stack'[p] = stack[p] /\ stack[p].dep \in ManualAt(cur)
    BY <1>2, <1>9
  <2>2. stack[p].dep # t BY <2>1, <1>2, <1>4
  <2>3. visit'[stack[p].dep] = 1 BY <2>1, <2>2, <1>4, <1>7, <1>8
  <2>4. \A q \in 1 .. n - 1 : q \in 1 .. n BY <1>2
  <2>5. \A q \in 1 .. Len(stack') : stack'[p].dep = stack'[q].dep => p = q
    BY <2>1, <2>4, <1>4, <1>9
  <2>6. ASSUME NEW j \in 1 .. (IF p = n - 1 THEN stack[p].next - 1 ELSE stack[p].next - 2),
               j <= Len(Need(p)), NEW i \in ManualAt(cur), LibAt(i) = Need(p)[j]
        PROVE  visit'[i] = 2
    <3>1. CASE i = t BY <3>1, <1>7
    <3>2. CASE i # t /\ j \in 1 .. stack[p].next - 2
      <4>1. visit[i] = 2 BY <3>2, <2>1, <2>6, <1>4
      <4>2. QED BY <4>1, <3>2, <1>7, <1>8
    <3>3. CASE i # t /\ j \notin 1 .. stack[p].next - 2
      <4>1. p = n - 1 /\ j = stack[p].next - 1 BY <3>3, <2>1, <2>6, <1>2
      <4>2. p + 1 = n BY <4>1, <1>2
      <4>3. LibAt(t) = Need(p)[j] BY <4>1, <4>2, <2>1, <1>2, <1>4
      <4>4. QED BY <4>3, <3>3, <2>6, <1>3
    <3>4. QED BY <3>1, <3>2, <3>3
  <2>7. p < n - 1 => /\ stack[p].next - 1 \in 1 .. Len(Need(p))
                     /\ stack'[p + 1] = stack[p + 1]
                     /\ LibAt(stack[p + 1].dep) = Need(p)[stack[p].next - 1]
    <3>1. p < n - 1 => p + 1 \in 1 .. n - 1 BY <2>1, <1>2
    <3>2. QED BY <3>1, <2>1, <1>4, <1>9
  <2>8. QED BY <2>1, <2>3, <2>5, <2>6, <2>7, <1>9 DEF Need
<1>11. Stack' BY <1>1, <1>10, StackFrom
<1>12. ASSUME NEW i \in ManualAt(cur), visit'[i] = 1
       PROVE  (\E p \in 1 .. Len(stack') : stack'[p].dep = i) \/ NoOrder(i)
  <2>1. i # t /\ visit[i] = 1 BY <1>7, <1>8, <1>12
  <2>2. OnStack(i) \/ NoOrder(i) BY <2>1, <1>1, Zenon DEF IInv, Walk
  <2>3. ASSUME NEW p \in 1 .. n, stack[p].dep = i
        PROVE  \E q \in 1 .. Len(stack') : stack'[q].dep = i
    <3>1. p # n BY <2>1, <2>3, <1>2
    <3>2. p \in 1 .. n - 1 BY <3>1, <1>2
    <3>3. QED BY <3>2, <2>3, <1>9
  <2>4. QED BY <2>2, <2>3 DEF OnStack, n
<1>13. /\ k >= 1 /\ \A i \in ManualAt(cur) : i < k => visit[i] # 0
  BY <1>1, Zenon DEF IInv, Walk
<1>14. \A i \in ManualAt(cur) : i < k' \/ pc' = "rest" => visit'[i] # 0
  BY <1>1, <1>7, <1>8, <1>13
<1>15. \A i \in ManualAt(cur) : i < k' /\ pc' = "rest" => visit'[i] = 2 BY <1>1
<1>16. QED BY <1>1, <1>7, <1>11, <1>12, <1>13, <1>14, <1>15, WalkFrom

(* call_manual_constructors looks at the next name.                          *)
LEMMA WalkNextKeeps ==
  ASSUME IInv, WalkNext
  PROVE  Walk'
<1> DEFINE n == Len(stack)
           t == Top.dep
           Need(p) == world.needed[LibAt(stack[p].dep)]
           name == NamesBelow[Top.next]
           d == FindDepIndex(name)
           onward == [stack EXCEPT ![n].next = @ + 1]
           below == [dep |-> d, next |-> 1]
<1>1. /\ pc = "ctor" /\ stack # <<>> /\ UNCHANGED <<pc, k, cur, deps, world, ctorLog>>
      /\ Top.next <= Len(NamesBelow)
      /\ \/ (d # 0 => visit[d] = 2) /\ stack' = onward /\ UNCHANGED visit
         \/ d # 0 /\ visit[d] = 1 /\ stack' = <<>> /\ UNCHANGED visit
         \/ d # 0 /\ visit[d] = 0 /\ visit' = [visit EXCEPT ![d] = 1]
            /\ stack' = Append(onward, below)
  BY Zenon DEF WalkNext, Enter, InWalk
<1>2. /\ stack \in Seq(Frame) /\ n \in Nat /\ n >= 1 /\ n \in 1 .. n
      /\ stack[n] \in Frame /\ stack[n].dep = t
      /\ stack[n].next = Top.next /\ stack[n].next \in Nat \ {0}
      /\ t \in ManualAt(cur) /\ visit[t] = 1 /\ NamesBelow = Need(n)
      /\ \A p \in 1 .. n : stack[p].next \in Nat \ {0} /\ stack[p].dep \in ManualAt(cur)
  BY <1>1, TopIs
<1>3. \A p \in 1 .. n :
        /\ visit[stack[p].dep] = 1
        /\ \A q \in 1 .. n : stack[p].dep = stack[q].dep => p = q
        /\ \A j \in 1 .. (IF p = n THEN stack[p].next - 1 ELSE stack[p].next - 2) :
             j <= Len(Need(p)) =>
               \A i \in ManualAt(cur) : LibAt(i) = Need(p)[j] => visit[i] = 2
        /\ p < n => /\ stack[p].next - 1 \in 1 .. Len(Need(p))
                    /\ LibAt(stack[p + 1].dep) = Need(p)[stack[p].next - 1]
  BY Zenon DEF IInv, Walk, Stack, Done
<1>4. /\ d = 0 => \A i \in ManualAt(cur) : LibAt(i) # name
      /\ d # 0 => /\ d \in ManualAt(cur) /\ LibAt(d) = name
                  /\ \A i \in ManualAt(cur) : LibAt(i) = name => i = d
  BY <1>1, FindDepIndexIs DEF IInv, Stage, Holding
<1>5. /\ visit \in [1 .. MaxDeps -> 0 .. 2] /\ k >= 1
      /\ \A i \in 1 .. MaxDeps : visit[i] # 0 => i \in ManualAt(cur)
      /\ \A i \in ManualAt(cur) : visit[i] = 2 <=> ImageAt(cur, i) \in Constructed
      /\ \A i \in ManualAt(cur) : i < k => visit[i] # 0
      /\ \A i \in ManualAt(cur) : visit[i] = 1 =>
           (\E p \in 1 .. n : stack[p].dep = i) \/ NoOrder(i)
      /\ \A i \in ManualAt(cur) : visit[i] = 2 =>
           NoOrder(i) \/ \A j \in ManualAt(cur) : NeedsAt(i, j) =>
                            visit[j] = 2 /\ Precedes(ImageAt(cur, j), ImageAt(cur, i))
  <2>1. visit \in [1 .. MaxDeps -> 0 .. 2] BY DEF IInv, Types
  <2>2. QED BY <2>1, <1>1, Zenon DEF IInv, Walk, OnStack
<1>6. \A i \in ManualAt(cur) : i \in 1 .. MaxDeps BY <1>1, NamesAre
<1>7. Constructed' = Constructed BY <1>1, Zenon DEF Constructed
<1>8. \A a, b : Precedes(a, b) =>
         \A p, q \in DOMAIN ctorLog' : ctorLog'[p] = a /\ ctorLog'[q] = b => p < q
  BY <1>1, Zenon DEF Precedes
<1>9. Top.next \in 1 .. Len(Need(n)) /\ name = Need(n)[stack[n].next]
  <2>1. Len(Need(n)) \in Nat BY <1>1, <1>2, NamesAre
  <2>2. QED BY <2>1, <1>1, <1>2
<1>10. /\ Len(onward) = n
       /\ \A p \in 1 .. n : p # n => onward[p] = stack[p]
       /\ onward[n].dep = t /\ onward[n].next = stack[n].next + 1 /\ onward \in Seq(Frame)
  <2>1. [stack[n] EXCEPT !.next = @ + 1] \in Frame
        /\ [stack[n] EXCEPT !.next = @ + 1].dep = t
        /\ [stack[n] EXCEPT !.next = @ + 1].next = stack[n].next + 1
    BY <1>2 DEF Frame
  <2>2. onward = [stack EXCEPT ![n] = [stack[n] EXCEPT !.next = @ + 1]] OBVIOUS
  <2> HIDE DEF onward
  <2>3. onward[n] = [stack[n] EXCEPT !.next = @ + 1] BY <2>2, <1>2
  <2>4. Len(onward) = n /\ onward \in Seq(Frame) /\ \A p \in 1 .. n : p # n => onward[p] = stack[p]
    BY <2>1, <2>2, <1>2
  <2>5. QED BY <2>1, <2>3, <2>4
<1> HIDE DEF t, n, Need, name, d, onward
<1>11. \A i \in ManualAt(cur) : LibAt(i) = name => i = d BY <1>4
<1>12. ASSUME UNCHANGED visit, Stack',
              \A i \in ManualAt(cur) : visit[i] = 1 =>
                (\E p \in 1 .. Len(stack') : stack'[p].dep = i) \/ NoOrder(i)
       PROVE  Walk'
  <2>1. \A i \in ManualAt(cur) : visit'[i] = 2 =>
          NoOrder(i) \/ \A j \in ManualAt(cur) : NeedsAt(i, j) =>
            /\ visit'[j] = 2
            /\ \A p, q \in DOMAIN ctorLog' :
                 ctorLog'[p] = ImageAt(cur, j) /\ ctorLog'[q] = ImageAt(cur, i) => p < q
    BY <1>5, <1>8, <1>12, Zenon
  <2>2. /\ \A i \in 1 .. MaxDeps : visit'[i] # 0 => i \in ManualAt(cur)
        /\ \A i \in ManualAt(cur) : visit'[i] = 2 <=> ImageAt(cur, i) \in Constructed'
        /\ \A i \in ManualAt(cur) : i < k' \/ pc' = "rest" => visit'[i] # 0
        /\ \A i \in ManualAt(cur) : i < k' /\ pc' = "rest" => visit'[i] = 2
        /\ \A i \in ManualAt(cur) : visit'[i] = 1 =>
             (\E p \in 1 .. Len(stack') : stack'[p].dep = i) \/ NoOrder(i)
        /\ k' >= 1 /\ pc' \in {"ctor", "rest"} /\ (pc' # "ctor" => stack' = <<>>)
    BY <1>1, <1>5, <1>7, <1>12
  <2>3. QED BY <2>1, <2>2, <1>1, <1>12, WalkFrom
<1>13. CASE (d # 0 => visit[d] = 2) /\ stack' = onward /\ UNCHANGED visit
  <2>1. ASSUME NEW p \in 1 .. Len(stack')
        PROVE  /\ stack'[p].dep = stack[p].dep /\ p \in 1 .. n
               /\ \A j \in 1 .. (IF p = n THEN stack'[p].next - 1 ELSE stack'[p].next - 2) :
                    j <= Len(Need(p)) =>
                    \A i \in ManualAt(cur) : LibAt(i) = Need(p)[j] => visit[i] = 2
               /\ p < n => stack'[p].next = stack[p].next
    <3>1. p \in 1 .. n BY <1>10, <1>13
    <3>2. CASE p # n
      <4>1. stack'[p] = stack[p] BY <3>1, <3>2, <1>10, <1>13
      <4>2. QED BY <4>1, <3>1, <3>2, <1>3
    <3>3. CASE p = n
      <4>1. stack'[n].dep = t /\ stack'[n].next = stack[n].next + 1 BY <1>10, <1>13
      <4>2. ASSUME NEW j \in 1 .. stack[n].next, j <= Len(Need(n)),
                   NEW i \in ManualAt(cur), LibAt(i) = Need(n)[j]
            PROVE  visit[i] = 2
        <5>1. CASE j = stack[n].next
          <6>1. i = d BY <5>1, <4>2, <1>9, <1>11
          <6>2. d # 0 BY <5>1, <4>2, <1>4, <1>9
          <6>3. QED BY <6>1, <6>2, <1>13
        <5>2. CASE j # stack[n].next
          <6>1. j \in 1 .. stack[n].next - 1 BY <5>2, <4>2, <1>2
          <6>2. QED BY <6>1, <4>2, <1>2, <1>3
        <5>3. QED BY <5>1, <5>2
      <4>3. stack[n].next + 1 - 1 = stack[n].next BY <1>2
      <4>4. QED BY <4>1, <4>2, <4>3, <3>3, <1>2
    <3>4. QED BY <3>2, <3>3
  <2>2. Len(stack') = n BY <1>10, <1>13
  <2>3. \A p \in 1 .. n : p < n => p + 1 \in 1 .. n BY <1>2
  <2>4. Stack'
    <3>1. ASSUME NEW p \in 1 .. Len(stack')
          PROVE  /\ stack'[p].dep \in ManualAt(cur)
                 /\ visit'[stack'[p].dep] = 1
                 /\ \A q \in 1 .. Len(stack') : stack'[p].dep = stack'[q].dep => p = q
                 /\ \A j \in 1 .. (IF p = Len(stack') THEN stack'[p].next - 1
                                   ELSE stack'[p].next - 2) :
                      j <= Len(world.needed[LibAt(stack'[p].dep)]) =>
                      \A i \in ManualAt(cur) :
                        LibAt(i) = world.needed[LibAt(stack'[p].dep)][j] => visit'[i] = 2
                 /\ p < Len(stack') =>
                      /\ stack'[p].next - 1 \in 1 .. Len(world.needed[LibAt(stack'[p].dep)])
                      /\ LibAt(stack'[p + 1].dep)
                           = world.needed[LibAt(stack'[p].dep)][stack'[p].next - 1]
      <4>1. world.needed[LibAt(stack'[p].dep)] = Need(p) BY <2>1 DEF Need
      <4>2. /\ stack'[p].dep \in ManualAt(cur) /\ visit'[stack'[p].dep] = 1
            /\ \A q \in 1 .. Len(stack') : stack'[p].dep = stack'[q].dep => p = q
        <5>1. stack'[p].dep = stack[p].dep /\ p \in 1 .. n BY <2>1
        <5>2. stack[p].dep \in ManualAt(cur) /\ visit[stack[p].dep] = 1 BY <5>1, <1>2, <1>3
        <5>3. \A q \in 1 .. n : stack'[q].dep = stack[q].dep BY <2>1, <2>2
        <5>4. \A q \in 1 .. n : stack[p].dep = stack[q].dep => p = q BY <5>1, <1>3
        <5>5. QED BY <5>1, <5>2, <5>3, <5>4, <2>2, <1>13
      <4>3. p < n => /\ stack'[p].next - 1 \in 1 .. Len(Need(p))
                     /\ LibAt(stack'[p + 1].dep) = Need(p)[stack'[p].next - 1]
        BY <2>1, <2>2, <2>3, <1>3
      <4>4. QED BY <4>1, <4>2, <4>3, <2>1, <2>2, <1>13
    <3>2. QED BY <3>1, <1>1, StackFrom
  <2>5. ASSUME NEW i \in ManualAt(cur), visit[i] = 1
        PROVE  (\E p \in 1 .. Len(stack') : stack'[p].dep = i) \/ NoOrder(i)
    BY <2>1, <2>2, <2>5, <1>5
  <2>6. QED BY <2>4, <2>5, <1>12, <1>13
<1>14. \A p \in 1 .. n : \A j : NeedsAt(stack[p].dep, j)
         <=> \E q \in 1 .. Len(Need(p)) : Need(p)[q] = LibAt(j)
  BY <1>1, <1>2, NamesAre DEF Need
<1>15. CASE d # 0 /\ visit[d] = 1 /\ stack' = <<>> /\ UNCHANGED visit
  <2> DEFINE Calls == {stack[p].dep : p \in 1 .. n}
  <2>1. d \in ManualAt(cur) /\ LibAt(d) = name BY <1>4, <1>15
  <2>2. PICK rest \in SUBSET ManualAt(cur) :
           (\A e \in rest : \E f \in rest : NeedsAt(e, f)) /\ d \in rest \cup Calls
    <3>1. CASE NoOrder(d) BY <3>1, Zenon DEF NoOrder
    <3>2. CASE \E p \in 1 .. n : stack[p].dep = d
      <4>1. {} \in SUBSET ManualAt(cur) /\ d \in {} \cup Calls BY <3>2
      <4>2. QED BY <4>1
    <3>3. QED BY <3>1, <3>2, <2>1, <1>5, <1>15
  <2>3. ASSUME NEW p \in 1 .. n
        PROVE  \E f \in rest \cup Calls : NeedsAt(stack[p].dep, f)
    <3>1. CASE p = n
      <4>1. NeedsAt(stack[p].dep, d) BY <3>1, <2>1, <1>2, <1>9, <1>14
      <4>2. QED BY <4>1, <2>2
    <3>2. CASE p # n
      <4>1. p < n /\ p + 1 \in 1 .. n BY <3>2, <1>2
      <4>2. NeedsAt(stack[p].dep, stack[p + 1].dep) BY <4>1, <1>3, <1>14
      <4>3. stack[p + 1].dep \in Calls BY <4>1
      <4>4. QED BY <4>2, <4>3
    <3>3. QED BY <3>1, <3>2
  <2>4. /\ rest \cup Calls \in SUBSET ManualAt(cur)
        /\ \A e \in rest \cup Calls : \E f \in rest \cup Calls : NeedsAt(e, f)
    BY <2>2, <2>3, <1>2
  <2>5. \A p \in 1 .. n : NoOrder(stack[p].dep)
    <3>1. \A p \in 1 .. n : stack[p].dep \in rest \cup Calls OBVIOUS
    <3>2. QED BY <3>1, <2>4, Zenon DEF NoOrder
  <2>6. \A i \in ManualAt(cur) : visit[i] = 1 => NoOrder(i) BY <2>5, <1>5
  <2>7. Stack'
    <3>1. Len(stack') = 0 BY <1>15
    <3>2. 1 .. 0 = {} OBVIOUS
    <3>3. QED BY <3>1, <3>2, Zenon DEF Stack
  <2>8. QED BY <2>6, <2>7, <1>12, <1>15
<1>16. CASE d # 0 /\ visit[d] = 0 /\ visit' = [visit EXCEPT ![d] = 1]
             /\ stack' = Append(onward, below)
  <2>1. d \in ManualAt(cur) /\ LibAt(d) = name /\ d \in 1 .. MaxDeps BY <1>4, <1>6, <1>16
  <2>2. visit'[d] = 1 /\ \A i \in 1 .. MaxDeps : i # d => visit'[i] = visit[i]
    BY <2>1, <1>5, <1>16
  <2>3. /\ Len(stack') = n + 1 /\ stack'[n + 1] = below
        /\ \A p \in 1 .. n : stack'[p] = onward[p]
    BY <1>2, <1>10, <1>16
  <2>4. below.dep = d /\ below.next = 1 OBVIOUS
  <2> HIDE DEF below
  <2>5. /\ \A p \in 1 .. n + 1 : p = n + 1 \/ p \in 1 .. n
        /\ \A p \in 1 .. n : p # n + 1 /\ (p < n + 1) /\ (p # n => p < n /\ p + 1 \in 1 .. n)
        /\ ~(n + 1 < n + 1)
    BY <1>2
  <2>6. \A p \in 1 .. n : /\ stack'[p].dep = stack[p].dep /\ stack[p].dep # d
                          /\ p # n => stack'[p].next = stack[p].next
                          /\ p = n => stack'[p].next = stack[n].next + 1
    BY <2>3, <1>2, <1>3, <1>10, <1>16
  <2>7. ASSUME NEW p \in 1 .. n
        PROVE  /\ \A j \in 1 .. stack'[p].next - 2 : j <= Len(Need(p)) =>
                    \A i \in ManualAt(cur) : LibAt(i) = Need(p)[j] => visit'[i] = 2
               /\ stack'[p].next - 1 \in 1 .. Len(Need(p))
               /\ LibAt(stack'[p + 1].dep) = Need(p)[stack'[p].next - 1]
    <3>1. ASSUME NEW i \in ManualAt(cur), visit[i] = 2 PROVE visit'[i] = 2
      BY <3>1, <2>2, <1>6, <1>16
    <3>2. CASE p = n
      <4>1. stack'[n].next - 2 = stack[n].next - 1 /\ stack'[n].next - 1 = stack[n].next
        <5>1. stack[n].next \in Int BY <1>2, <1>9
        <5>2. stack'[n].next = stack[n].next + 1 BY <2>6, <1>2
        <5>3. QED BY <5>1, <5>2
      <4>2. \A j \in 1 .. stack[n].next - 1 : j <= Len(Need(n)) =>
              \A i \in ManualAt(cur) : LibAt(i) = Need(n)[j] => visit[i] = 2
        BY <1>2, <1>3
      <4>3. LibAt(stack'[n + 1].dep) = Need(n)[stack[n].next] BY <2>1, <2>3, <2>4, <1>9
      <4>4. stack[n].next \in 1 .. Len(Need(n)) BY <1>2, <1>9
      <4>5. /\ \A j \in 1 .. stack'[n].next - 2 : j <= Len(Need(n)) =>
                 \A i \in ManualAt(cur) : LibAt(i) = Need(n)[j] => visit'[i] = 2
            /\ stack'[n].next - 1 \in 1 .. Len(Need(n))
            /\ LibAt(stack'[n + 1].dep) = Need(n)[stack'[n].next - 1]
        BY <3>1, <4>1, <4>2, <4>3, <4>4
      <4>6. QED BY <4>5, <3>2
    <3>3. CASE p # n
      <4>1. stack'[p].next = stack[p].next /\ p < n /\ p + 1 \in 1 .. n BY <3>3, <2>5, <2>6
      <4>2. stack'[p + 1].dep = stack[p + 1].dep BY <4>1, <2>6
      <4>3. \A j \in 1 .. stack[p].next - 2 : j <= Len(Need(p)) =>
              \A i \in ManualAt(cur) : LibAt(i) = Need(p)[j] => visit[i] = 2
        BY <3>3, <1>3
      <4>4. QED BY <3>1, <4>1, <4>2, <4>3, <1>3
    <3>4. QED BY <3>2, <3>3
  <2>8. ASSUME NEW p \in 1 .. Len(stack')
        PROVE  /\ stack'[p].dep \in ManualAt(cur)
               /\ visit'[stack'[p].dep] = 1
               /\ \A q \in 1 .. Len(stack') : stack'[p].dep = stack'[q].dep => p = q
               /\ \A j \in 1 .. (IF p = Len(stack') THEN stack'[p].next - 1
                                 ELSE stack'[p].next - 2) :
                    j <= Len(world.needed[LibAt(stack'[p].dep)]) =>
                    \A i \in ManualAt(cur) :
                      LibAt(i) = world.needed[LibAt(stack'[p].dep)][j] => visit'[i] = 2
               /\ p < Len(stack') =>
                    /\ stack'[p].next - 1 \in 1 .. Len(world.needed[LibAt(stack'[p].dep)])
                    /\ LibAt(stack'[p + 1].dep)
                         = world.needed[LibAt(stack'[p].dep)][stack'[p].next - 1]
    <3>1. CASE p = n + 1
      <4>1. stack'[p].dep = d /\ stack'[p].next - 1 = 0 BY <3>1, <2>3, <2>4
      <4>2. \A j \in 1 .. 0 : FALSE OBVIOUS
      <4>3. ~(p < Len(stack')) BY <3>1, <2>3, <2>5
      <4>4. \A q \in 1 .. Len(stack') : stack'[p].dep = stack'[q].dep => p = q
        BY <3>1, <4>1, <2>3, <2>5, <2>6
      <4>5. QED BY <3>1, <4>1, <4>2, <4>3, <4>4, <2>1, <2>2, <2>3
    <3>2. CASE p \in 1 .. n
      <4>1. world.needed[LibAt(stack'[p].dep)] = Need(p) /\ p # Len(stack') /\ p < Len(stack')
        BY <3>2, <2>3, <2>5, <2>6 DEF Need
      <4>2. stack'[p].dep \in ManualAt(cur) /\ visit'[stack'[p].dep] = 1
        <5>1. stack[p].dep \in ManualAt(cur) /\ visit[stack[p].dep] = 1 BY <3>2, <1>2, <1>3
        <5>2. stack'[p].dep = stack[p].dep /\ stack[p].dep # d BY <3>2, <2>6
        <5>3. QED BY <5>1, <5>2, <2>2, <1>6
      <4>3. \A q \in 1 .. Len(stack') : stack'[p].dep = stack'[q].dep => p = q
        BY <3>2, <2>3, <2>4, <2>5, <2>6, <1>3
      <4>4. QED BY <3>2, <4>1, <4>2, <4>3, <2>7
    <3>3. QED BY <3>1, <3>2, <2>3, <2>5
  <2>9. Stack' BY <2>8, <1>1, StackFrom
  <2>10. ASSUME NEW i \in ManualAt(cur), visit'[i] = 1
         PROVE  (\E p \in 1 .. Len(stack') : stack'[p].dep = i) \/ NoOrder(i)
    <3>1. CASE i = d
      <4>1. n + 1 \in 1 .. Len(stack') /\ stack'[n + 1].dep = d BY <2>3, <2>4, <1>2
      <4>2. QED BY <3>1, <4>1
    <3>2. CASE i # d
      <4>1. visit[i] = 1 BY <3>2, <2>2, <2>10, <1>6
      <4>2. \A p \in 1 .. n : p \in 1 .. Len(stack') BY <2>3, <1>2
      <4>3. QED BY <4>1, <4>2, <2>6, <1>5
    <3>3. QED BY <3>1, <3>2
  <2>11. \A i \in ManualAt(cur) : visit'[i] = 2 <=> visit[i] = 2 BY <2>2, <1>6, <1>16
  <2>12. \A i \in ManualAt(cur) : visit'[i] = 2 =>
          NoOrder(i) \/ \A j \in ManualAt(cur) : NeedsAt(i, j) =>
            /\ visit'[j] = 2
            /\ \A p, q \in DOMAIN ctorLog' :
                 ctorLog'[p] = ImageAt(cur, j) /\ ctorLog'[q] = ImageAt(cur, i) => p < q
    BY <2>11, <1>5, <1>8, Zenon
  <2>13. /\ \A i \in 1 .. MaxDeps : visit'[i] # 0 => i \in ManualAt(cur)
         /\ \A i \in ManualAt(cur) : visit'[i] = 2 <=> ImageAt(cur, i) \in Constructed'
         /\ \A i \in ManualAt(cur) : i < k' \/ pc' = "rest" => visit'[i] # 0
         /\ \A i \in ManualAt(cur) : i < k' /\ pc' = "rest" => visit'[i] = 2
         /\ k' >= 1 /\ pc' \in {"ctor", "rest"} /\ (pc' # "ctor" => stack' = <<>>)
    BY <2>1, <2>2, <2>11, <1>1, <1>5, <1>6, <1>7
  <2>14. QED BY <2>9, <2>10, <2>12, <2>13, <1>1, WalkFrom
<1>17. QED BY <1>1, <1>13, <1>15, <1>16

(* linker_link starts a walk, or has no need to.                             *)
LEMMA StartWalkKeeps ==
  ASSUME IInv, StartWalk
  PROVE  Walk'
<1>1. /\ pc = "ctor" /\ stack = <<>> /\ UNCHANGED <<pc, cur, deps, world, ctorLog>>
      /\ k <= Len(deps[cur]) /\ k' = k + 1
      /\ \/ /\ deps[cur][k].manual /\ visit[k] = 0
            /\ visit' = [visit EXCEPT ![k] = 1]
            /\ stack' = Append(<<>>, [dep |-> k, next |-> 1])
         \/ ~(deps[cur][k].manual /\ visit[k] = 0) /\ UNCHANGED <<visit, stack>>
  BY Zenon DEF StartWalk, Enter, InWalk
<1>2. /\ visit \in [1 .. MaxDeps -> 0 .. 2] /\ k \in Nat /\ k >= 1 /\ Len(stack) = 0
      /\ cur \in Mods /\ Types /\ Named
  BY <1>1 DEF IInv, Types, Walk, Stage, Holding
<1>3. /\ \A i \in 1 .. MaxDeps : visit[i] # 0 => i \in ManualAt(cur)
      /\ \A i \in ManualAt(cur) : visit[i] = 2 <=> ImageAt(cur, i) \in Constructed
      /\ \A i \in ManualAt(cur) : i < k => visit[i] # 0
      /\ \A i \in ManualAt(cur) : visit[i] = 1 => NoOrder(i)
      /\ \A i \in ManualAt(cur) : visit[i] = 2 =>
           NoOrder(i) \/ \A j \in ManualAt(cur) : NeedsAt(i, j) =>
                            visit[j] = 2 /\ Precedes(ImageAt(cur, j), ImageAt(cur, i))
  <2>1. \A i : ~OnStack(i)
    <3>1. 1 .. 0 = {} OBVIOUS
    <3>2. QED BY <3>1, <1>2, Zenon DEF OnStack
  <2>2. QED BY <2>1, <1>1, Zenon DEF IInv, Walk
<1>4. /\ \A i \in ManualAt(cur) : i \in 1 .. MaxDeps /\ i \in Nat
      /\ k \in DOMAIN deps[cur]
  <2>1. \A i \in ManualAt(cur) : i \in 1 .. MaxDeps BY <1>1, NamesAre
  <2>2. k \in DOMAIN deps[cur] BY <1>1, <1>2, Layout
  <2>3. QED BY <2>1, <2>2, LinkerAssumption
<1>5. Constructed' = Constructed BY <1>1, Zenon DEF Constructed
<1>6. \A a, b : Precedes(a, b) =>
         \A p, q \in DOMAIN ctorLog' : ctorLog'[p] = a /\ ctorLog'[q] = b => p < q
  BY <1>1, Zenon DEF Precedes
<1>7. \A i \in ManualAt(cur) : i < k' => i < k \/ i = k BY <1>1, <1>2, <1>4
<1>8. ASSUME Stack', \A i \in ManualAt(cur) : visit'[i] = 2 <=> visit[i] = 2,
             \A i \in ManualAt(cur) : i < k' => visit'[i] # 0,
             \A i \in 1 .. MaxDeps : visit'[i] # 0 => i \in ManualAt(cur),
             \A i \in ManualAt(cur) : visit'[i] = 1 =>
                (\E p \in 1 .. Len(stack') : stack'[p].dep = i) \/ NoOrder(i)
      PROVE  Walk'
  <2>1. \A i \in ManualAt(cur) : visit'[i] = 2 =>
          NoOrder(i) \/ \A j \in ManualAt(cur) : NeedsAt(i, j) =>
            /\ visit'[j] = 2
            /\ \A p, q \in DOMAIN ctorLog' :
                 ctorLog'[p] = ImageAt(cur, j) /\ ctorLog'[q] = ImageAt(cur, i) => p < q
    BY <1>3, <1>6, <1>8, Zenon
  <2>2. /\ \A i \in ManualAt(cur) : visit'[i] = 2 <=> ImageAt(cur, i) \in Constructed'
        /\ \A i \in ManualAt(cur) : i < k' \/ pc' = "rest" => visit'[i] # 0
        /\ \A i \in ManualAt(cur) : i < k' /\ pc' = "rest" => visit'[i] = 2
        /\ k' >= 1 /\ pc' \in {"ctor", "rest"} /\ (pc' # "ctor" => stack' = <<>>)
    BY <1>1, <1>2, <1>3, <1>5, <1>8
  <2>3. QED BY <2>1, <2>2, <1>1, <1>8, WalkFrom
<1>9. CASE ~(deps[cur][k].manual /\ visit[k] = 0) /\ UNCHANGED <<visit, stack>>
  <2>1. \A i \in ManualAt(cur) : i < k' => visit'[i] # 0
    BY <1>3, <1>7, <1>9 DEF ManualAt
  <2>2. Stack'
    <3>1. 1 .. 0 = {} OBVIOUS
    <3>2. Len(stack') = 0 BY <1>2, <1>9
    <3>3. QED BY <3>1, <3>2, Zenon DEF Stack
  <2>3. QED BY <2>1, <2>2, <1>3, <1>8, <1>9
<1>10. CASE /\ deps[cur][k].manual /\ visit[k] = 0
            /\ visit' = [visit EXCEPT ![k] = 1]
            /\ stack' = Append(<<>>, [dep |-> k, next |-> 1])
  <2>1. k \in ManualAt(cur) BY <1>4, <1>10 DEF ManualAt
  <2>2. visit'[k] = 1 /\ \A i \in 1 .. MaxDeps : i # k => visit'[i] = visit[i]
    BY <2>1, <1>2, <1>4, <1>10
  <2>3. Len(stack') = 1 /\ stack'[1].dep = k /\ stack'[1].next = 1 BY <1>10
  <2>4. /\ \A p \in 1 .. Len(stack') : p = 1 /\ ~(p < Len(stack'))
        /\ 1 \in 1 .. Len(stack') /\ stack'[1].next - 1 = 0 /\ \A j \in 1 .. 0 : FALSE
    BY <2>3
  <2>5. ASSUME NEW p \in 1 .. Len(stack')
        PROVE  /\ stack'[p].dep \in ManualAt(cur)
               /\ visit'[stack'[p].dep] = 1
               /\ \A q \in 1 .. Len(stack') : stack'[p].dep = stack'[q].dep => p = q
               /\ \A j \in 1 .. (IF p = Len(stack') THEN stack'[p].next - 1
                                 ELSE stack'[p].next - 2) :
                    j <= Len(world.needed[LibAt(stack'[p].dep)]) =>
                    \A i \in ManualAt(cur) :
                      LibAt(i) = world.needed[LibAt(stack'[p].dep)][j] => visit'[i] = 2
               /\ p < Len(stack') =>
                    /\ stack'[p].next - 1 \in 1 .. Len(world.needed[LibAt(stack'[p].dep)])
                    /\ LibAt(stack'[p + 1].dep)
                         = world.needed[LibAt(stack'[p].dep)][stack'[p].next - 1]
    BY <2>1, <2>2, <2>3, <2>4
  <2>6. Stack' BY <2>5, <1>1, StackFrom
  <2>7. ASSUME NEW i \in ManualAt(cur), visit'[i] = 1
        PROVE  (\E p \in 1 .. Len(stack') : stack'[p].dep = i) \/ NoOrder(i)
    <3>1. CASE i = k BY <3>1, <2>3, <2>4
    <3>2. CASE i # k BY <3>2, <2>2, <2>7, <1>3, <1>4
    <3>3. QED BY <3>1, <3>2
  <2>8. \A i \in ManualAt(cur) : visit'[i] = 2 <=> visit[i] = 2 BY <2>2, <1>4, <1>10
  <2>9. \A i \in ManualAt(cur) : i < k' => visit'[i] # 0 BY <2>2, <1>3, <1>4, <1>7
  <2>10. \A i \in 1 .. MaxDeps : visit'[i] # 0 => i \in ManualAt(cur) BY <2>1, <2>2, <1>3
  <2>11. QED BY <2>6, <2>7, <2>8, <2>9, <2>10, <1>8
<1>11. QED BY <1>1, <1>9, <1>10

(* linker_link calls what the walks have left.                               *)
LEMMA ConstructRestKeeps ==
  ASSUME IInv, ConstructRest
  PROVE  Walk'
<1>1. /\ pc = "rest" /\ k <= Len(deps[cur]) /\ k' = k + 1
      /\ UNCHANGED <<pc, stack, cur, deps, world>>
      /\ \/ /\ deps[cur][k].manual /\ visit[k] # 2
            /\ ctorLog' = Append(ctorLog, ImageAt(cur, k))
            /\ visit' = [visit EXCEPT ![k] = 2]
         \/ ~deps[cur][k].manual /\ UNCHANGED <<ctorLog, visit>>
         \/ visit[k] = 2 /\ UNCHANGED <<ctorLog, visit>>
  BY Zenon DEF ConstructRest, CallConstructors, InWalk
<1>2. /\ visit \in [1 .. MaxDeps -> 0 .. 2] /\ k \in Nat /\ k >= 1 /\ stack = <<>>
      /\ Len(stack) = 0 /\ cur \in Mods /\ Types /\ Named
  BY <1>1 DEF IInv, Types, Walk, Stage, Holding
<1>3. /\ \A i \in 1 .. MaxDeps : visit[i] # 0 => i \in ManualAt(cur)
      /\ \A i \in ManualAt(cur) : visit[i] = 2 <=> ImageAt(cur, i) \in Constructed
      /\ \A i \in ManualAt(cur) : visit[i] # 0
      /\ \A i \in ManualAt(cur) : i < k => visit[i] = 2
      /\ \A i \in ManualAt(cur) : visit[i] = 1 => NoOrder(i)
      /\ \A i \in ManualAt(cur) : visit[i] = 2 =>
           NoOrder(i) \/ \A j \in ManualAt(cur) : NeedsAt(i, j) =>
                            visit[j] = 2 /\ Precedes(ImageAt(cur, j), ImageAt(cur, i))
  <2>1. \A i : ~OnStack(i)
    <3>1. 1 .. 0 = {} OBVIOUS
    <3>2. QED BY <3>1, <1>2, Zenon DEF OnStack
  <2>2. QED BY <2>1, <1>1, Zenon DEF IInv, Walk
<1>4. /\ \A i \in ManualAt(cur) : i \in 1 .. MaxDeps /\ i \in Nat
      /\ k \in DOMAIN deps[cur]
  <2>1. \A i \in ManualAt(cur) : i \in 1 .. MaxDeps BY <1>1, NamesAre
  <2>2. k \in DOMAIN deps[cur] BY <1>1, <1>2, Layout
  <2>3. QED BY <2>1, <2>2, LinkerAssumption
<1>5. \A i \in ManualAt(cur) : i < k' => i < k \/ i = k BY <1>1, <1>2, <1>4
<1>6. Stack'
  <2>1. 1 .. 0 = {} OBVIOUS
  <2>2. Len(stack') = 0 BY <1>1, <1>2
  <2>3. QED BY <2>1, <2>2, Zenon DEF Stack
<1>7. ASSUME \A i \in 1 .. MaxDeps : visit'[i] # 0 => i \in ManualAt(cur),
             \A i \in ManualAt(cur) : visit'[i] = 2 <=> ImageAt(cur, i) \in Constructed',
             \A i \in ManualAt(cur) : i # k => visit'[i] = visit[i],
             k \in ManualAt(cur) => visit'[k] = 2,
             \A i \in ManualAt(cur) : visit'[i] = 2 =>
               NoOrder(i) \/ \A j \in ManualAt(cur) : NeedsAt(i, j) =>
                 /\ visit'[j] = 2
                 /\ \A p, q \in DOMAIN ctorLog' :
                      ctorLog'[p] = ImageAt(cur, j) /\ ctorLog'[q] = ImageAt(cur, i) => p < q
      PROVE  Walk'
  <2>1. /\ \A i \in ManualAt(cur) : i < k' \/ pc' = "rest" => visit'[i] # 0
        /\ \A i \in ManualAt(cur) : i < k' /\ pc' = "rest" => visit'[i] = 2
        /\ \A i \in ManualAt(cur) : visit'[i] = 1 =>
             (\E p \in 1 .. Len(stack') : stack'[p].dep = i) \/ NoOrder(i)
        /\ k' >= 1 /\ pc' \in {"ctor", "rest"} /\ (pc' # "ctor" => stack' = <<>>)
    BY <1>1, <1>2, <1>3, <1>5, <1>7
  <2>2. QED BY <2>1, <1>1, <1>6, <1>7, WalkFrom
<1>8. CASE /\ deps[cur][k].manual /\ visit[k] # 2
           /\ ctorLog' = Append(ctorLog, ImageAt(cur, k))
           /\ visit' = [visit EXCEPT ![k] = 2]
  <2>1. k \in ManualAt(cur) BY <1>4, <1>8 DEF ManualAt
  <2>2. NoOrder(k) BY <2>1, <1>2, <1>3, <1>4, <1>8
  <2>3. pc \in {"ctor", "rest"} BY <1>1
  <2>4. /\ visit'[k] = 2 /\ \A i \in 1 .. MaxDeps : i # k => visit'[i] = visit[i]
        /\ \A i \in 1 .. MaxDeps : visit'[i] # 0 => i \in ManualAt(cur)
        /\ \A i \in ManualAt(cur) : visit'[i] = 2 <=> ImageAt(cur, i) \in Constructed'
        /\ \A i \in ManualAt(cur) : visit'[i] = 2 =>
             NoOrder(i) \/ \A j \in ManualAt(cur) : NeedsAt(i, j) =>
               /\ visit'[j] = 2
               /\ \A p, q \in DOMAIN ctorLog' :
                    ctorLog'[p] = ImageAt(cur, j) /\ ctorLog'[q] = ImageAt(cur, i) => p < q
    BY <2>1, <2>2, <2>3, <1>1, <1>8, DependencyCalled, Zenon
  <2>5. QED BY <2>4, <1>4, <1>7
<1>9. CASE (~deps[cur][k].manual \/ visit[k] = 2) /\ UNCHANGED <<ctorLog, visit>>
  <2>1. Constructed' = Constructed BY <1>9, Zenon DEF Constructed
  <2>2. k \in ManualAt(cur) => visit[k] = 2 BY <1>9 DEF ManualAt
  <2>3. \A a, b : Precedes(a, b) =>
           \A p, q \in DOMAIN ctorLog' : ctorLog'[p] = a /\ ctorLog'[q] = b => p < q
    BY <1>9, Zenon DEF Precedes
  <2>4. \A i \in ManualAt(cur) : visit'[i] = 2 =>
          NoOrder(i) \/ \A j \in ManualAt(cur) : NeedsAt(i, j) =>
            /\ visit'[j] = 2
            /\ \A p, q \in DOMAIN ctorLog' :
                 ctorLog'[p] = ImageAt(cur, j) /\ ctorLog'[q] = ImageAt(cur, i) => p < q
    BY <2>3, <1>3, <1>9, ZenonT(30)
  <2>5. QED BY <2>1, <2>2, <2>4, <1>3, <1>7, <1>9
<1>10. QED BY <1>1, <1>8, <1>9

(* The walk over the constructors.                                           *)
LEMMA WalkKeeps ==
  ASSUME IInv, Next
  PROVE  Walk'
<1>1. ASSUME UNCHANGED <<visit, stack>>, pc \notin {"ctor", "rest"}, pc' \notin {"ctor", "rest"}
      PROVE  Walk'
  <2>1. visit = [i \in 1 .. MaxDeps |-> 0] /\ stack = <<>> BY <1>1, Zenon DEF IInv, Walk
  <2>2. Stack'
    <3>1. 1 .. 0 = {} OBVIOUS
    <3>2. Len(stack') = 0 BY <1>1, <2>1
    <3>3. QED BY <3>1, <3>2, Zenon DEF Stack
  <2>3. QED BY <1>1, <2>1, <2>2, Zenon DEF Walk
<1>2. CASE StartWalk \/ WalkNext \/ WalkCalls \/ ConstructRest
  BY <1>2, StartWalkKeeps, WalkNextKeeps, WalkCallsKeeps, ConstructRestKeeps
<1>3. CASE UnwindDone
  <2>1. /\ pc = "unwind" /\ pc' = "ctor" /\ k' = 1
        /\ UNCHANGED <<visit, stack, cur, deps, world, ctorLog>>
    BY <1>3, Zenon DEF UnwindDone, Stays, walkVars
  <2>2. visit = [i \in 1 .. MaxDeps |-> 0] /\ stack = <<>> BY <2>1, Zenon DEF IInv, Walk
  <2>3. Stack'
    <3>1. 1 .. 0 = {} OBVIOUS
    <3>2. Len(stack') = 0 BY <2>1, <2>2
    <3>3. QED BY <3>1, <3>2, Zenon DEF Stack
  <2>4. cur \in Mods /\ Types /\ Named BY <2>1 DEF IInv, Stage, Holding
  <2>5. \A i \in ManualAt(cur) : /\ i \in 1 .. MaxDeps /\ ~(i < 1)
                                 /\ ModuleOf(ImageAt(cur, i)) = cur
    <3>1. \A i \in ManualAt(cur) : i \in 1 .. MaxDeps BY <2>1, NamesAre
    <3>2. \A i \in ManualAt(cur) : i \in 0 .. Len(deps[cur]) BY <2>4, Layout
    <3>3. QED BY <3>1, <3>2, <2>4, Layout, LinkerAssumption
  <2>6. Constructed' = Constructed BY <2>1, Zenon DEF Constructed
  <2>7. \A i \in ManualAt(cur) : visit'[i] = 0 /\ ImageAt(cur, i) \notin Constructed'
    BY <2>1, <2>2, <2>5, <2>6, NothingRunYet
  <2>8. \A i \in 1 .. MaxDeps : visit'[i] = 0 BY <2>1, <2>2
  <2>9. /\ \A i \in 1 .. MaxDeps : visit'[i] # 0 => i \in ManualAt(cur)
        /\ \A i \in ManualAt(cur) : visit'[i] = 2 <=> ImageAt(cur, i) \in Constructed'
        /\ \A i \in ManualAt(cur) : i < k' \/ pc' = "rest" => visit'[i] # 0
        /\ \A i \in ManualAt(cur) : i < k' /\ pc' = "rest" => visit'[i] = 2
        /\ \A i \in ManualAt(cur) : visit'[i] # 1 /\ visit'[i] # 2
        /\ k' >= 1 /\ pc' \in {"ctor", "rest"} /\ (pc' # "ctor" => stack' = <<>>)
    BY <2>1, <2>5, <2>7, <2>8
  <2>10. QED BY <2>1, <2>3, <2>9, WalkFrom
<1>4. ASSUME UNCHANGED <<visit, stack, cur, deps, world, ctorLog>>, pc \in {"ctor", "rest"},
             \/ UNCHANGED <<pc, k>>
             \/ WalksDone
      PROVE  Walk'
  <2>1. /\ k \in Nat /\ k >= 1
        /\ \A i \in 1 .. MaxDeps : visit[i] # 0 => i \in ManualAt(cur)
        /\ \A i \in ManualAt(cur) : visit[i] = 2 <=> ImageAt(cur, i) \in Constructed
        /\ \A i \in ManualAt(cur) : i < k \/ pc = "rest" => visit[i] # 0
        /\ \A i \in ManualAt(cur) : i < k /\ pc = "rest" => visit[i] = 2
        /\ \A i \in ManualAt(cur) : visit[i] = 1 =>
             (\E p \in 1 .. Len(stack) : stack[p].dep = i) \/ NoOrder(i)
        /\ \A i \in ManualAt(cur) : visit[i] = 2 =>
             NoOrder(i) \/ \A j \in ManualAt(cur) : NeedsAt(i, j) =>
                              visit[j] = 2 /\ Precedes(ImageAt(cur, j), ImageAt(cur, i))
        /\ pc # "ctor" => stack = <<>>
    <3>1. k \in Nat BY DEF IInv, Types
    <3>2. QED BY <3>1, <1>4, Zenon DEF IInv, Walk, OnStack
  <2>2. Constructed' = Constructed BY <1>4, Zenon DEF Constructed
  <2>3. \A a, b : Precedes(a, b) =>
           \A p, q \in DOMAIN ctorLog' : ctorLog'[p] = a /\ ctorLog'[q] = b => p < q
    BY <1>4, Zenon DEF Precedes
  <2>4. \A i \in ManualAt(cur) : visit'[i] = 2 =>
          NoOrder(i) \/ \A j \in ManualAt(cur) : NeedsAt(i, j) =>
            /\ visit'[j] = 2
            /\ \A p, q \in DOMAIN ctorLog' :
                 ctorLog'[p] = ImageAt(cur, j) /\ ctorLog'[q] = ImageAt(cur, i) => p < q
    BY <2>1, <2>3, <1>4, ZenonT(30)
  <2>5. \A i \in ManualAt(cur) : visit'[i] = 1 =>
          (\E p \in 1 .. Len(stack') : stack'[p].dep = i) \/ NoOrder(i)
    BY <2>1, <1>4
  <2>6. Stack'
    <3>1. Stack BY Zenon DEF IInv, Walk
    <3>2. Stack => Stack' BY <1>4, StackSame
    <3>3. QED BY <3>1, <3>2
  <2>7. /\ k' >= 1 /\ pc' \in {"ctor", "rest"} /\ (pc' # "ctor" => stack' = <<>>)
        /\ \A i \in ManualAt(cur) : i < k' \/ pc' = "rest" => visit'[i] # 0
        /\ \A i \in ManualAt(cur) : i < k' /\ pc' = "rest" => visit'[i] = 2
    <3>1. CASE UNCHANGED <<pc, k>> BY <3>1, <2>1, <1>4
    <3>2. CASE WalksDone
      <4>1. /\ pc = "ctor" /\ stack = <<>> /\ k > Len(deps[cur]) /\ pc' = "rest" /\ k' = 1
        BY <3>2, Zenon DEF WalksDone
      <4>2. cur \in Mods /\ Types /\ Named BY <4>1 DEF IInv, Stage, Holding
      <4>3. \A i \in ManualAt(cur) : i \in 1 .. Len(deps[cur]) /\ Len(deps[cur]) \in Nat
        BY <4>2, Layout DEF ManualAt
      <4>4. \A i \in ManualAt(cur) : i < k /\ ~(i < 1) BY <4>1, <4>3, <2>1
      <4>5. QED BY <4>1, <4>4, <2>1, <1>4
    <3>3. QED BY <3>1, <3>2, <1>4
  <2>8. QED BY <2>1, <2>2, <2>4, <2>5, <2>6, <2>7, <1>4, WalkFrom
<1>5. CASE WalksDone
  <2>1. UNCHANGED <<visit, stack, cur, deps, world, ctorLog>> /\ pc = "ctor"
    BY <1>5, Zenon DEF WalksDone, InWalk
  <2>2. QED BY <2>1, <1>4, <1>5
<1>6. CASE ConstructMain
  <2>1. /\ pc = "rest" /\ pc' = "linked" /\ UNCHANGED stack
        /\ visit' = [i \in 1 .. MaxDeps |-> 0]
    BY <1>6, Zenon DEF ConstructMain
  <2>2. stack = <<>> BY <2>1, Zenon DEF IInv, Walk
  <2>3. Stack'
    <3>1. 1 .. 0 = {} OBVIOUS
    <3>2. Len(stack') = 0 BY <2>1, <2>2
    <3>3. QED BY <3>1, <3>2, Zenon DEF Stack
  <2>4. pc' \notin {"ctor", "rest"} /\ stack' = <<>> BY <2>1, <2>2
  <2>5. QED BY <2>1, <2>3, <2>4, Zenon DEF Walk
<1>7. CASE DepsDone \/ RegisterTls \/ TlsDone \/ ProcessRelocation \/ ImageDone \/ RelocsDone
           \/ RegisterUnwind
  <2>1. UNCHANGED <<visit, stack>> /\ pc \in {"deps", "tls", "reloc", "unwind"}
    BY <1>7, Zenon DEF DepsDone, RegisterTls, TlsDone, ProcessRelocation, ImageDone, RelocsDone,
       RegisterUnwind, LinkVarsInDeps, walkVars
  <2>2. pc' \in {"deps", "tls", "reloc", "unwind", "fini"}
    <3>1. pc' \in Loading \cup {"fini", "linked"} /\ (pc' = "linked" <=> ConstructMain)
          /\ (pc' \in {"ctor", "rest"} => pc \in {"unwind", "ctor", "rest"})
      BY <1>7, LinkStepFrame DEF LinkStep
    <3>2. RegisterUnwind => pc' = pc BY Zenon DEF RegisterUnwind
    <3>3. ~RegisterUnwind => pc # "unwind"
      BY <1>7, Zenon DEF DepsDone, RegisterTls, TlsDone, ProcessRelocation, ImageDone, RelocsDone
    <3>4. ConstructMain => pc = "rest" BY Zenon DEF ConstructMain
    <3>5. QED BY <2>1, <3>1, <3>2, <3>3, <3>4 DEF Loading
  <2>3. QED BY <2>1, <2>2, <1>1
<1>8. CASE LinkStep BY <1>2, <1>3, <1>5, <1>6, <1>7, <1>8, Zenon DEF LinkStep
<1>9. CASE StartLoad
  <2>1. UNCHANGED <<visit, stack>> /\ pc = "idle" BY <1>9, Zenon DEF StartLoad, walkVars
  <2>2. pc' \in {"idle", "deps"} BY <1>9, <2>1, StartLoadIs
  <2>3. QED BY <2>1, <2>2, <1>1
<1>10. CASE ResolveNeeded BY <1>10, <1>1, ResolveFrame
<1>11. CASE FindEntry \/ StartRelease \/ RunDestructors \/ ReleaseDependency \/ ReleaseMain
  <2>1. /\ UNCHANGED <<visit, stack>> /\ pc \in {"linked", "idle", "fini", "release"}
        /\ pc' \in {"idle", "fini", "release"}
    BY <1>11 DEF FindEntry, StartRelease, RunDestructors, ReleaseDependency, ReleaseMain,
       LinkFails, walkVars
  <2>2. QED BY <2>1, <1>1
<1>12. CASE (\E t \in Threads : AccessTls(t) \/ ThreadExit(t)) \/ Deinit
  <2>1. UNCHANGED <<visit, stack, cur, deps, world, ctorLog, pc, k>> BY <1>12, ThreadStepFrame
  <2>2. QED BY <2>1, <1>1, <1>4
<1>13. QED BY <1>8, <1>9, <1>10, <1>11, <1>12, StepKinds

(* A module of which nothing new has been constructed keeps its order.       *)
LEMMA OrderOfOthers ==
  ASSUME ctorLog \in Seq(Images), NEW x \in Images, x \notin Constructed,
         ctorLog' = Append(ctorLog, x), UNCHANGED world,
         NEW m \in Mods, m # ModuleOf(x),
         Main(m) \in Constructed => \A l \in ManualFiles(m) :
             /\ Precedes(<<m, l>>, Main(m))
             /\ AboveCycle(m, l) \/
                \A n \in ManualFiles(m) : Needs(l, n) => Precedes(<<m, n>>, <<m, l>>)
  PROVE  Main(m) \in Constructed' => \A l \in ManualFiles(m)' :
             /\ Precedes(<<m, l>>, Main(m))'
             /\ AboveCycle(m, l)' \/
                \A n \in ManualFiles(m)' : Needs(l, n)' => Precedes(<<m, n>>, <<m, l>>)'
<1>1. Constructed' = Constructed \cup {x}
  <2>1. Range(Append(ctorLog, x)) = Range(ctorLog) \cup {x} BY RangeAppend
  <2>2. QED BY <2>1, Zenon DEF Constructed
<1>2. \A l : <<m, l>> # x BY DEF ModuleOf
<1>3. Main(m) # x BY <1>2 DEF Main
<1>4. ManualFiles(m)' = ManualFiles(m)
  <2>1. {j \in Constructed' : ModuleOf(j) = m} = {j \in Constructed : ModuleOf(j) = m} BY <1>1
  <2>2. QED BY <2>1 DEF ManualFiles, ModuleOf, FileOf
<1>5. \A l, n : Needs(l, n)' <=> Needs(l, n) BY Zenon DEF Needs
<1>6. \A l : AboveCycle(m, l)' <=> AboveCycle(m, l) BY <1>4, <1>5, Zenon DEF AboveCycle
<1>7. \A a, b : Precedes(a, b) /\ a # x /\ b # x => Precedes(a, b)'
  BY PrecedesAppend, Zenon DEF Precedes
<1>8. Main(m) = Main(m)' /\ (Main(m) \in Constructed' => Main(m) \in Constructed)
  BY <1>1, <1>3 DEF Main
<1>9. ASSUME Main(m) \in Constructed', NEW l \in ManualFiles(m)'
      PROVE  /\ Precedes(<<m, l>>, Main(m))'
             /\ AboveCycle(m, l)' \/
                \A n \in ManualFiles(m)' : Needs(l, n)' => Precedes(<<m, n>>, <<m, l>>)'
  <2>1. Main(m) \in Constructed /\ l \in ManualFiles(m) BY <1>4, <1>8, <1>9
  <2>2. Precedes(<<m, l>>, Main(m))' BY <2>1, <1>2, <1>3, <1>7
  <2>3. QED BY <2>1, <2>2, <1>2, <1>4, <1>5, <1>6, <1>7, Zenon
<1>10. QED BY <1>9

(* The order of the constructors.                                            *)
LEMMA OrderKeeps ==
  ASSUME IInv, Next
  PROVE  ConstructedInOrder'
<1>1. ctorLog \in Seq(Images) BY DEF IInv, Types
<1>2. /\ \A p, q \in DOMAIN ctorLog : ctorLog[p] = ctorLog[q] => p = q
      /\ \A m \in Mods : Main(m) \in Constructed => \A l \in ManualFiles(m) :
             /\ Precedes(<<m, l>>, Main(m))
             /\ AboveCycle(m, l) \/
                \A n \in ManualFiles(m) : Needs(l, n) => Precedes(<<m, n>>, <<m, l>>)
  BY Zenon DEF IInv, ConstructedInOrder, Mods
<1>3. CASE UNCHANGED <<ctorLog, world>>
  <2>1. Constructed' = Constructed BY <1>3, Zenon DEF Constructed
  <2>2. \A m : ManualFiles(m)' = ManualFiles(m) BY <2>1, Zenon DEF ManualFiles, ModuleOf, FileOf
  <2>3. \A l, n : Needs(l, n)' <=> Needs(l, n) BY <1>3, Zenon DEF Needs
  <2>4. \A m, l : AboveCycle(m, l)' <=> AboveCycle(m, l) BY <2>2, <2>3, Zenon DEF AboveCycle
  <2>5. \A a, b : Precedes(a, b)' <=> Precedes(a, b) BY <1>3, Zenon DEF Precedes
  <2>6. \A m \in Mods : Main(m) \in Constructed' => \A l \in ManualFiles(m)' :
             /\ Precedes(<<m, l>>, Main(m))'
             /\ AboveCycle(m, l)' \/
                \A n \in ManualFiles(m)' : Needs(l, n)' => Precedes(<<m, n>>, <<m, l>>)'
    <3>1. \A m : Main(m)' = Main(m) BY DEF Main
    <3>2. QED BY <1>2, <2>1, <2>2, <2>3, <2>4, <2>5, <3>1, Zenon
  <2>7. QED BY <1>2, <1>3, <2>6, Zenon DEF ConstructedInOrder, Main, Mods
<1>4. ASSUME NEW x \in Images, x \notin Constructed, ctorLog' = Append(ctorLog, x),
             UNCHANGED world,
             Main(ModuleOf(x)) \in Constructed' => \A l \in ManualFiles(ModuleOf(x))' :
               /\ Precedes(<<ModuleOf(x), l>>, Main(ModuleOf(x)))'
               /\ AboveCycle(ModuleOf(x), l)' \/
                  \A n \in ManualFiles(ModuleOf(x))' :
                    Needs(l, n)' => Precedes(<<ModuleOf(x), n>>, <<ModuleOf(x), l>>)'
      PROVE  ConstructedInOrder'
  <2>1. \A p, q \in DOMAIN ctorLog' : ctorLog'[p] = ctorLog'[q] => p = q
    BY <1>1, <1>2, <1>4, PrecedesAppend
  <2>2. ASSUME NEW m \in Mods
        PROVE  Main(m) \in Constructed' => \A l \in ManualFiles(m)' :
                 /\ Precedes(<<m, l>>, Main(m))'
                 /\ AboveCycle(m, l)' \/
                    \A n \in ManualFiles(m)' : Needs(l, n)' => Precedes(<<m, n>>, <<m, l>>)'
    <3>1. CASE m = ModuleOf(x) BY <3>1, <1>4, Zenon
    <3>2. CASE m # ModuleOf(x) BY <3>2, <1>1, <1>2, <1>4, OrderOfOthers, Zenon
    <3>3. QED BY <3>1, <3>2
  <2>3. QED BY <2>1, <2>2, Zenon DEF ConstructedInOrder, Main, Mods
<1>5. CASE LinkStep
  <2>1. cur \in Mods /\ cur \in Holding /\ Types /\ Named BY <1>5, ConstructedGrows DEF IInv
  <2>2. /\ UNCHANGED <<world, cur, deps>> /\ pc \in Loading BY <1>5, LinkStepFrame
  <2>3. CASE UNCHANGED ctorLog BY <2>2, <2>3, <1>3
  <2>4. ASSUME NEW p \in ToLink(cur), ctorLog' = Append(ctorLog, ImageAt(cur, p)),
               Constructed' = Constructed \cup {ImageAt(cur, p)},
               p = 0 <=> ConstructMain, pc \in {"ctor", "rest"}, visit[p] # 2 \/ p = 0
        PROVE  ConstructedInOrder'
    <3>0. PICK x : x = ImageAt(cur, p) OBVIOUS
    <3>1. /\ p \in 0 .. Len(deps[cur]) /\ x \in Images /\ ModuleOf(x) = cur
          /\ Main(cur) \notin Constructed
          /\ p # 0 => p \in ManualAt(cur) /\ x # Main(cur)
          /\ p = 0 => x = Main(cur)
      <4>1. p \in 0 .. Len(deps[cur]) BY <2>1, Layout
      <4>2. Main(cur) \notin Constructed BY <2>2, Zenon DEF IInv, Built
      <4>3. QED BY <3>0, <4>1, <4>2, <2>1, Layout
    <3>2. x \notin Constructed
      <4>1. CASE p = 0 BY <4>1, <3>1
      <4>2. CASE p # 0
        <5>1. \A i \in ManualAt(cur) : visit[i] = 2 <=> ImageAt(cur, i) \in Constructed
          BY <2>4, Zenon DEF IInv, Walk
        <5>2. QED BY <5>1, <4>2, <3>0, <3>1, <2>4
      <4>3. QED BY <4>1, <4>2
    <3>3. CASE p # 0
      <4>1. Main(cur) \notin Constructed' BY <3>0, <3>1, <3>3, <2>4
      <4>2. Main(ModuleOf(x)) \notin Constructed' BY <4>1, <3>1
      <4>3. QED BY <3>0, <4>2, <3>1, <3>2, <2>2, <2>4, <1>4
    <3>4. CASE p = 0
      <4>1. /\ pc = "rest"
            /\ \A i \in ManualAt(cur) : visit[i] = 2 /\ ImageAt(cur, i) \in Constructed
        BY <3>4, <2>4, MainIsLast
      <4>2. PICK c \in Mods : c = cur /\ c = cur' BY <2>1, <2>2
      <4>3. x = Main(c) /\ Constructed' = Constructed \cup {x} /\ ctorLog' = Append(ctorLog, x)
        BY <4>2, <3>0, <3>1, <3>4, <2>4
      <4>4. /\ \A a, b : Precedes(a, b) /\ a # x /\ b # x => Precedes(a, b)'
            /\ \A a : a # x => Precedes(a, x)'
        <5>1. /\ \A a, b : Precedes(a, b) /\ a # x /\ b # x =>
                   \A r, q \in DOMAIN ctorLog' : ctorLog'[r] = a /\ ctorLog'[q] = b => r < q
              /\ \A a : a # x =>
                   \A r, q \in DOMAIN ctorLog' : ctorLog'[r] = a /\ ctorLog'[q] = x => r < q
          BY <4>3, <3>1, <3>2, <1>1, PrecedesAppend
        <5>2. QED BY <5>1, Zenon DEF Precedes
      <4>5. ASSUME NEW l \in ManualFiles(c)'
            PROVE  \E i \in ManualAt(c) : LibAt(i) = l /\ ImageAt(c, i) = <<c, l>>
        <5>1. PICK j \in Constructed' : ModuleOf(j) = c /\ FileOf(j) = l /\ l # c
          BY DEF ManualFiles, ModuleOf, FileOf
        <5>2. j # x BY <5>1, <4>3, MainImage
        <5>3. j \in Constructed BY <5>1, <5>2, <4>3
        <5>4. j \in LinkedImages(c) BY <5>1, <5>3, <4>2, <2>1, Zenon DEF IInv, Built
        <5>5. PICK i \in ToLink(c) : j = ImageAt(c, i) BY <5>4 DEF LinkedImages
        <5>6. i # 0 BY <5>2, <5>5, <4>2, <4>3, <2>1, Layout
        <5>7. i \in ManualAt(c) /\ i \in 0 .. Len(deps[c]) BY <5>5, <5>6, <2>1, Layout
        <5>8. l = deps[c][i].lib /\ ImageAt(c, i) = <<c, deps[c][i].lib>>
          BY <5>1, <5>5, <5>6, <5>7, <2>1, Layout
        <5>9. QED BY <5>7, <5>8, <4>2 DEF LibAt
      <4>6. ASSUME NEW i \in ManualAt(c) PROVE LibAt(i) \in ManualFiles(c)'
        <5>1. i \in 0 .. Len(deps[c]) /\ i # 0 BY <2>1, Layout
        <5>2. /\ ImageAt(c, i) = <<c, LibAt(i)>> /\ ImageAt(c, i) \in Constructed'
              /\ ImageAt(c, i) # Main(c)
          BY <5>1, <4>1, <4>2, <4>3, <2>1, Layout DEF LibAt
        <5>3. LibAt(i) # c BY <5>2 DEF Main
        <5>4. ModuleOf(ImageAt(c, i)) = c /\ FileOf(ImageAt(c, i)) = LibAt(i)
          BY <5>2 DEF ModuleOf, FileOf
        <5>5. QED BY <5>2, <5>3, <5>4 DEF ManualFiles, ModuleOf, FileOf
      <4>7. \A i, j : NeedsAt(i, j) <=> Needs(LibAt(i), LibAt(j)) BY DEF NeedsAt, Needs
      <4>8. \A l, n : Needs(l, n)' <=> Needs(l, n) BY <2>2, Zenon DEF Needs
      <4>9. ASSUME NEW i \in ManualAt(c), NoOrder(i), NEW l, l = LibAt(i)
            PROVE  AboveCycle(c, l)'
        <5>1. PICK endless \in SUBSET ManualAt(c) :
                 i \in endless /\ \A e \in endless : \E f \in endless : NeedsAt(e, f)
          BY <4>2, <4>9 DEF NoOrder
        <5>2. PICK S : S = {LibAt(e) : e \in endless} OBVIOUS
        <5>3. S \in SUBSET (ManualFiles(c)') /\ l \in S BY <5>1, <5>2, <4>6, <4>9
        <5>4. \A e \in S : \E f \in S : Needs(e, f)' BY <5>1, <5>2, <4>7, <4>8
        <5>5. QED BY <5>3, <5>4, Zenon DEF AboveCycle
      <4>10. ASSUME NEW l \in ManualFiles(c)'
             PROVE  /\ Precedes(<<c, l>>, Main(c))'
                    /\ AboveCycle(c, l)' \/
                       \A n \in ManualFiles(c)' : Needs(l, n)' => Precedes(<<c, n>>, <<c, l>>)'
        <5>1. PICK i \in ManualAt(c) : LibAt(i) = l /\ ImageAt(c, i) = <<c, l>>
          BY <4>5
        <5>2. <<c, l>> \in Constructed /\ <<c, l>> # x BY <5>1, <4>1, <4>2, <3>2
        <5>3. Precedes(<<c, l>>, x)' BY <5>2, <4>4
        <5>4. CASE NoOrder(i)
          <6>1. AboveCycle(c, l)' BY <5>1, <5>4, <4>9
          <6>2. QED BY <6>1, <5>3, <4>3 DEF Main
        <5>5. CASE ~NoOrder(i)
          <6>1. \A j \in ManualAt(c) : NeedsAt(i, j) => Precedes(ImageAt(c, j), ImageAt(c, i))
            BY <5>1, <5>5, <4>1, <4>2 DEF IInv, Walk
          <6>2. ASSUME NEW n \in ManualFiles(c)', Needs(l, n)' PROVE Precedes(<<c, n>>, <<c, l>>)'
            <7>1. PICK j \in ManualAt(c) : LibAt(j) = n /\ ImageAt(c, j) = <<c, n>> BY <4>5
            <7>2. NeedsAt(i, j) BY <7>1, <6>2, <5>1, <4>7, <4>8
            <7>3. Precedes(<<c, n>>, <<c, l>>) BY <7>1, <7>2, <6>1, <5>1
            <7>4. <<c, n>> # x BY <7>1, <4>1, <4>2, <3>2
            <7>5. QED BY <7>3, <7>4, <5>2, <4>4
          <6>3. QED BY <6>2, <5>3, <4>3 DEF Main
        <5>6. QED BY <5>4, <5>5
      <4>11. ModuleOf(x) = c BY <4>2, <3>1
      <4>12. x \in Images /\ x \notin Constructed BY <3>1, <3>2
      <4>13. QED BY <4>3, <4>10, <4>11, <4>12, <2>2, <1>4
    <3>5. QED BY <3>3, <3>4
  <2>5. QED BY <1>5, <2>3, <2>4, ConstructedGrows
<1>6. CASE StartLoad \/ ResolveNeeded \/ FindEntry \/ StartRelease \/ RunDestructors
           \/ ReleaseDependency \/ ReleaseMain
  <2>1. UNCHANGED <<ctorLog, world>>
    BY <1>6, Zenon DEF StartLoad, ResolveNeeded, FindEntry, StartRelease, RunDestructors,
       ReleaseDependency, ReleaseMain, LinkVarsInDeps
  <2>2. QED BY <2>1, <1>3
<1>7. CASE (\E t \in Threads : AccessTls(t) \/ ThreadExit(t)) \/ Deinit
  <2>1. UNCHANGED <<ctorLog, world>> BY <1>7, ThreadStepFrame
  <2>2. QED BY <2>1, <1>3
<1>8. QED BY <1>5, <1>6, <1>7, StepKinds

(* Before anything is loaded.                                                *)
LEMMA InitHolds == Init => IInv
<1> SUFFICES ASSUME Init PROVE IInv OBVIOUS
<1>1. /\ world \in Worlds /\ queue = Mains /\ phase = "load" /\ pc = "idle" /\ cur = NoMain
      /\ k = 0 /\ rel = 1 /\ unload = FALSE /\ stack = <<>> /\ ctorLog = <<>>
      /\ visit = [i \in 1 .. MaxDeps |-> 0]
      /\ deps = [m \in Mods |-> <<>>] /\ linked = [m \in Mods |-> FALSE]
      /\ addr = [m \in Mods |-> "local"] /\ life = [m \in Mods |-> "none"]
      /\ bound = [i \in Images |-> {}]
      /\ mapped = {} /\ leaked = {} /\ live = {} /\ finalised = {}
      /\ backtrace = {} /\ frames = {} /\ registry = {}
      /\ TlsInit
  BY Zenon DEF Init, Mods
<1>2. TlsTypeOK /\ ThreadsInStep
  BY <1>1, TlsAssumption DEF TlsInit, TlsTypeOK, ThreadsInStep, InStep, NewThread, Slots
<1>3. \A m \in Mods : deps[m] = <<>> /\ life[m] = "none" /\ linked[m] = FALSE BY <1>1
<1>4. Holding = {} BY <1>3 DEF Holding
<1>5. Range(<<>>) = {} BY DEF Range
<1>6. Constructed = {} BY <1>1, <1>5, Zenon DEF Constructed
<1>7. 1 .. 0 = {} OBVIOUS
<1>8. Types
  <2>1. /\ queue \in Seq(Mods) /\ deps \in [Mods -> Seq(Dep)] /\ linked \in [Mods -> BOOLEAN]
        /\ addr \in [Mods -> {"local"} \cup Mods]
        /\ life \in [Mods -> {"none", "loading", "linked", "kept", "gone"}]
        /\ bound \in [Images -> SUBSET Images] /\ ctorLog \in Seq(Images)
        /\ visit \in [1 .. MaxDeps -> 0 .. 2] /\ stack \in Seq(Frame)
        /\ k \in Nat /\ rel \in Nat
    BY <1>1, LinkerAssumption DEF Mods
  <2>2. unload \in BOOLEAN BY <1>1, Zenon
  <2>3. TypeOK
    <3>1. \A m \in Range(Mains) :
            /\ deps[m] \in Seq([lib : Libs, manual : BOOLEAN])
            /\ life[m] \in {"none", "loading", "linked", "kept", "gone"}
            /\ addr[m] \in {"local", m}
      BY <1>1 DEF Mods
    <3>2. /\ {mapped, live, leaked, finalised, backtrace, frames} \subseteq SUBSET Images
          /\ registry \subseteq {"local"} \cup Range(Mains)
          /\ cur \in Range(Mains) \cup {NoMain}
      BY <1>1
    <3>3. QED BY <1>1, <1>2, <3>1, <3>2, Zenon DEF TypeOK
  <2>4. QED BY <2>1, <2>2, <2>3, Zenon DEF Types
<1>9. Named
  <2>1. \A m \in Mods : Len(deps[m]) = 0 /\ DOMAIN deps[m] = {} BY <1>3
  <2>2. 0 <= MaxDeps BY LinkerAssumption
  <2>3. QED BY <2>1, <2>2, Zenon DEF Named
<1>10. Stage
  <2>1. /\ \A i \in 1 .. Len(queue) : queue[i] \in Mods
        /\ \A i, j \in 1 .. Len(queue) : queue[i] = queue[j] => i = j
    BY <1>1, LinkerAssumption DEF Mods, IsInjective
  <2>2. QED BY <1>1, <1>3, <2>1 DEF Stage, Loading
<1>11. Emptied BY <1>3 DEF Emptied
<1>12. Built
  <2>1. \A m \in Mods : life[m] # "linked" /\ ~linked[m] /\ Main(m) \notin Constructed
    BY <1>3, <1>6
  <2>2. pc \notin Loading BY <1>1 DEF Loading
  <2>3. QED BY <1>4, <1>6, <2>1, <2>2, Zenon DEF Built
<1>13. Alive BY <1>1, <1>4, Zenon DEF Alive
<1>14. Memory
  <2>1. \A i \in Images : bound[i] = {} BY <1>1
  <2>2. \A i \in mapped \ leaked : FALSE BY <1>1
  <2>3. finalised \subseteq Constructed BY <1>1
  <2>4. QED BY <1>4, <1>6, <2>1, <2>2, <2>3, Zenon DEF Memory
<1>15. Unwinder BY <1>1 DEF Unwinder
<1>16. Owned
  <2>1. /\ \A s \in Slots : modules[s] = NoImage
        /\ \A i \in Images : modId[i] = 0
    BY <1>1 DEF TlsInit
  <2>2. QED BY <1>1, <2>1 DEF Owned, SlotTable
<1>17. Walk
  <2>1. Stack
    <3>1. Len(stack) = 0 BY <1>1
    <3>2. QED BY <3>1, <1>7, Zenon DEF Stack
  <2>2. QED BY <1>1, <2>1 DEF Walk
<1>18. ConstructedInOrder
  <2>1. DOMAIN ctorLog = {} BY <1>1
  <2>2. QED BY <1>6, <2>1, Zenon DEF ConstructedInOrder
<1>19. QED BY <1>2, <1>8, <1>9, <1>10, <1>11, <1>12, <1>13, <1>14, <1>15, <1>16, <1>17,
           <1>18, Zenon DEF IInv

(* Every step keeps the invariant.                                           *)
LEMMA NextKeeps ==
  ASSUME IInv, Next
  PROVE  IInv'
BY TypesKeeps, NamedKeeps, StageKeeps, EmptiedKeeps, BuiltKeeps, AliveKeeps, MemoryKeeps,
   UnwinderKeeps, OwnedKeeps, TlsKeeps, WalkKeeps, OrderKeeps, Zenon DEF IInv

(* So does a step that changes nothing.                                      *)
LEMMA StutterKeeps ==
  ASSUME IInv, UNCHANGED vars
  PROVE  IInv'
<1>1. UNCHANGED linkVars /\ UNCHANGED tlsVars BY Zenon DEF vars
<1>2. /\ UNCHANGED <<world, queue, phase, pc, cur, k, names, deps, linked, unload,
                     rel, visit, stack, addr, life>>
      /\ UNCHANGED <<mapped, leaked, live, bound, tlsRefs, ctorLog, finalised, backtrace,
                     frames, registry>>
      /\ UNCHANGED <<modules, generation, modId, tracked, thread>>
  BY <1>1, Zenon DEF linkVars, tlsVars
<1>3. Types' BY <1>2, Zenon DEF IInv, Types, TypeOK, TlsTypeOK
<1>4. Named' BY <1>2, Zenon DEF IInv, Named
<1>5. Stage' /\ Emptied' BY <1>2, Zenon DEF IInv, Stage, Emptied, Holding
<1>6. Constructed' = Constructed /\ Holding' = Holding
  BY <1>2, Zenon DEF Constructed, Holding
<1>7. /\ \A m : LinkedImages(m)' = LinkedImages(m) /\ ToLink(m)' = ToLink(m)
      /\ \A m, p : ImageAt(m, p)' = ImageAt(m, p)
  BY <1>2, SameImages
<1>8. \A m : Held(m)' = Held(m) /\ Kept(m)' = Kept(m) BY <1>2, HeldFrame
<1>9. \A m : Unloaded(m)' <=> Unloaded(m) BY <1>2, UnloadedFrame
<1>10. Pending' = Pending BY <1>2, <1>7, Zenon DEF Pending
<1>11. \A i : IsSystem(i)' <=> IsSystem(i) BY <1>2, Zenon DEF IsSystem, FileOf
<1>12. Built'
  <2>1. Built BY DEF IInv
  <2>2. QED BY <1>2, <1>6, <1>7, <2>1 DEF Built, ModuleOf, Main
<1>13. Alive'
  <2>1. Alive BY DEF IInv
  <2>2. QED BY <1>2, <1>6, <1>7, <1>8, <2>1 DEF Alive, ModuleOf
<1>14. Memory'
  <2>1. Memory BY DEF IInv
  <2>2. QED BY <1>2, <1>6, <1>7, <1>8, <1>9, <1>11, <2>1 DEF Memory, ModuleOf
<1>15. Unwinder'
  <2>1. Unwinder BY DEF IInv
  <2>2. QED BY <1>2, <1>6, <1>9, <1>10, <2>1 DEF Unwinder, ModuleOf
<1>16. Owned' /\ ThreadsInStep'
  <2>1. Owned /\ ThreadsInStep BY DEF IInv
  <2>2. QED BY <1>2, <1>7, <2>1 DEF Owned, SlotTable, ThreadsInStep, InStep
<1>17. Walk'
  <2>1. Walk BY DEF IInv
  <2>2. Stack'
    <3>1. Stack BY <2>1 DEF Walk
    <3>2. Stack => Stack' BY <1>2, StackSame
    <3>3. QED BY <3>1, <3>2
  <2>3. CASE pc \in {"ctor", "rest"}
    <3>1. /\ k >= 1
          /\ \A i \in 1 .. MaxDeps : visit[i] # 0 => i \in ManualAt(cur)
          /\ \A i \in ManualAt(cur) : visit[i] = 2 <=> ImageAt(cur, i) \in Constructed
          /\ \A i \in ManualAt(cur) : i < k \/ pc = "rest" => visit[i] # 0
          /\ \A i \in ManualAt(cur) : i < k /\ pc = "rest" => visit[i] = 2
          /\ \A i \in ManualAt(cur) : visit[i] = 1 =>
               (\E p \in 1 .. Len(stack) : stack[p].dep = i) \/ NoOrder(i)
          /\ \A i \in ManualAt(cur) : visit[i] = 2 =>
               NoOrder(i) \/ \A j \in ManualAt(cur) : NeedsAt(i, j) =>
                                visit[j] = 2 /\ Precedes(ImageAt(cur, j), ImageAt(cur, i))
          /\ pc # "ctor" => stack = <<>>
      BY <2>1, <2>3, Zenon DEF Walk, OnStack
    <3>2. \A a, b : Precedes(a, b) =>
             \A p, q \in DOMAIN ctorLog' : ctorLog'[p] = a /\ ctorLog'[q] = b => p < q
      BY <1>2, Zenon DEF Precedes
    <3>3. \A i \in ManualAt(cur) : visit'[i] = 2 =>
            NoOrder(i) \/ \A j \in ManualAt(cur) : NeedsAt(i, j) =>
              /\ visit'[j] = 2
              /\ \A p, q \in DOMAIN ctorLog' :
                   ctorLog'[p] = ImageAt(cur, j) /\ ctorLog'[q] = ImageAt(cur, i) => p < q
      BY <3>1, <3>2, <1>2, ZenonT(30)
    <3>4. \A i \in ManualAt(cur) : visit'[i] = 1 =>
            (\E p \in 1 .. Len(stack') : stack'[p].dep = i) \/ NoOrder(i)
      BY <3>1, <1>2
    <3>5. QED BY <3>1, <3>3, <3>4, <2>2, <2>3, <1>2, <1>6, WalkFrom
  <2>4. CASE pc \notin {"ctor", "rest"} BY <1>2, <2>1, <2>2, <2>4, Zenon DEF Walk
  <2>5. QED BY <2>3, <2>4
<1>18. ConstructedInOrder'
  <2>1. \A m : ManualFiles(m)' = ManualFiles(m) BY <1>6, Zenon DEF ManualFiles, ModuleOf, FileOf
  <2>2. \A l, n : Needs(l, n)' <=> Needs(l, n) BY <1>2, Zenon DEF Needs
  <2>3. \A m, l : AboveCycle(m, l)' <=> AboveCycle(m, l) BY <2>1, <2>2, Zenon DEF AboveCycle
  <2>4. \A a, b : Precedes(a, b)' <=> Precedes(a, b) BY <1>2, Zenon DEF Precedes
  <2>5. ConstructedInOrder BY DEF IInv
  <2>6. QED BY <1>2, <1>6, <2>1, <2>2, <2>3, <2>4, <2>5, Zenon DEF ConstructedInOrder, Main
<1>19. QED BY <1>3, <1>4, <1>5, <1>12, <1>13, <1>14, <1>15, <1>16, <1>17, <1>18, Zenon DEF IInv

(* Where the loader stands with each module, what of it is mapped, has been  *)
(* run and is known to the unwinder, who owns the TLS slots, and how far the *)
(* walk over the constructors has come.                                      *)
THEOREM InvariantHolds == Spec => []IInv
<1>1. Init => IInv BY InitHolds
<1>2. IInv /\ [Next]_vars => IInv' BY NextKeeps, StutterKeeps
<1>3. QED BY <1>1, <1>2, PTL DEF Spec

(* register_tls_segment, unregister_tls_segment and sync_thread_tls_locked   *)
(* keep the table, the images and the threads in step.                       *)
THEOREM TlsStaysInStep == Spec => []TlsInStep
<1>1. ASSUME IInv PROVE TlsInStep
  <2>1. TypeOK /\ live \subseteq Images BY <1>1 DEF IInv, Types, TypeOK
  <2>2. SlotTable /\ ThreadsInStep BY <1>1, Zenon DEF IInv, Owned
  <2>3. SlotsBelongToLive BY <2>1, <2>2 DEF SlotTable, SlotsBelongToLive
  <2>4. SyncedHoldsNoDead BY <2>2, Zenon DEF ThreadsInStep, InStep, SyncedHoldsNoDead
  <2>5. QED BY <2>1, <2>3, <2>4, Zenon DEF TlsInStep
<1>2. QED BY <1>1, InvariantHolds, PTL

(* Constructors run once, main's last, and each dependency's after those of  *)
(* the dependencies it needs, unless a cycle is in the way: linker_link and  *)
(* call_manual_constructors.                                                 *)
THEOREM ConstructorsInOrder == Spec => []ConstructedInOrder
<1>1. IInv => ConstructedInOrder BY DEF IInv
<1>2. QED BY <1>1, InvariantHolds, PTL

(* A module whose load failed or which was unloaded leaves nothing behind    *)
(* but what linker_link lost when a dependency could not be parsed, and what *)
(* got no slot in the backtrace registry.                                    *)
THEOREM UnloadIsComplete == Spec => []GoneLeavesNothing
<1>1. ASSUME IInv PROVE GoneLeavesNothing
  <2>1. ASSUME NEW m \in Range(Mains), life[m] = "gone", NEW img \in {m} \X Files
        PROVE  /\ img \notin live \cup backtrace \cup Range(modules)
               /\ img \in mapped => img \in leaked
               /\ Cardinality(Constructed) <= MaxCustomLibs /\ img \notin world.uncopied
                     => img \notin frames
    <3>1. ModuleOf(img) = m /\ img \in Images BY <2>1, LinkerAssumption DEF ModuleOf
    <3>2. m \notin Holding /\ life[m] # "kept" /\ Unloaded(m) BY <2>1 DEF Holding, Unloaded
    <3>3. img \notin live BY <1>1, <3>1, <3>2, Zenon DEF IInv, Alive
    <3>4. img \notin backtrace BY <1>1, <3>1, <3>2, Zenon DEF IInv, Unwinder
    <3>5. img \notin Range(modules)
      <4>1. modules \in [Slots -> Images \cup {NoImage}] BY <1>1 DEF IInv, Types, TypeOK, TlsTypeOK
      <4>2. \A s \in Slots : modules[s] # NoImage => modules[s] \in live
        BY <1>1, Zenon DEF IInv, Owned, SlotTable
      <4>3. img # NoImage BY <3>1, TlsAssumption
      <4>4. QED BY <3>3, <4>1, <4>2, <4>3 DEF Range
    <3>6. img \in mapped => img \in leaked BY <1>1, <3>1, <3>2 DEF IInv, Memory
    <3>7. img \notin Pending
      <4>1. ASSUME img \in Pending PROVE FALSE
        <5>1. pc \in {"unwind", "ctor", "rest"} /\ img \in LinkedImages(cur) BY <4>1 DEF Pending
        <5>2. cur \in Holding /\ cur \in Mods BY <5>1, <1>1 DEF IInv, Stage, Holding
        <5>3. Types /\ Named BY <1>1 DEF IInv
        <5>4. ModuleOf(img) = cur
          <6>1. PICK p \in ToLink(cur) : img = ImageAt(cur, p) BY <5>1 DEF LinkedImages
          <6>2. p \in 0 .. Len(deps[cur]) BY <5>2, <5>3, Layout
          <6>3. QED BY <6>1, <6>2, <5>2, <5>3, Layout
        <5>5. QED BY <5>2, <5>4, <3>1, <3>2
      <4>2. QED BY <4>1
    <3>8. Cardinality(Constructed) <= MaxCustomLibs /\ img \notin world.uncopied
             => img \notin frames
      <4>1. ASSUME img \in frames, img \notin world.uncopied
            PROVE  Cardinality(Constructed) > MaxCustomLibs
        BY <1>1, <3>4, <3>7, <4>1, Zenon DEF IInv, Unwinder
      <4>2. IsFiniteSet(Constructed)
        <5>1. ctorLog \in Seq(Images) BY <1>1 DEF IInv, Types
        <5>2. QED BY <5>1, RangeFinite DEF Constructed
      <4>3. Cardinality(Constructed) \in Nat /\ MaxCustomLibs \in Nat
        BY <4>2, FS_CardinalityType, LinkerAssumption
      <4>4. QED BY <4>1, <4>3
    <3>9. QED BY <3>3, <3>4, <3>5, <3>6, <3>8
  <2>2. QED BY <2>1, Zenon DEF GoneLeavesNothing
<1>2. QED BY <1>1, InvariantHolds, PTL

(* Nothing the process may still run or read leads to memory that is gone:   *)
(* linker_destroy, linker_abandon and the failures of linker_link.           *)
THEOREM MemoryIsThere == Spec => []NothingDangles
<1>1. ASSUME IInv PROVE NothingDangles
  <2>1. /\ \A i \in Constructed : i \in mapped \/ Unloaded(ModuleOf(i))
        /\ \A i \in Constructed : Unloaded(ModuleOf(i)) => i \in finalised
        /\ finalised \subseteq Constructed
        /\ \A i \in Images : \A p \in bound[i] :
             /\ ModuleOf(p) = ModuleOf(i)
             /\ p \in mapped \/ IsSystem(p) \/ Unloaded(ModuleOf(i))
        /\ \A m \in Holding : \A p \in ToLink(m) \cap Kept(m) : ImageAt(m, p) \in mapped
    BY <1>1, Zenon DEF IInv, Memory
  <2>2. /\ backtrace \cup frames \subseteq Constructed \cup Pending
        /\ \A i \in backtrace : ~Unloaded(ModuleOf(i))
        /\ \A i \in frames : i \in backtrace \/ i \in Pending \/ i \in world.uncopied
                              \/ Cardinality(Constructed) > MaxCustomLibs
    BY <1>1, Zenon DEF IInv, Unwinder
  <2>3. Pending \subseteq mapped
    <3>1. ASSUME NEW i \in Pending PROVE i \in mapped
      <4>1. pc \in {"unwind", "ctor", "rest"} /\ i \in LinkedImages(cur) BY <3>1 DEF Pending
      <4>2. cur \in Holding /\ cur \in Mods BY <4>1, <1>1 DEF IInv, Stage, Holding
      <4>3. PICK p \in ToLink(cur) : i = ImageAt(cur, p) BY <4>1 DEF LinkedImages
      <4>4. p \in 0 .. Len(deps[cur])
        <5>1. Types /\ Named BY <1>1 DEF IInv
        <5>2. QED BY <4>2, <5>1, Layout
      <4>5. Kept(cur) = 0 .. Len(deps[cur]) BY <4>1 DEF Kept
      <4>6. QED BY <2>1, <4>2, <4>3, <4>4, <4>5
    <3>2. QED BY <3>1
  <2>4. backtrace \subseteq mapped BY <2>1, <2>2, <2>3
  <2>5. Cardinality(Constructed) <= MaxCustomLibs => frames \ world.uncopied \subseteq mapped
    <3>1. IsFiniteSet(Constructed)
      <4>1. ctorLog \in Seq(Images) BY <1>1 DEF IInv, Types
      <4>2. QED BY <4>1, RangeFinite DEF Constructed
    <3>2. Cardinality(Constructed) \in Nat /\ MaxCustomLibs \in Nat
      BY <3>1, FS_CardinalityType, LinkerAssumption
    <3>3. QED BY <2>2, <2>3, <2>4, <3>2
  <2>6. \A img \in Running : \A p \in bound[img] : p \in mapped \/ IsSystem(p)
    <3>1. Constructed \subseteq Images BY <1>1 DEF IInv, Types, Constructed, Range
    <3>2. QED BY <3>1, <2>1 DEF Running
  <2>7. Constructed \ mapped \subseteq finalised BY <2>1
  <2>8. QED BY <2>1, <2>4, <2>5, <2>6, <2>7, Zenon DEF NothingDangles
<1>2. QED BY <1>1, InvariantHolds, PTL
=============================================================================
