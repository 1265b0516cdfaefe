------------------------ MODULE SymbolicationProofs ------------------------
(***************************************************************************)
(* Theorems about Minidump, NativeSymbolication and Proguard, for any      *)
(* requests, and about Symsorter, for any files.                           *)
(***************************************************************************)
EXTENDS Minidump, Proguard, Symsorter, Recursion, SequenceTheorems

-----------------------------------------------------------------------------
(* The modules by address *)

\* Starts compare.
Comparable(modules, some) == \A i \in some : i \in Nat /\ modules[i].start \in Nat

\* How many of the modules come before module i.
Rank(modules, some, i) == Cardinality({k \in some : Before(modules, k, i)})

LEMMA RankGrows ==
    ASSUME NEW modules, NEW some, IsFiniteSet(some), Comparable(modules, some),
           NEW i \in some
    PROVE  /\ Rank(modules, some, i) \in 0 .. Cardinality(some) - 1
           /\ \A k \in some : Before(modules, i, k) => Rank(modules, some, i) < Rank(modules, some, k)
  <1> DEFINE S(k) == {j \in some : Before(modules, j, k)}
  <1>1. \A k \in some : IsFiniteSet(S(k)) /\ Cardinality(S(k)) \in Nat
    BY FS_Subset, FS_CardinalityType
  <1>2. i \notin S(i)
    BY DEF Before, Comparable
  <1>3. Cardinality(S(i)) < Cardinality(some)
    <2>1. S(i) \in SUBSET some /\ S(i) # some
      BY <1>2
    <2> HIDE DEF S
    <2> QED
      BY <2>1, FS_Subset, FS_CardinalityType
  <1>4. ASSUME NEW k \in some, Before(modules, i, k) PROVE Cardinality(S(i)) < Cardinality(S(k))
    <2>1. S(i) \in SUBSET S(k)
      BY <1>4 DEF Before, Comparable
    <2>2. i \in S(k)
      BY <1>4
    <2>3. S(i) # S(k) /\ IsFiniteSet(S(k))
      BY <1>1, <1>2, <2>2
    <2> HIDE DEF S
    <2> QED
      BY <2>1, <2>3, FS_Subset, FS_CardinalityType
  <1>5. Cardinality(some) \in Nat
    BY FS_CardinalityType
  <1>6. \A k \in some : Rank(modules, some, k) = Cardinality(S(k))
    BY DEF Rank
  <1> HIDE DEF S
  <1> QED
    BY <1>1, <1>3, <1>4, <1>5, <1>6

\* Every module has its place, after those that come before it.
LEMMA ByAddressOrders ==
    ASSUME NEW modules, NEW some, IsFiniteSet(some), Comparable(modules, some),
           NEW order, order = ByAddress(modules, some)
    PROVE  /\ order \in [1 .. Cardinality(some) -> some]
           /\ \A i \in some : \E p \in 1 .. Cardinality(some) : order[p] = i
           /\ \A p, q \in 1 .. Cardinality(some) : p < q => Before(modules, order[p], order[q])
  <1> DEFINE n == Cardinality(some)
             R(i) == Rank(modules, some, i)
             f == [i \in some |-> R(i) + 1]
  <1>1. n \in Nat /\ \A i \in some : R(i) \in 0 .. n - 1
    BY FS_CardinalityType, RankGrows
  <1>2. \A i, k \in some : i # k => R(i) # R(k)
    <2> SUFFICES ASSUME NEW i \in some, NEW k \in some, i # k PROVE R(i) # R(k)
      OBVIOUS
    <2>1. Before(modules, i, k) \/ Before(modules, k, i)
      BY DEF Before, Comparable
    <2>2. Before(modules, i, k) => R(i) < R(k)
      BY RankGrows
    <2>3. Before(modules, k, i) => R(k) < R(i)
      BY RankGrows
    <2> HIDE DEF R
    <2> QED
      BY <1>1, <2>1, <2>2, <2>3
  <1> HIDE DEF R
  <1>3. f \in Injection(some, 1 .. n)
    <2>1. f \in [some -> 1 .. n]
      BY <1>1
    <2>2. \A i, k \in some : f[i] = f[k] => i = k
      BY <1>1, <1>2
    <2> HIDE DEF f
    <2> QED
      BY <2>1, <2>2 DEF Injection, IsInjective
  <1>4. IsFiniteSet(1 .. n) /\ Cardinality(1 .. n) = n
    BY <1>1, FS_Interval
  <1>5. f \in Surjection(some, 1 .. n)
    <2> HIDE DEF f
    <2> QED
      BY <1>3, <1>4, FS_Injection
  <1>6. \A p \in 1 .. n : \E i \in some : f[i] = p
    <2> HIDE DEF f, n
    <2> QED
      BY <1>5 DEF Surjection
  <1>7. \A p \in 1 .. n : \E i \in some : R(i) = p - 1
    <2> SUFFICES ASSUME NEW p \in 1 .. n PROVE \E i \in some : R(i) = p - 1
      OBVIOUS
    <2>1. PICK i \in some : f[i] = p
      BY <1>6
    <2>2. R(i) + 1 = p
      BY <2>1
    <2> QED
      BY <1>1, <2>2
  <1>8. DOMAIN order = 1 .. n /\ \A p \in 1 .. n : order[p] = CHOOSE i \in some : R(i) = p - 1
    BY DEF ByAddress, R, Rank
  <1>9. \A p \in 1 .. n : order[p] \in some /\ R(order[p]) = p - 1
    <2> HIDE DEF n
    <2> QED
      BY <1>7, <1>8
  <1>10. order = [p \in 1 .. n |-> order[p]]
    BY <1>8 DEF ByAddress
  <1>11. order \in [1 .. n -> some]
    <2> HIDE DEF n
    <2> QED
      BY <1>9, <1>10
  <1>12. ASSUME NEW i \in some PROVE \E p \in 1 .. n : order[p] = i
    <2> DEFINE p == R(i) + 1
    <2>1. p \in 1 .. n /\ p - 1 = R(i)
      BY <1>1
    <2> HIDE DEF p, n
    <2>2. order[p] \in some /\ R(order[p]) = R(i)
      BY <1>9, <2>1
    <2>3. order[p] = i
      BY <1>2, <2>2
    <2> QED
      BY <2>1, <2>3
  <1>13. ASSUME NEW p \in 1 .. n, NEW q \in 1 .. n, p < q PROVE Before(modules, order[p], order[q])
    <2>1. order[p] \in some /\ order[q] \in some /\ R(order[p]) = p - 1 /\ R(order[q]) = q - 1
      BY <1>9
    <2>2. Before(modules, order[q], order[p]) => R(order[q]) < R(order[p])
      BY <2>1, RankGrows DEF R
    <2>3. order[p] # order[q] /\ ~ Before(modules, order[q], order[p])
      BY <1>1, <1>13, <2>1, <2>2
    <2> QED
      BY <2>1, <2>3 DEF Before, Comparable
  <1> QED
    BY <1>11, <1>12, <1>13

-----------------------------------------------------------------------------
(* One frame *)

IsList(s) == Len(s) \in Nat /\ DOMAIN s = 1 .. Len(s)

\* What symbolication needs to know of the modules: how many functions are
\* inlined at an address is a number.
DepthsKnown(sorted) ==
    /\ IsList(sorted)
    /\ \A p \in DOMAIN sorted : \A a \in DOMAIN sorted[p].symbols : sorted[p].symbols[a] \in Nat

LEMMA ModuleByAddrIs ==
    ASSUME NEW sorted, IsList(sorted), NEW addr, NEW mode
    PROVE  ModuleByAddr(sorted, addr, mode) \in 0 .. Len(sorted)
  <1> DEFINE n == Len(sorted)
  <1>1. n \in Nat /\ DOMAIN sorted = 1 .. n
    BY DEF IsList
  <1>2. CASE mode # None
    <2> DEFINE I == {i \in 1 .. n : sorted[i].index = mode}
    <2>1. ModuleByAddr(sorted, addr, mode) = IF I # {} THEN Min(I) ELSE 0
      BY <1>2 DEF ModuleByAddr, SelectInSeq
    <2>2. I # {} => Min(I) \in I
      <3>1. I \in SUBSET Nat
        BY <1>1
      <3> HIDE DEF I
      <3>2. I # {} => \E m \in I : \A k \in I : m <= k
        BY <3>1, LeastNat
      <3> QED
        BY <3>2 DEF Min
    <2> QED
      BY <1>1, <2>1, <2>2
  <1>3. CASE mode = None
    <2> DEFINE S == {i \in DOMAIN sorted : sorted[i].start <= addr}
               idx == Cardinality(S)
    <2>1. S \in SUBSET (1 .. n)
      BY <1>1
    <2> HIDE DEF S, n
    <2>0. IsFiniteSet(1 .. n) /\ Cardinality(1 .. n) = n
      BY <1>1, FS_Interval
    <2>2. idx \in 0 .. n
      <3>1. IsFiniteSet(S) /\ Cardinality(S) <= n
        BY <2>0, <2>1, FS_Subset
      <3> QED
        BY <1>1, <3>1, FS_CardinalityType
    <2>3. ModuleByAddr(sorted, addr, mode) = 0 \/ ModuleByAddr(sorted, addr, mode) = idx
      BY <1>3 DEF ModuleByAddr, S
    <2> HIDE DEF idx
    <2> QED
      BY <1>1, <2>2, <2>3 DEF n
  <1> QED
    BY <1>2, <1>3

\* A frame of the response is where the frame it is made of was, or where
\* that frame was called from, in the module it was found in.
At(sorted, frame, index, adjustment, f) ==
    LET pos == ModuleByAddr(sorted, frame.addr, frame.mode)
        rel == RelativeCallerAddr(sorted[pos], frame, index, adjustment)
    IN  \/ f.addr = frame.addr /\ f.mode = frame.mode
        \/ /\ pos \in DOMAIN sorted /\ rel # None
           /\ f.addr = ExposePreferred(sorted[pos], rel) /\ f.mode = PreferredMode(sorted[pos])

\* What a frame is expanded to.
Expansion(sorted, frame, index, adjustment, new) ==
    /\ new \in Seq(Range(new)) /\ new # <<>>
    /\ \A k \in 1 .. Len(new) : /\ new[k].orig = index
                                /\ new[k].symAddr # None => k = Len(new)
                                /\ At(sorted, frame, index, adjustment, new[k])

LEMMA UnsymbolicatedIs ==
    ASSUME NEW sorted, NEW frame, NEW index, NEW adjustment, NEW status
    PROVE  Expansion(sorted, frame, index, adjustment, Unsymbolicated(frame, index, status))
  <1> DEFINE f == [status |-> status, orig |-> index, symAddr |-> None, base |-> frame.base,
                   mode |-> frame.mode, addr |-> frame.addr]
  <1>1. Unsymbolicated(frame, index, status) = <<f>>
    BY DEF Unsymbolicated
  <1>2. f.orig = index /\ f.symAddr = None /\ f.addr = frame.addr /\ f.mode = frame.mode
    OBVIOUS
  <1> HIDE DEF f
  <1>3. Len(<<f>>) = 1 /\ <<f>>[1] = f /\ <<f>> # <<>> /\ DOMAIN <<f>> = 1 .. 1
    OBVIOUS
  <1>4. <<f>> \in Seq(Range(<<f>>))
    BY <1>3 DEF Range
  <1>5. At(sorted, frame, index, adjustment, f)
    BY <1>2 DEF At
  <1> QED
    BY <1>1, <1>2, <1>3, <1>4, <1>5 DEF Expansion

LEMMA NativeFramesIs ==
    ASSUME NEW sorted, DepthsKnown(sorted), NEW frame, NEW index, NEW adjustment,
           NEW pos, pos = ModuleByAddr(sorted, frame.addr, frame.mode), pos \in DOMAIN sorted,
           NEW rel, rel = RelativeCallerAddr(sorted[pos], frame, index, adjustment), rel # None,
           NativeFrames(sorted[pos], index, rel) # <<>>
    PROVE  Expansion(sorted, frame, index, adjustment, NativeFrames(sorted[pos], index, rel))
  <1> DEFINE m == sorted[pos]
             depth == IF rel \in DOMAIN m.symbols THEN m.symbols[rel] ELSE 0
             F(k) == [status |-> "symbolicated", orig |-> index,
                      symAddr |-> IF k = depth THEN ExposePreferred(m, m.entry) ELSE None,
                      base |-> k = depth /\ rel = m.entry,
                      mode |-> PreferredMode(m), addr |-> ExposePreferred(m, rel)]
             new == NativeFrames(m, index, rel)
  <1>1. depth \in Nat
    BY DEF DepthsKnown
  <1>2. new = [k \in 1 .. depth |-> F(k)]
    BY DEF NativeFrames
  <1>3. ASSUME NEW k
        PROVE  /\ F(k).orig = index /\ F(k).symAddr = (IF k = depth THEN ExposePreferred(m, m.entry) ELSE None)
               /\ F(k).mode = PreferredMode(m) /\ F(k).addr = ExposePreferred(m, rel)
    OBVIOUS
  <1> HIDE DEF F, depth
  <1>4. DOMAIN new = 1 .. depth /\ \A k \in 1 .. depth : new[k] = F(k)
    BY <1>2
  <1>5. new \in Seq(Range(new)) /\ Len(new) = depth
    <2>1. new = [k \in 1 .. depth |-> new[k]] /\ \A k \in 1 .. depth : new[k] \in Range(new)
      BY <1>2, <1>4 DEF Range
    <2> HIDE DEF new
    <2> QED
      BY <1>1, <2>1, IsASeq
  <1>6. ASSUME NEW k \in 1 .. depth PROVE At(sorted, frame, index, adjustment, F(k))
    BY <1>3 DEF At
  <1> HIDE DEF new, m
  <1> QED
    BY <1>1, <1>3, <1>4, <1>5, <1>6 DEF Expansion, m, new

LEMMA SymbolicateFrameIs ==
    ASSUME NEW sorted, DepthsKnown(sorted), NEW frame, NEW index, NEW adjustment
    PROVE  Expansion(sorted, frame, index, adjustment, SymbolicateFrame(sorted, frame, index, adjustment))
  <1> DEFINE pos == ModuleByAddr(sorted, frame.addr, frame.mode)
             m == sorted[pos]
             rel == RelativeCallerAddr(m, frame, index, adjustment)
             new == SymbolicateFrame(sorted, frame, index, adjustment)
             native == NativeFrames(m, index, rel)
  <1>1. \/ \E status : new = Unsymbolicated(frame, index, status)
        \/ pos # 0 /\ rel # None /\ native # <<>> /\ new = native
    BY DEF SymbolicateFrame
  <1>2. pos \in 0 .. Len(sorted) /\ DOMAIN sorted = 1 .. Len(sorted) /\ Len(sorted) \in Nat
    BY ModuleByAddrIs DEF DepthsKnown, IsList
  <1>3. CASE \E status : new = Unsymbolicated(frame, index, status)
    <2> HIDE DEF new
    <2> QED
      BY <1>3, UnsymbolicatedIs DEF new
  <1>4. CASE pos # 0 /\ rel # None /\ native # <<>> /\ new = native
    <2>1. pos \in DOMAIN sorted
      BY <1>2, <1>4
    <2> QED
      BY <1>4, <2>1, NativeFramesIs
  <1> QED
    BY <1>1, <1>3, <1>4

-----------------------------------------------------------------------------
(* One stack trace *)

\* The frames made of the first i frames of a stack trace.
Made(sorted, frames, i, done) ==
    /\ done \in Seq(Range(done))
    /\ \A k \in 1 .. Len(done) :
          /\ done[k].orig \in 1 .. i
          /\ done[k].symAddr # None => k = Len(done) \/ done[k + 1].orig # done[k].orig
          /\ At(sorted, frames[done[k].orig], done[k].orig,
                AdjustmentFor(frames[done[k].orig], DefaultAdjustment(frames)), done[k])
    /\ \A k \in 1 .. Len(done) - 1 : done[k].orig <= done[k + 1].orig
    /\ \A j \in 1 .. i : \/ \E k \in 1 .. Len(done) : done[k].orig = j
                         \/ frames[j].trust = "scan"
                         \/ j = Len(frames) /\ done # <<>>

LEMMA WithFrameMakes ==
    ASSUME NEW sorted, DepthsKnown(sorted), NEW frames, Len(frames) \in Nat, NEW i \in 1 .. Len(frames),
           NEW done, Made(sorted, frames, i - 1, done)
    PROVE  Made(sorted, frames, i, WithFrame(sorted, frames, done, i))
  <1> DEFINE frame == frames[i]
             adjustment == AdjustmentFor(frame, DefaultAdjustment(frames))
             new == SymbolicateFrame(sorted, frame, i, adjustment)
             out == WithFrame(sorted, frames, done, i)
  <1>1. Expansion(sorted, frame, i, adjustment, new)
    BY SymbolicateFrameIs
  <1>2. \/ out = done /\ (frame.trust = "scan" \/ (i = Len(frames) /\ done # <<>>))
        \/ out = done \o new
    BY DEF WithFrame, Dropped, ScannedInVain, AfterBaseFrame, NullTerminator
  <1> HIDE DEF new, out, adjustment
  <1>3. /\ i \in Nat /\ i - 1 \in Nat /\ 1 .. i = (1 .. i - 1) \cup {i} /\ i \notin 1 .. i - 1
    OBVIOUS
  <1>4. CASE out = done /\ (frame.trust = "scan" \/ (i = Len(frames) /\ done # <<>>))
    <2>1. Made(sorted, frames, i, done)
      BY <1>3, <1>4 DEF Made
    <2> QED
      BY <1>4, <2>1 DEF out
  <1>5. CASE out = done \o new
    <2> DEFINE d == Len(done)
               e == Len(new)
               S == Range(done) \cup Range(new)
    <2>1. done \in Seq(S) /\ new \in Seq(S) /\ new # <<>>
      BY <1>1, SeqMonotonic DEF Made, Expansion
    <2> HIDE DEF S
    <2>2. /\ d \in Nat /\ e \in Nat /\ e >= 1
          /\ out \in Seq(S) /\ Len(out) = d + e
          /\ \A k \in 1 .. d + e : out[k] = IF k <= d THEN done[k] ELSE new[k - d]
      BY <1>5, <2>1, ConcatProperties, LenProperties, EmptySeq
    <2>3. out # <<>>
      BY <2>2
    <2>4. out \in Seq(Range(out))
      <3>1. DOMAIN out = 1 .. d + e /\ out = [k \in 1 .. d + e |-> out[k]] /\ d + e \in Nat
        BY <2>2
      <3>2. \A k \in 1 .. d + e : out[k] \in Range(out)
        BY <3>1 DEF Range
      <3> QED
        BY <3>1, <3>2, IsASeq
    <2> HIDE DEF d, e
    <2>5. \A k \in 1 .. d : out[k] = done[k] /\ done[k].orig \in 1 .. i - 1
      BY <2>2 DEF Made, d
    <2>6. \A k \in 1 .. e : out[d + k] = new[k] /\ new[k].orig = i
      <3>1. \A k \in 1 .. e : new[k].orig = i
        BY <1>1 DEF Expansion, e
      <3>2. ASSUME NEW k \in 1 .. e PROVE out[d + k] = new[k]
        <4> DEFINE p == d + k
        <4>1. p \in 1 .. d + e /\ ~ (p <= d) /\ p - d = k
          BY <2>2
        <4> HIDE DEF p
        <4>2. out[p] = new[k]
          BY <2>2, <4>1
        <4> QED
          BY <4>2 DEF p
      <3> QED
        BY <3>1, <3>2
    <2>7. \A k \in 1 .. d + e : k \in 1 .. d \/ \E l \in 1 .. e : k = d + l
      <3>1. ASSUME NEW k \in 1 .. d + e, k \notin 1 .. d PROVE k - d \in 1 .. e /\ k = d + (k - d)
        BY <2>2, <3>1
      <3> QED
        BY <3>1
    <2>8. ASSUME NEW k \in 1 .. d + e
          PROVE  /\ out[k].orig \in 1 .. i
                 /\ At(sorted, frames[out[k].orig], out[k].orig,
                       AdjustmentFor(frames[out[k].orig], DefaultAdjustment(frames)), out[k])
      <3>1. CASE k \in 1 .. d
        BY <1>3, <2>5, <3>1 DEF Made, d
      <3>2. CASE \E l \in 1 .. e : k = d + l
        <4>1. PICK l \in 1 .. e : k = d + l
          BY <3>2
        <4>2. out[k] = new[l] /\ out[k].orig = i /\ i \in 1 .. i
          BY <1>3, <2>6, <4>1
        <4>3. At(sorted, frame, i, adjustment, new[l])
          BY <1>1, <4>1 DEF Expansion, e
        <4> QED
          BY <4>2, <4>3 DEF adjustment
      <3> QED
        BY <2>7, <3>1, <3>2
    <2>9. ASSUME NEW k \in 1 .. d + e - 1 PROVE out[k].orig <= out[k + 1].orig
      <3>0. k \in 1 .. d + e /\ k + 1 \in 1 .. d + e /\ k + 1 # d + e + 1
        BY <2>2
      <3>1. CASE k + 1 \in 1 .. d
        <4>1. k \in 1 .. d - 1 /\ k \in 1 .. d
          BY <2>2, <3>1
        <4>2. done[k].orig <= done[k + 1].orig
          BY <4>1 DEF Made, d
        <4> QED
          BY <2>5, <3>1, <4>1, <4>2
      <3>2. CASE \E l \in 1 .. e : k + 1 = d + l
        <4>1. out[k + 1].orig = i
          BY <2>6, <3>2
        <4>2. out[k].orig \in 1 .. i
          BY <2>8, <3>0
        <4> QED
          BY <1>3, <4>1, <4>2
      <3> QED
        BY <2>7, <3>0, <3>1, <3>2
    <2>10. ASSUME NEW k \in 1 .. d + e, out[k].symAddr # None
           PROVE  k = d + e \/ out[k + 1].orig # out[k].orig
      <3>1. CASE k \in 1 .. d - 1
        <4>1. k \in 1 .. d /\ k + 1 \in 1 .. d /\ k # d
          BY <2>2, <3>1
        <4>2. out[k] = done[k] /\ out[k + 1] = done[k + 1]
          BY <2>5, <4>1
        <4> QED
          BY <2>10, <4>1, <4>2 DEF Made, d
      <3>2. CASE k = d
        <4>1. k \in 1 .. d /\ 1 \in 1 .. e
          BY <2>2, <3>2
        <4>2. out[k].orig \in 1 .. i - 1 /\ out[k + 1].orig = i
          BY <2>5, <2>6, <3>2, <4>1
        <4> QED
          BY <1>3, <4>2
      <3>3. CASE k \notin 1 .. d
        <4>1. PICK l \in 1 .. e : k = d + l
          BY <2>7, <3>3
        <4>2. l = e
          BY <1>1, <2>6, <2>10, <4>1 DEF Expansion, e
        <4> QED
          BY <4>1, <4>2
      <3>4. k \in 1 .. d - 1 \/ k = d \/ k \notin 1 .. d
        BY <2>2
      <3> QED
        BY <3>1, <3>2, <3>3, <3>4
    <2>11. ASSUME NEW j \in 1 .. i
           PROVE  \/ \E k \in 1 .. d + e : out[k].orig = j
                  \/ frames[j].trust = "scan" \/ j = Len(frames)
      <3>1. CASE j = i
        <4>1. 1 \in 1 .. e /\ d + 1 \in 1 .. d + e
          BY <2>2
        <4>2. out[d + 1].orig = i
          BY <2>6, <4>1
        <4> QED
          BY <3>1, <4>1, <4>2
      <3>2. CASE j \in 1 .. i - 1
        <4>1. 1 .. d \subseteq 1 .. d + e
          BY <2>2
        <4>2. \/ \E k \in 1 .. d : done[k].orig = j
              \/ frames[j].trust = "scan" \/ j = Len(frames)
          BY <3>2 DEF Made, d
        <4> QED
          BY <2>5, <4>1, <4>2
      <3> QED
        BY <1>3, <3>1, <3>2
    <2>12. Made(sorted, frames, i, out)
      BY <2>2, <2>3, <2>4, <2>8, <2>9, <2>10, <2>11 DEF Made
    <2> QED
      BY <2>12 DEF out
  <1> QED
    BY <1>2, <1>4, <1>5

\* The loop over the frames of a stack trace.
LEMMA SymbolicateStacktraceMakes ==
    ASSUME NEW sorted, DepthsKnown(sorted), NEW frames, Len(frames) \in Nat
    PROVE  Made(sorted, frames, Len(frames), SymbolicateStacktrace(sorted, frames))
  <1> DEFINE n == Len(frames)
             With(done, i) == WithFrame(sorted, frames, done, i)
             upTo[i \in 0 .. n] == IF i = 0 THEN <<>> ELSE With(upTo[i - 1], i)
             E(h) == h = [i \in 0 .. n |-> IF i = 0 THEN <<>> ELSE With(h[i - 1], i)]
             New(i) == SymbolicateFrame(sorted, frames[i], i, AdjustmentFor(frames[i], DefaultAdjustment(frames)))
             S == UNION {Range(New(i)) : i \in 1 .. n}
             F == [p \in Seq(S) \X (1 .. n) |-> With(p[1], p[2])]
  <1>1. SymbolicateStacktrace(sorted, frames) = upTo[n] /\ upTo = CHOOSE h : E(h)
    BY DEF SymbolicateStacktrace
  <1>2. \A i \in 1 .. n : New(i) \in Seq(S)
    <2> SUFFICES ASSUME NEW i \in 1 .. n PROVE New(i) \in Seq(S)
      OBVIOUS
    <2>1. Expansion(sorted, frames[i], i, AdjustmentFor(frames[i], DefaultAdjustment(frames)), New(i))
      BY SymbolicateFrameIs
    <2>2. New(i) \in Seq(Range(New(i))) /\ Range(New(i)) \subseteq S
      BY <2>1 DEF Expansion
    <2> HIDE DEF New, S
    <2> QED
      BY <2>2, SeqMonotonic
  <1>3. \A done, i : With(done, i) = done \/ With(done, i) = done \o New(i)
    BY DEF WithFrame
  <1> HIDE DEF With, New, S, upTo
  <1>4. F \in [Seq(S) \X (1 .. n) -> Seq(S)]
    <2>1. ASSUME NEW done \in Seq(S), NEW i \in 1 .. n PROVE With(done, i) \in Seq(S)
      BY <1>2, <1>3, ConcatProperties
    <2> QED
      BY <2>1
  <1>5. \E h : E(h)
    <2>1. <<>> \in Seq(S)
      OBVIOUS
    <2> HIDE DEF F
    <2>2. PICK h \in [0 .. n -> Seq(S)] : Rounds(h, F, <<>>, n)
      BY <1>4, <2>1, RoundsStay
    <2>3. /\ h = [i \in 0 .. n |-> h[i]]
          /\ \A i \in 0 .. n : h[i] = IF i = 0 THEN <<>> ELSE F[<<h[i - 1], i>>]
      BY <2>2 DEF Rounds
    <2>4. ASSUME NEW i \in 0 .. n, i # 0 PROVE F[<<h[i - 1], i>>] = With(h[i - 1], i)
      <3>1. i - 1 \in 0 .. n /\ i \in 1 .. n
        BY <2>4
      <3>2. <<h[i - 1], i>> \in Seq(S) \X (1 .. n)
        BY <2>2, <3>1
      <3> QED
        BY <3>2 DEF F
    <2>5. \A i \in 0 .. n : h[i] = IF i = 0 THEN <<>> ELSE With(h[i - 1], i)
      BY <2>3, <2>4
    <2> QED
      BY <2>3, <2>5
  <1>6. E(upTo)
    BY <1>1, <1>5
  <1> HIDE DEF F
  <1>7. upTo[0] = <<>> /\ \A i \in 1 .. n : upTo[i] = With(upTo[i - 1], i)
    <2>1. \A i \in 0 .. n : upTo[i] = IF i = 0 THEN <<>> ELSE With(upTo[i - 1], i)
      BY <1>6
    <2>2. 0 \in 0 .. n /\ \A i \in 1 .. n : i \in 0 .. n /\ i # 0
      OBVIOUS
    <2> QED
      BY <2>1, <2>2
  <1> HIDE DEF E
  <1> DEFINE T == {i \in Nat : i <= n => Made(sorted, frames, i, upTo[i])}
  <1>8. 0 \in T
    <2>1. Made(sorted, frames, 0, <<>>)
      BY DEF Made
    <2> QED
      BY <1>7, <2>1
  <1>9. ASSUME NEW i \in T PROVE i + 1 \in T
    <2>1. SUFFICES ASSUME i + 1 <= n PROVE Made(sorted, frames, i + 1, upTo[i + 1])
      OBVIOUS
    <2> DEFINE j == i + 1
    <2>2. j \in 1 .. n /\ j - 1 = i /\ Made(sorted, frames, i, upTo[i])
      BY <2>1
    <2> HIDE DEF j
    <2>3. upTo[j] = WithFrame(sorted, frames, upTo[i], j)
      BY <1>7, <2>2 DEF With
    <2>4. Made(sorted, frames, j, upTo[j])
      BY <2>2, <2>3, WithFrameMakes
    <2> QED
      BY <2>4 DEF j
  <1> HIDE DEF T
  <1>10. Nat \subseteq T
    BY <1>8, <1>9, SetInduction
  <1> QED
    BY <1>1, <1>10 DEF T

-----------------------------------------------------------------------------
(* The modules of a request *)

Modular(modules) == IsList(modules) /\ \A i \in DOMAIN modules : IsModule(modules[i])

\* An entry of the lookup and the module it is for.
Carries(m, sent) ==
    /\ DOMAIN sent \cup {"index", "status", "sources"} \subseteq DOMAIN m
    /\ m.start = sent.start /\ m.symbols = sent.symbols
    /\ "unwind" \in DOMAIN sent => m.unwind = sent.unwind
    /\ m.file \in {sent.file, "rewritten"}

\* A size that is missing reaches to the next module.
Sized(modules, sorted, p) ==
    \/ sorted[p].size = modules[sorted[p].index].size
    \/ /\ modules[sorted[p].index].size = 0 /\ p + 1 \in DOMAIN sorted
       /\ sorted[p].size = sorted[p + 1].start - sorted[p].start

\* The lookup holds every module once, by address.
Holds(modules, sorted) ==
    /\ IsList(sorted) /\ DOMAIN sorted = DOMAIN modules
    /\ \A p \in DOMAIN sorted : /\ sorted[p].index \in DOMAIN modules
                                /\ Carries(sorted[p], modules[sorted[p].index])
                                /\ Sized(modules, sorted, p)
    /\ \A i \in DOMAIN modules : \E p \in DOMAIN sorted : sorted[p].index = i
    /\ \A p, q \in DOMAIN sorted : p < q => Before(modules, sorted[p].index, sorted[q].index)

LEMMA HoldsDepths ==
    ASSUME NEW modules, Modular(modules), NEW sorted, Holds(modules, sorted)
    PROVE  DepthsKnown(sorted)
  BY DEF Holds, Modular, IsModule, Carries, DepthsKnown

\* ModuleLookup::new
LEMMA SortedModulesHold ==
    ASSUME NEW req, Modular(req.modules), NEW sorted, sorted = SortedModules(req)
    PROVE  /\ Holds(req.modules, sorted)
           /\ \A p \in DOMAIN sorted : sorted[p].cache = req.modules[sorted[p].index].cache
  <1> DEFINE modules == req.modules
             n == Len(modules)
             order == ByAddress(modules, DOMAIN modules)
             first == [p \in DOMAIN order |->
                         Over([index |-> order[p], status |-> "unused", sources |-> FALSE], modules[order[p]])]
             Filled(i) == IF first[i].size = 0 /\ i < Len(first)
                          THEN [first[i] EXCEPT !.size = first[i + 1].start - first[i].start]
                          ELSE first[i]
  <1>1. n \in Nat /\ DOMAIN modules = 1 .. n /\ IsFiniteSet(1 .. n) /\ Cardinality(1 .. n) = n
    BY FS_Interval DEF Modular, IsList
  <1>2. sorted = [i \in DOMAIN first |->
                    IF i = 1 /\ req.rewrite /\ first[i].file # "none"
                    THEN [Filled(i) EXCEPT !.file = "rewritten"] ELSE Filled(i)]
    BY DEF SortedModules
  <1>3. /\ order \in [1 .. n -> 1 .. n]
        /\ \A i \in 1 .. n : \E p \in 1 .. n : order[p] = i
        /\ \A p, q \in 1 .. n : p < q => Before(modules, order[p], order[q])
    <2>1. Comparable(modules, 1 .. n)
      BY <1>1, AddressAssumption DEF Comparable, Modular, IsModule
    <2> HIDE DEF n, order
    <2>2. order = ByAddress(modules, 1 .. n)
      BY <1>1 DEF order
    <2> QED
      BY <1>1, <2>1, <2>2, ByAddressOrders
  <1> HIDE DEF order
  <1>4. DOMAIN first = 1 .. n /\ Len(first) = n
    BY <1>1, <1>3
  <1>5. ASSUME NEW p \in 1 .. n
        PROVE  /\ DOMAIN first[p] = {"index", "status", "sources"} \cup DOMAIN modules[order[p]]
               /\ first[p].index = order[p]
               /\ \A f \in ModuleFields \cup {"unwind"} :
                     f \in DOMAIN modules[order[p]] => first[p][f] = modules[order[p]][f]
    <2>1. first[p] = Over([index |-> order[p], status |-> "unused", sources |-> FALSE], modules[order[p]])
      BY <1>4
    <2> HIDE DEF first
    <2> QED
      BY <2>1 DEF Over, ModuleFields
  <1> HIDE DEF first
  <1>6. ASSUME NEW p \in 1 .. n
        PROVE  order[p] \in 1 .. n /\ IsModule(modules[order[p]]) /\ ModuleFields \subseteq DOMAIN modules[order[p]]
    BY <1>1, <1>3 DEF Modular, IsModule
  <1>7. ASSUME NEW p \in 1 .. n
        PROVE  /\ DOMAIN Filled(p) = DOMAIN first[p]
               /\ \A f \in DOMAIN first[p] : f # "size" => Filled(p)[f] = first[p][f]
               /\ \/ Filled(p).size = first[p].size
                  \/ /\ first[p].size = 0 /\ p + 1 \in 1 .. n
                     /\ Filled(p).size = first[p + 1].start - first[p].start
    <2>1. CASE first[p].size = 0 /\ p < n
      <3> DEFINE q == [first[p] EXCEPT !.size = first[p + 1].start - first[p].start]
      <3>1. Filled(p) = q
        BY <1>4, <2>1
      <3>2. "size" \in DOMAIN first[p]
        BY <1>5, <1>6 DEF ModuleFields
      <3>3. /\ DOMAIN q = DOMAIN first[p] /\ \A f \in DOMAIN first[p] : f # "size" => q[f] = first[p][f]
            /\ q.size = first[p + 1].start - first[p].start
        BY <3>2
      <3>4. p + 1 \in 1 .. n
        BY <1>1, <2>1
      <3> QED
        BY <2>1, <3>1, <3>3, <3>4
    <2>2. CASE ~ (first[p].size = 0 /\ p < n)
      BY <1>4, <2>2
    <2> QED
      BY <2>1, <2>2
  <1> HIDE DEF Filled
  <1>8. ASSUME NEW p \in 1 .. n
        PROVE  /\ DOMAIN sorted[p] = DOMAIN first[p]
               /\ \A f \in DOMAIN first[p] : f \notin {"size", "file"} => sorted[p][f] = first[p][f]
               /\ sorted[p].size = Filled(p).size
               /\ sorted[p].file \in {first[p].file, "rewritten"}
    <2>1. sorted[p] = IF p = 1 /\ req.rewrite /\ first[p].file # "none"
                      THEN [Filled(p) EXCEPT !.file = "rewritten"] ELSE Filled(p)
      BY <1>2, <1>4
    <2> DEFINE q == [Filled(p) EXCEPT !.file = "rewritten"]
    <2>2. "size" \in DOMAIN Filled(p) /\ "file" \in DOMAIN Filled(p)
      BY <1>5, <1>6, <1>7 DEF ModuleFields
    <2>3. /\ DOMAIN q = DOMAIN Filled(p) /\ \A f \in DOMAIN Filled(p) : f # "file" => q[f] = Filled(p)[f]
          /\ q.file = "rewritten"
      BY <2>2
    <2>4. sorted[p] = q \/ sorted[p] = Filled(p)
      BY <2>1
    <2> HIDE DEF q
    <2> QED
      BY <1>7, <2>2, <2>3, <2>4
  <1>9. DOMAIN sorted = 1 .. n /\ Len(sorted) = n
    BY <1>1, <1>2, <1>4
  <1>10. ASSUME NEW p \in 1 .. n
         PROVE  /\ sorted[p].index = order[p]
                /\ Carries(sorted[p], modules[order[p]])
                /\ sorted[p].cache = modules[order[p]].cache
    <2> DEFINE sent == modules[order[p]]
               m == sorted[p]
    <2>1. /\ DOMAIN m = {"index", "status", "sources"} \cup DOMAIN sent
          /\ \A f \in ModuleFields \cup {"unwind"} : f \in DOMAIN sent /\ f \notin {"size", "file"} => m[f] = sent[f]
          /\ m.index = order[p]
          /\ m.file \in {sent.file, "rewritten"}
      <3> DEFINE e == first[p]
      <3>0. "file" \in DOMAIN sent
        BY <1>6 DEF ModuleFields
      <3>1. /\ DOMAIN e = {"index", "status", "sources"} \cup DOMAIN sent /\ e.index = order[p]
            /\ \A f \in ModuleFields \cup {"unwind"} : f \in DOMAIN sent => e[f] = sent[f]
        BY <1>5
      <3>2. /\ DOMAIN m = DOMAIN e /\ m.file \in {e.file, "rewritten"}
            /\ \A f \in DOMAIN e : f \notin {"size", "file"} => m[f] = e[f]
        BY <1>8
      <3> HIDE DEF sent, m, e
      <3>3. e["file"] = sent["file"]
        BY <3>0, <3>1 DEF ModuleFields
      <3>4. m["index"] = e["index"]
        BY <3>1, <3>2
      <3>5. ASSUME NEW f \in ModuleFields \cup {"unwind"}, f \in DOMAIN sent, f \notin {"size", "file"}
            PROVE  m[f] = sent[f]
        BY <3>1, <3>2, <3>5
      <3> QED
        BY <3>1, <3>2, <3>3, <3>4, <3>5
    <2>2. ModuleFields \subseteq DOMAIN sent
      BY <1>6
    <2> HIDE DEF sent, m
    <2>3. m["start"] = sent["start"] /\ m["symbols"] = sent["symbols"] /\ m["cache"] = sent["cache"]
      BY <2>1, <2>2 DEF ModuleFields
    <2>4. "unwind" \in DOMAIN sent => m["unwind"] = sent["unwind"]
      BY <2>1
    <2>5. Carries(m, sent)
      BY <2>1, <2>3, <2>4 DEF Carries
    <2> QED
      BY <2>1, <2>3, <2>5 DEF m, sent
  <1>11. ASSUME NEW p \in 1 .. n PROVE Sized(modules, sorted, p)
    <2>1. \A q \in 1 .. n : /\ sorted[q].start = modules[order[q]].start /\ first[q].start = modules[order[q]].start
                            /\ first[q].size = modules[order[q]].size
      BY <1>5, <1>6, <1>10 DEF Carries, ModuleFields
    <2> QED
      BY <1>7, <1>8, <1>9, <1>10, <2>1 DEF Sized
  <1>12. Holds(modules, sorted)
    <2> HIDE DEF modules, n
    <2>1. \A p \in 1 .. n : /\ sorted[p].index \in 1 .. n
                            /\ Carries(sorted[p], modules[sorted[p].index])
                            /\ Sized(modules, sorted, p)
      BY <1>6, <1>10, <1>11
    <2>2. \A i \in 1 .. n : \E p \in 1 .. n : sorted[p].index = i
      BY <1>3, <1>10
    <2>3. \A p, q \in 1 .. n : p < q => Before(modules, sorted[p].index, sorted[q].index)
      BY <1>3, <1>10
    <2>4. IsList(sorted)
      BY <1>1, <1>9 DEF IsList
    <2> QED
      BY <1>1, <1>9, <2>1, <2>2, <2>3, <2>4 DEF Holds
  <1> QED
    BY <1>9, <1>10, <1>12

\* Nothing that places a module is changed.
KeepsPlaces(sorted, new) ==
    /\ DOMAIN new = DOMAIN sorted /\ Len(new) = Len(sorted)
    /\ \A p \in DOMAIN sorted :
          /\ DOMAIN new[p] = DOMAIN sorted[p]
          /\ \A f \in DOMAIN sorted[p] \ {"status", "cache", "sources"} : new[p][f] = sorted[p][f]

LEMMA HoldsKept ==
    ASSUME NEW modules, Modular(modules), NEW sorted, Holds(modules, sorted), NEW new, KeepsPlaces(sorted, new)
    PROVE  Holds(modules, new)
  <1>1. IsList(new) /\ DOMAIN new = DOMAIN sorted /\ DOMAIN new = DOMAIN modules
    BY DEF Holds, KeepsPlaces, IsList
  <1>2. ASSUME NEW p \in DOMAIN sorted
        PROVE  /\ new[p].index = sorted[p].index /\ new[p].start = sorted[p].start
               /\ new[p].size = sorted[p].size
               /\ Carries(new[p], modules[sorted[p].index])
    <2> DEFINE old == sorted[p]
               m == new[p]
               sent == modules[sorted[p].index]
    <2>1. Carries(old, sent) /\ IsModule(sent)
      BY DEF Holds, Modular
    <2>2. DOMAIN m = DOMAIN old /\ \A f \in DOMAIN old \ {"status", "cache", "sources"} : m[f] = old[f]
      BY DEF KeepsPlaces
    <2>3. old.index = sorted[p].index
      OBVIOUS
    <2> HIDE DEF old, m, sent
    <2>4. /\ DOMAIN sent \cup {"index", "status", "sources"} \subseteq DOMAIN old
          /\ ModuleFields \subseteq DOMAIN old
      BY <2>1 DEF Carries, IsModule
    <2>5. /\ m["index"] = old["index"] /\ m["start"] = old["start"] /\ m["size"] = old["size"]
          /\ m["symbols"] = old["symbols"] /\ m["file"] = old["file"]
      BY <2>2, <2>4 DEF ModuleFields
    <2>6. "unwind" \in DOMAIN sent => m["unwind"] = old["unwind"]
      BY <2>2, <2>4
    <2>7. Carries(m, sent)
      <3>1. old["start"] = sent["start"] /\ old["symbols"] = sent["symbols"] /\ old["file"] \in {sent["file"], "rewritten"}
        BY <2>1 DEF Carries
      <3>2. "unwind" \in DOMAIN sent => old["unwind"] = sent["unwind"]
        BY <2>1 DEF Carries
      <3> QED
        BY <2>2, <2>4, <2>5, <2>6, <3>1, <3>2 DEF Carries
    <2> QED
      BY <2>5, <2>7 DEF old, m, sent
  <1>3. \A p \in DOMAIN new : Sized(modules, new, p)
    <2> SUFFICES ASSUME NEW p \in DOMAIN new PROVE Sized(modules, new, p)
      OBVIOUS
    <2>1. Sized(modules, sorted, p)
      BY <1>1 DEF Holds
    <2> QED
      BY <1>1, <1>2, <2>1 DEF Sized
  <1> QED
    BY <1>1, <1>2, <1>3 DEF Holds

\* Of any module, the position is one only.
LEMMA HoldsOnce ==
    ASSUME NEW modules, Modular(modules), NEW sorted, Holds(modules, sorted),
           NEW p \in DOMAIN sorted, NEW q \in DOMAIN sorted, sorted[p].index = sorted[q].index
    PROVE  p = q
  <1>1. p \in Nat /\ q \in Nat /\ sorted[p].index \in Nat /\ modules[sorted[p].index].start \in Nat
    <2>1. sorted[p].index \in DOMAIN modules /\ DOMAIN sorted = DOMAIN modules
      BY DEF Holds
    <2>2. DOMAIN modules \subseteq Nat
      BY DEF Modular, IsList
    <2>3. modules[sorted[p].index].start \in Nat
      BY <2>1, AddressAssumption DEF Modular, IsModule
    <2> QED
      BY <2>1, <2>2, <2>3
  <1>2. ~ (p < q) /\ ~ (q < p)
    <2> DEFINE i == sorted[p].index
    <2>1. ~ Before(modules, i, i)
      BY <1>1 DEF Before
    <2>2. p < q => Before(modules, i, i)
      BY DEF Holds
    <2>3. q < p => Before(modules, i, i)
      BY DEF Holds
    <2> QED
      BY <2>1, <2>2, <2>3
  <1> QED
    BY <1>1, <1>2

\* fetch_caches
LEMMA FetchCachesHold ==
    ASSUME NEW modules, Modular(modules), NEW sorted, Holds(modules, sorted), NEW stacks,
           NEW new, new = FetchCaches(sorted, stacks)
    PROVE  /\ Holds(modules, new)
           /\ \A p \in DOMAIN sorted :
                 /\ new[p].index = sorted[p].index
                 /\ new[p].status = IF p \in Referenced(sorted, stacks) THEN FileStatus(sorted[p].cache) ELSE "unused"
  <1>1. ASSUME NEW p \in DOMAIN sorted
        PROVE  /\ DOMAIN new[p] = DOMAIN sorted[p]
               /\ \A f \in DOMAIN sorted[p] \ {"status", "cache", "sources"} : new[p][f] = sorted[p][f]
               /\ new[p].index = sorted[p].index
               /\ new[p].status = IF p \in Referenced(sorted, stacks) THEN FileStatus(sorted[p].cache) ELSE "unused"
    <2> DEFINE m == sorted[p]
               s == FileStatus(sorted[p].cache)
               a == [m EXCEPT !.status = s]
               b == [m EXCEPT !.cache = "notfound", !.status = "unused"]
    <2>1. new[p] = IF p \in Referenced(sorted, stacks) THEN a ELSE b
      BY DEF FetchCaches
    <2>2. "status" \in DOMAIN m /\ "cache" \in DOMAIN m /\ "index" \in DOMAIN m
      BY DEF Holds, Carries, Modular, IsModule, ModuleFields
    <2> HIDE DEF m, s
    <2>3. /\ DOMAIN a = DOMAIN m /\ a.status = s /\ a.index = m.index
          /\ \A f \in DOMAIN m : f # "status" => a[f] = m[f]
      BY <2>2
    <2>4. /\ DOMAIN b = DOMAIN m /\ b.status = "unused" /\ b.index = m.index
          /\ \A f \in DOMAIN m : f # "status" /\ f # "cache" => b[f] = m[f]
      BY <2>2
    <2> HIDE DEF a, b
    <2>5. CASE p \in Referenced(sorted, stacks)
      BY <2>1, <2>3, <2>5 DEF m, s
    <2>6. CASE p \notin Referenced(sorted, stacks)
      BY <2>1, <2>4, <2>6 DEF m
    <2> QED
      BY <2>5, <2>6
  <1>2. DOMAIN new = DOMAIN sorted /\ Len(new) = Len(sorted)
    <2>1. DOMAIN new = DOMAIN sorted /\ new = [i \in DOMAIN sorted |-> new[i]]
      BY DEF FetchCaches
    <2>2. DOMAIN sorted = 1 .. Len(sorted) /\ Len(sorted) \in Nat
      BY DEF Holds, IsList
    <2> QED
      BY <2>1, <2>2
  <1>3. KeepsPlaces(sorted, new)
    BY <1>1, <1>2 DEF KeepsPlaces
  <1> QED
    BY <1>1, <1>3, HoldsKept

\* fetch_sources
LEMMA FetchSourcesHold ==
    ASSUME NEW modules, Modular(modules), NEW sorted, Holds(modules, sorted), NEW stacks,
           NEW new, new = FetchSources(sorted, stacks)
    PROVE  /\ Holds(modules, new)
           /\ \A p \in DOMAIN sorted :
                 /\ new[p].index = sorted[p].index
                 /\ new[p].status = IF p \in Referenced(sorted, stacks) THEN sorted[p].status ELSE "unused"
  <1>1. ASSUME NEW p \in DOMAIN sorted
        PROVE  /\ DOMAIN new[p] = DOMAIN sorted[p]
               /\ \A f \in DOMAIN sorted[p] \ {"status", "cache", "sources"} : new[p][f] = sorted[p][f]
               /\ new[p].index = sorted[p].index
               /\ new[p].status = IF p \in Referenced(sorted, stacks) THEN sorted[p].status ELSE "unused"
    <2> DEFINE m == sorted[p]
               s == sorted[p].bundle
               a == [m EXCEPT !.sources = s]
               b == [m EXCEPT !.status = "unused"]
    <2>1. new[p] = IF p \in Referenced(sorted, stacks) THEN a ELSE b
      BY DEF FetchSources
    <2>2. "status" \in DOMAIN m /\ "sources" \in DOMAIN m /\ "index" \in DOMAIN m
      BY DEF Holds, Carries
    <2> HIDE DEF m, s
    <2>3. /\ DOMAIN a = DOMAIN m /\ a.status = m.status /\ a.index = m.index
          /\ \A f \in DOMAIN m : f # "sources" => a[f] = m[f]
      BY <2>2
    <2>4. /\ DOMAIN b = DOMAIN m /\ b.status = "unused" /\ b.index = m.index
          /\ \A f \in DOMAIN m : f # "status" => b[f] = m[f]
      BY <2>2
    <2> HIDE DEF a, b
    <2>5. CASE p \in Referenced(sorted, stacks)
      BY <2>1, <2>3, <2>5 DEF m
    <2>6. CASE p \notin Referenced(sorted, stacks)
      BY <2>1, <2>4, <2>6 DEF m
    <2> QED
      BY <2>5, <2>6
  <1>2. DOMAIN new = DOMAIN sorted /\ Len(new) = Len(sorted)
    <2>1. DOMAIN new = DOMAIN sorted /\ new = [i \in DOMAIN sorted |-> new[i]]
      BY DEF FetchSources
    <2>2. DOMAIN sorted = 1 .. Len(sorted) /\ Len(sorted) \in Nat
      BY DEF Holds, IsList
    <2> QED
      BY <2>1, <2>2
  <1>3. KeepsPlaces(sorted, new)
    BY <1>1, <1>2 DEF KeepsPlaces
  <1> QED
    BY <1>1, <1>3, HoldsKept

\* into_inner
LEMMA OriginalOrderRestores ==
    ASSUME NEW req, Modular(req.modules), NEW sorted, Holds(req.modules, sorted),
           NEW out, out = OriginalOrder(req, sorted)
    PROVE  /\ DOMAIN out = DOMAIN req.modules
           /\ \A p \in DOMAIN sorted : LET i == sorted[p].index IN
                 /\ out[i].start = req.modules[i].start /\ out[i].file = req.modules[i].file
                 /\ out[i].status = sorted[p].status
                 /\ "unwind" \in DOMAIN req.modules[i] => out[i].unwind = req.modules[i].unwind
  <1> DEFINE modules == req.modules
             Original(m) == IF m.file = "rewritten" THEN [m EXCEPT !.file = modules[m.index].file] ELSE m
             At0(i) == SelectInSeq(sorted, LAMBDA m : m.index = i)
  <1>1. out = [i \in DOMAIN sorted |-> Original(sorted[At0(i)])]
    BY DEF OriginalOrder
  <1>2. DOMAIN sorted = DOMAIN modules /\ DOMAIN out = DOMAIN modules
    BY <1>1 DEF Holds
  <1>3. ASSUME NEW p \in DOMAIN sorted PROVE At0(sorted[p].index) = p
    <2> DEFINE I == {q \in 1 .. Len(sorted) : sorted[q].index = sorted[p].index}
    <2>1. At0(sorted[p].index) = IF I # {} THEN Min(I) ELSE 0
      BY DEF SelectInSeq
    <2>2. DOMAIN sorted = 1 .. Len(sorted) /\ Len(sorted) \in Nat
      BY DEF Holds, IsList
    <2>3. I = {p}
      BY <2>2, HoldsOnce
    <2>4. Min({p}) = p
      BY <2>2 DEF Min
    <2> HIDE DEF I
    <2> QED
      BY <2>1, <2>3, <2>4
  <1> HIDE DEF At0
  <1>4. ASSUME NEW p \in DOMAIN sorted, NEW i, i = sorted[p].index
        PROVE  /\ out[i].start = modules[i].start /\ out[i].file = modules[i].file
               /\ out[i].status = sorted[p].status
               /\ "unwind" \in DOMAIN modules[i] => out[i].unwind = modules[i].unwind
    <2> DEFINE m == sorted[p]
               sent == modules[i]
               q == [m EXCEPT !.file = sent.file]
    <2>1. i \in DOMAIN sorted /\ Carries(m, sent) /\ IsModule(sent) /\ m.index = i
      BY <1>2, <1>4 DEF Holds, Modular
    <2>2. out[i] = IF m.file = "rewritten" THEN q ELSE m
      BY <1>1, <1>3, <1>4, <2>1
    <2> HIDE DEF m, sent
    <2>3. {"start", "file", "status"} \cup DOMAIN sent \subseteq DOMAIN m
      BY <2>1 DEF Carries, IsModule, ModuleFields
    <2>4. q.start = m.start /\ q.file = sent.file /\ q.status = m.status /\ ("unwind" \in DOMAIN m => q.unwind = m.unwind)
      BY <2>3
    <2> HIDE DEF q
    <2>5. CASE m.file = "rewritten"
      BY <2>1, <2>2, <2>3, <2>4, <2>5 DEF Carries, m, sent
    <2>6. CASE m.file # "rewritten"
      BY <2>1, <2>2, <2>3, <2>6 DEF Carries, m, sent
    <2> QED
      BY <2>5, <2>6
  <1> QED
    BY <1>2, <1>4

-----------------------------------------------------------------------------
(* The module a frame lies in *)

\* The first numbers are as many as the last of them.
LEMMA FirstNumbers ==
    ASSUME NEW n \in Nat, NEW S \in SUBSET (1 .. n), \A q \in S : \A r \in 1 .. q : r \in S
    PROVE  Cardinality(S) \in 0 .. n /\ S = 1 .. Cardinality(S)
  <1>1. CASE S = {}
    <2>1. Cardinality(S) = 0 /\ 1 .. 0 = {}
      BY <1>1, FS_EmptySet
    <2> QED
      BY <1>1, <2>1
  <1>2. CASE S # {}
    <2> DEFINE m == Max(S)
    <2>1. m \in S /\ \A q \in S : q <= m
      BY <1>2, LastNumber
    <2> HIDE DEF m
    <2>6. S = 1 .. m /\ m \in Nat
      <3>1. m \in 1 .. n /\ \A r \in 1 .. m : r \in S
        BY <2>1
      <3>2. ASSUME NEW r \in S PROVE r \in 1 .. m
        <4>1. r \in 1 .. n /\ r <= m /\ m \in 1 .. n
          BY <2>1, <3>1
        <4> QED
          BY <4>1
      <3>3. S \subseteq 1 .. m /\ 1 .. m \subseteq S
        BY <3>1, <3>2
      <3>4. S = 1 .. m
        BY ONLY <3>3
      <3>5. m \in Nat
        BY <3>1
      <3> QED
        BY <3>4, <3>5
    <2>7. Cardinality(1 .. m) = m
      BY <2>6, FS_Interval
    <2> QED
      BY <2>6, <2>7
  <1> QED
    BY <1>1, <1>2

\* What WellFormed says of modules alone
Apart(modules) ==
    /\ \A i \in DOMAIN modules : modules[i].start + modules[i].size <= MaxAddr
    /\ \A i, k \in DOMAIN modules : i # k =>
          \/ modules[i].start > modules[k].start + modules[k].size
          \/ modules[k].start > modules[i].start + modules[i].size

\* Modules that are apart come after each other.
LEMMA HeldApart ==
    ASSUME NEW modules, Modular(modules), Apart(modules), NEW sorted, Holds(modules, sorted),
           NEW p \in DOMAIN sorted, NEW q \in DOMAIN sorted
    PROVE  /\ sorted[p].start \in 0 .. MaxAddr /\ sorted[p].start = modules[sorted[p].index].start
           /\ p < q => sorted[p].start + modules[sorted[p].index].size < sorted[q].start
  <1> DEFINE i == sorted[p].index
             k == sorted[q].index
  <1>1. /\ i \in DOMAIN modules /\ k \in DOMAIN modules
        /\ sorted[p].start = modules[i].start /\ sorted[q].start = modules[k].start
        /\ modules[i].start \in 0 .. MaxAddr /\ modules[k].start \in 0 .. MaxAddr
        /\ modules[i].size \in 0 .. MaxAddr /\ modules[k].size \in 0 .. MaxAddr
    BY DEF Holds, Carries, Modular, IsModule
  <1>2. p < q => Before(modules, i, k)
    BY DEF Holds
  <1>3. p < q => p # q
    <2>1. p \in Nat /\ q \in Nat
      BY DEF Holds, IsList
    <2> QED
      BY <2>1
  <1>4. i = k => p = q
    BY HoldsOnce
  <1> HIDE DEF i, k
  <1>5. ASSUME p < q PROVE sorted[p].start + modules[i].size < sorted[q].start
    <2>1. i # k /\ modules[i].start <= modules[k].start
      BY <1>1, <1>2, <1>3, <1>4, <1>5, AddressAssumption DEF Before
    <2>2. \/ modules[i].start > modules[k].start + modules[k].size
          \/ modules[k].start > modules[i].start + modules[i].size
      BY <1>1, <2>1 DEF Apart
    <2> QED
      BY <1>1, <2>1, <2>2, AddressAssumption
  <1> QED
    BY <1>1, <1>5 DEF i, k

\* get_module_by_addr finds the module the address lies in, and only that.
LEMMA LookupFinds ==
    ASSUME NEW req, Modular(req.modules), Apart(req.modules), NEW sorted, Holds(req.modules, sorted),
           NEW f, f.addr \in 0 .. MaxAddr, NEW p \in DOMAIN sorted
    PROVE  ModuleByAddr(sorted, f.addr, f.mode) = p <=> Lies(req, f, sorted[p].index)
  <1> DEFINE modules == req.modules
             n == Len(sorted)
             i == sorted[p].index
  <1>1. n \in Nat /\ DOMAIN sorted = 1 .. n /\ DOMAIN modules = 1 .. n /\ i \in 1 .. n
    BY DEF Holds, IsList
  <1>2. CASE f.mode # None
    <2> DEFINE I == {q \in 1 .. n : sorted[q].index = f.mode}
    <2>1. ModuleByAddr(sorted, f.addr, f.mode) = IF I # {} THEN Min(I) ELSE 0
      BY <1>2 DEF ModuleByAddr, SelectInSeq
    <2>2. Lies(req, f, i) <=> f.mode = i
      BY <1>2 DEF Lies
    <2>3. ASSUME f.mode = i PROVE I = {p}
      BY <1>1, <2>3, HoldsOnce
    <2>4. Min({p}) = p /\ {p} # {}
      BY <1>1 DEF Min
    <2>5. ASSUME f.mode # i, I # {} PROVE Min(I) # p
      <3>1. \A q \in I : q # p
        BY <2>5
      <3>2. I \in SUBSET Nat
        BY <1>1
      <3> HIDE DEF I
      <3>3. \E m \in I : \A k \in I : m <= k
        BY <2>5, <3>2, LeastNat
      <3>4. Min(I) \in I
        BY <3>3 DEF Min
      <3> QED
        BY <3>1, <3>4
    <2>6. p # 0
      BY <1>1
    <2> HIDE DEF I, i
    <2> QED
      BY <2>1, <2>2, <2>3, <2>4, <2>5, <2>6 DEF i
  <1>3. CASE f.mode = None
    <2> DEFINE a == f.addr
               S == {q \in DOMAIN sorted : sorted[q].start <= a}
               idx == Cardinality(S)
               end == sorted[idx].start + sorted[idx].size
               later == {k \in DOMAIN modules : /\ modules[k].start <= a
                                                /\ <<modules[k].start, k>> # <<modules[i].start, i>>
                                                /\ \/ modules[k].start > modules[i].start
                                                   \/ modules[k].start = modules[i].start /\ k > i}
    <2>1. Lies(req, f, i) <=>
            modules[i].start <= a /\ later = {} /\ (modules[i].size = 0 \/ a <= modules[i].start + modules[i].size)
      BY <1>3 DEF Lies
    <2>2. ModuleByAddr(sorted, f.addr, f.mode)
            = IF idx = 0 \/ end > MaxAddr \/ (end < a /\ sorted[idx].size # 0) THEN 0 ELSE idx
      BY <1>3 DEF ModuleByAddr
    <2>3. /\ a \in 0 .. MaxAddr
          /\ \A q \in 1 .. n : sorted[q].start \in 0 .. MaxAddr
          /\ \A q, r \in 1 .. n : q < r => sorted[q].start < sorted[r].start
      <3> SUFFICES ASSUME NEW q \in 1 .. n, NEW r \in 1 .. n
                   PROVE  sorted[q].start \in 0 .. MaxAddr /\ (q < r => sorted[q].start < sorted[r].start)
        BY <1>1
      <3>1. /\ sorted[q].start \in 0 .. MaxAddr /\ sorted[r].start \in 0 .. MaxAddr
            /\ q < r => sorted[q].start + modules[sorted[q].index].size < sorted[r].start
        BY <1>1, HeldApart
      <3>2. modules[sorted[q].index].size \in 0 .. MaxAddr
        BY <1>1 DEF Holds, Modular, IsModule
      <3> HIDE DEF modules
      <3> QED
        BY <3>1, <3>2, AddressAssumption
    <2> HIDE DEF a, modules
    <2>4. idx \in 0 .. n /\ S = 1 .. idx
      <3>1. S \in SUBSET (1 .. n)
        BY <1>1
      <3>2. \A q \in S : \A r \in 1 .. q : r \in S
        <4> SUFFICES ASSUME NEW q \in S, NEW r \in 1 .. q PROVE r \in S
          OBVIOUS
        <4>1. q \in 1 .. n /\ r \in 1 .. n /\ sorted[q].start <= a /\ (r < q \/ r = q)
          BY <1>1
        <4>2. sorted[r].start <= a
          BY <2>3, <4>1, AddressAssumption
        <4> QED
          BY <1>1, <4>1, <4>2
      <3> HIDE DEF S, n
      <3> QED
        BY <1>1, <3>1, <3>2, FirstNumbers
    <2>5. \A q \in 1 .. n : q <= idx <=> sorted[q].start <= a
      <3>1. \A q \in 1 .. n : q \in S <=> sorted[q].start <= a
        BY <1>1
      <3> HIDE DEF S, idx
      <3> QED
        BY <2>4, <3>1
    <2> HIDE DEF idx, S
    <2> DEFINE start == modules[i].start
               size == modules[i].size
    <2>6. /\ sorted[p].start = start /\ start \in 0 .. MaxAddr /\ size \in 0 .. MaxAddr
          /\ start + size <= MaxAddr
      BY <1>1 DEF Holds, Carries, Modular, IsModule, Apart, modules
    \* The module is the last that starts before the address.
    <2>7. (start <= a /\ later = {}) <=> idx = p
      <3>1. ASSUME idx = p PROVE start <= a /\ later = {}
        <4>1. start <= a
          BY <1>1, <2>5, <2>6, <3>1
        <4>2. ASSUME NEW k \in later PROVE FALSE
          <5>1. k \in 1 .. n /\ modules[k].start <= a /\ k # i
                /\ (modules[k].start > start \/ (modules[k].start = start /\ k > i))
            BY <1>1, <4>2
          <5>2. PICK q \in 1 .. n : sorted[q].index = k
            BY <1>1, <5>1 DEF Holds, modules
          <5>3. sorted[q].start = modules[k].start /\ q # p
            BY <1>1, <5>1, <5>2, HeldApart DEF modules
          <5>4. q <= p /\ q < p
            BY <1>1, <2>5, <3>1, <5>1, <5>3
          <5>5. sorted[q].start < sorted[p].start
            BY <1>1, <2>3, <5>4
          <5> QED
            BY <2>3, <2>6, <5>1, <5>3, <5>5, AddressAssumption
        <4> QED
          BY <4>1, <4>2
      <3>2. ASSUME start <= a, later = {} PROVE idx = p
        <4>1. p <= idx
          BY <1>1, <2>5, <2>6, <3>2
        <4>2. ASSUME p < idx PROVE FALSE
          <5>1. idx \in 1 .. n
            BY <1>1, <2>4, <4>2
          <5> DEFINE k == sorted[idx].index
          <5>2. /\ k \in 1 .. n /\ sorted[idx].start = modules[k].start
                /\ sorted[p].start < sorted[idx].start /\ sorted[idx].start <= a
            <6>1. k \in 1 .. n
              BY <1>1, <5>1 DEF Holds, modules
            <6>2. sorted[idx].start = modules[k].start
              BY <1>1, <5>1, HeldApart DEF modules
            <6>3. sorted[idx].start <= a
              BY <2>4, <2>5, <5>1
            <6>4. sorted[p].start < sorted[idx].start
              BY <1>1, <2>3, <4>2, <5>1
            <6> QED
              BY <6>1, <6>2, <6>3, <6>4
          <5>3. modules[k].start > start /\ modules[k].start # start
            BY <2>3, <2>6, <5>1, <5>2, AddressAssumption
          <5>4. k \in later
            BY <1>1, <5>2, <5>3
          <5> QED
            BY <3>2, <5>4
        <4> QED
          BY <1>1, <2>4, <4>1, <4>2
      <3> QED
        BY <3>1, <3>2
    \* Its size, filled up or not, says the same of the address.
    <2>8. ASSUME idx = p
          PROVE  ~ (end > MaxAddr \/ (end < a /\ sorted[p].size # 0)) <=> (size = 0 \/ a <= start + size)
      <3>1. end = start + sorted[p].size
        BY <2>6, <2>8
      <3>2. CASE sorted[p].size = size
        BY <2>3, <2>6, <3>1, <3>2, AddressAssumption
      <3>3. CASE size = 0 /\ p + 1 \in 1 .. n /\ sorted[p].size = sorted[p + 1].start - sorted[p].start
        <4>1. sorted[p + 1].start \in 0 .. MaxAddr
          BY <2>3, <3>3
        <4>2. ~ (sorted[p + 1].start <= a)
          BY <1>1, <2>5, <2>8, <3>3
        <4>3. end = sorted[p + 1].start
          BY <2>6, <3>1, <3>3, <4>1, AddressAssumption
        <4> QED
          BY <2>3, <3>3, <4>1, <4>2, <4>3, AddressAssumption
      <3> QED
        BY <1>1, <3>2, <3>3 DEF Holds, Sized, modules
    <2>9. p # 0
      BY <1>1
    <2> HIDE DEF end, later, start, size, i
    <2>10. Lies(req, f, i) <=> idx = p /\ (size = 0 \/ a <= start + size)
      BY <2>1, <2>7 DEF start, size
    <2>11. ASSUME idx = p PROVE ModuleByAddr(sorted, f.addr, f.mode) = p <=> (size = 0 \/ a <= start + size)
      BY <2>2, <2>8, <2>9, <2>11
    <2>12. ASSUME idx # p PROVE ModuleByAddr(sorted, f.addr, f.mode) # p
      BY <2>2, <2>9, <2>12
    <2> QED
      BY <2>10, <2>11, <2>12 DEF i
  <1> QED
    BY <1>2, <1>3

\* No frame lies in two modules.
LEMMA LiesOnce ==
    ASSUME NEW req, Modular(req.modules), NEW f, f.addr \in 0 .. MaxAddr,
           NEW i \in DOMAIN req.modules, NEW k \in DOMAIN req.modules, Lies(req, f, i), Lies(req, f, k)
    PROVE  i = k
  <1> DEFINE modules == req.modules
             later(j) == {l \in DOMAIN modules : /\ modules[l].start <= f.addr
                                                 /\ <<modules[l].start, l>> # <<modules[j].start, j>>
                                                 /\ \/ modules[l].start > modules[j].start
                                                    \/ modules[l].start = modules[j].start /\ l > j}
  <1>1. CASE f.mode # None
    BY <1>1 DEF Lies
  <1>2. CASE f.mode = None
    <2>1. /\ modules[i].start <= f.addr /\ later(i) = {}
          /\ modules[k].start <= f.addr /\ later(k) = {}
      BY <1>2 DEF Lies
    <2>2. /\ i \in Nat /\ k \in Nat /\ modules[i].start \in Nat /\ modules[k].start \in Nat
      BY AddressAssumption DEF Modular, IsModule, IsList
    <2>3. ASSUME i # k PROVE k \in later(i) \/ i \in later(k)
      BY <2>1, <2>2, <2>3
    <2> HIDE DEF later
    <2> QED
      BY <2>1, <2>3
  <1> QED
    BY <1>1, <1>2

\* A relative address is inside its module.
Inside(modules, f) ==
    f.mode # None => f.mode \in DOMAIN modules /\ f.addr <= modules[f.mode].size

\* The address of a frame that was symbolicated is still in the module that
\* the frame it is made of was in (expose_preferred_addr).
LEMMA StaysInModule ==
    ASSUME NEW req, Modular(req.modules), Apart(req.modules), NEW sorted, Holds(req.modules, sorted),
           NEW frame, frame.addr \in 0 .. MaxAddr, Inside(req.modules, frame),
           NEW index, NEW adjustment, NEW f, At(sorted, frame, index, adjustment, f)
    PROVE  /\ f.addr \in 0 .. MaxAddr
           /\ \A i \in DOMAIN req.modules : Lies(req, f, i) <=> Lies(req, frame, i)
  <1> DEFINE modules == req.modules
             pos == ModuleByAddr(sorted, frame.addr, frame.mode)
             m == sorted[pos]
             rel == RelativeCallerAddr(m, frame, index, adjustment)
  <1>1. CASE f.addr = frame.addr /\ f.mode = frame.mode
    BY <1>1 DEF Lies
  <1>2. CASE /\ pos \in DOMAIN sorted /\ rel # None
             /\ f.addr = ExposePreferred(m, rel) /\ f.mode = PreferredMode(m)
    <2> DEFINE i == m.index
               start == modules[i].start
               size == modules[i].size
    <2>1. Lies(req, frame, i) /\ i \in DOMAIN modules
      BY <1>2, LookupFinds DEF Holds
    <2>2. /\ m.start = start /\ start \in 0 .. MaxAddr /\ size \in 0 .. MaxAddr /\ start + size <= MaxAddr
      BY <1>2, <2>1 DEF Holds, Carries, Modular, IsModule, Apart
    <2>3. frame.mode # None => frame.mode = i /\ frame.addr <= size
      BY <2>1 DEF Lies, Inside
    <2> DEFINE a == frame.addr
               rel0 == LookupCache(m, frame)
               there == RelToAbs(m, rel0)
    <2>4. rel0 = IF frame.mode # None THEN a ELSE IF start # 0 /\ a >= start THEN a - start ELSE None
      BY <2>2 DEF LookupCache, AbsToRel, SupportsAbsolute
    <2>5. rel = IF rel0 = None THEN None ELSE IF there = None THEN rel0
                ELSE AbsToRel(m, CallerAddress(there, index, adjustment))
      BY DEF RelativeCallerAddr
    <2>6. there = IF start # 0 /\ start + rel0 <= MaxAddr THEN start + rel0 ELSE None
      BY <2>2 DEF RelToAbs, SupportsAbsolute
    <2> HIDE DEF rel0, there, a
    <2>7. a \in 0 .. MaxAddr /\ None = -1
      BY DEF a, None
    <2>8. rel0 \in 0 .. MaxAddr
      BY <1>2, <2>2, <2>4, <2>5, <2>7, AddressAssumption
    <2>9. CASE start = 0
      <3>1. f.mode = i /\ f.mode # None
        <4>1. i \in Nat
          BY <2>1 DEF Modular, IsList
        <4> QED
          BY <1>2, <2>2, <2>7, <2>9, <4>1 DEF PreferredMode, SupportsAbsolute
      <3>2. f.addr = rel0
        BY <1>2, <2>2, <2>5, <2>6, <2>8, <2>9 DEF ExposePreferred, SupportsAbsolute
      <3>3. \A k \in DOMAIN modules : Lies(req, f, k) <=> k = i
        BY <3>1 DEF Lies
      <3>4. \A k \in DOMAIN modules : Lies(req, frame, k) <=> k = i
        BY <2>1, LiesOnce
      <3> QED
        BY <2>8, <3>2, <3>3, <3>4
    <2>10. CASE start # 0
      <3>1. /\ frame.mode = None => a >= start /\ rel0 = a - start /\ start + rel0 = a
            /\ frame.mode # None => rel0 = a /\ rel0 <= size
        <4>1. ASSUME frame.mode = None PROVE a >= start /\ rel0 = a - start /\ start + rel0 = a
          <5> HIDE DEF start
          <5>1. rel0 = IF start # 0 /\ a >= start THEN a - start ELSE None
            BY <2>4, <4>1
          <5> QED
            BY <2>2, <2>7, <2>8, <5>1, AddressAssumption
        <4>2. ASSUME frame.mode # None PROVE rel0 = a /\ rel0 <= size
          <5>1. rel0 = a
            BY <2>4, <4>2
          <5> QED
            BY <2>3, <4>2, <5>1 DEF a
        <4> QED
          BY <4>1, <4>2
      <3>2. start + rel0 <= MaxAddr
        BY <2>2, <2>7, <2>8, <3>1, AddressAssumption
      <3>3. there = start + rel0 /\ there # None /\ there \in 0 .. MaxAddr
        BY <2>2, <2>6, <2>7, <2>8, <2>10, <3>2, AddressAssumption
      <3> DEFINE caller == CallerAddress(there, index, adjustment)
      <3>4. caller \in 0 .. MaxAddr /\ caller <= there
        BY <3>3, AddressAssumption DEF CallerAddress
      <3>5. rel = AbsToRel(m, caller)
        BY <2>5, <2>7, <2>8, <3>3
      <3> HIDE DEF caller
      <3>6. rel = caller - start /\ caller >= start
        BY <1>2, <2>2, <3>5 DEF AbsToRel, SupportsAbsolute
      <3>7. f.mode = None
        BY <1>2, <2>2, <2>10 DEF PreferredMode, SupportsAbsolute
      <3>8. f.addr = caller
        <4> HIDE DEF rel, m, start
        <4>1. start + rel = caller /\ caller <= MaxAddr /\ caller # None
          BY <2>2, <2>7, <3>4, <3>6, AddressAssumption
        <4>2. RelToAbs(m, rel) = caller
          BY <2>2, <2>10, <4>1 DEF RelToAbs, SupportsAbsolute
        <4> QED
          BY <1>2, <2>2, <2>10, <4>1, <4>2 DEF ExposePreferred, SupportsAbsolute
      <3>9. Lies(req, f, i)
        <4> DEFINE later(b) == {k \in DOMAIN modules : /\ modules[k].start <= b
                                                       /\ <<modules[k].start, k>> # <<modules[i].start, i>>
                                                       /\ \/ modules[k].start > modules[i].start
                                                          \/ modules[k].start = modules[i].start /\ k > i}
        <4>1. Lies(req, f, i) <=> start <= caller /\ later(caller) = {} /\ (size = 0 \/ caller <= start + size)
          BY <3>7, <3>8 DEF Lies
        <4>2. later(caller) = {}
          <5>1. CASE frame.mode = None
            <6>1. later(a) = {}
              BY <2>1, <5>1 DEF Lies, a
            <6>2. caller <= a
              BY <3>1, <3>3, <3>4, <5>1
            <6>3. \A k \in DOMAIN modules : modules[k].start \in 0 .. MaxAddr
              BY DEF Modular, IsModule
            <6>4. later(caller) \subseteq later(a)
              <7>1. \A b \in 0 .. MaxAddr : b <= caller => b <= a
                BY <2>7, <3>4, <6>2, AddressAssumption
              <7> QED
                BY <6>3, <7>1
            <6> HIDE DEF later
            <6> QED
              BY <6>1, <6>4
          <5>2. CASE frame.mode # None
            <6>1. caller <= start + size
              BY <2>2, <2>8, <3>1, <3>3, <3>4, <5>2, AddressAssumption
            <6>2. ASSUME NEW k \in later(caller) PROVE FALSE
              <7>1. k \in DOMAIN modules /\ modules[k].start <= caller /\ k # i /\ modules[k].start >= start
                <8>1. modules[k].start \in 0 .. MaxAddr
                  BY <6>2 DEF Modular, IsModule
                <8> QED
                  BY <2>2, <6>2, <8>1, AddressAssumption
              <7>2. modules[k].start \in 0 .. MaxAddr /\ modules[k].size \in 0 .. MaxAddr
                BY <7>1 DEF Modular, IsModule
              <7>3. start > modules[k].start + modules[k].size \/ modules[k].start > start + size
                BY <2>1, <7>1 DEF Apart
              <7> QED
                BY <2>2, <3>4, <6>1, <7>1, <7>2, <7>3, AddressAssumption
            <6> QED
              BY <6>2
          <5> QED
            BY <5>1, <5>2
        <4>3. size = 0 \/ caller <= start + size
          <5>1. CASE frame.mode = None
            <6>1. size = 0 \/ a <= start + size
              BY <2>1, <5>1 DEF Lies, a
            <6> HIDE DEF start, size
            <6> QED
              BY <2>2, <2>7, <3>1, <3>3, <3>4, <5>1, <6>1, AddressAssumption
          <5>2. CASE frame.mode # None
            BY <2>2, <2>8, <3>1, <3>3, <3>4, <5>2, AddressAssumption
          <5> QED
            BY <5>1, <5>2
        <4> QED
          BY <3>6, <4>1, <4>2, <4>3
      <3>10. f.addr \in 0 .. MaxAddr
        BY <3>4, <3>8
      <3>11. \A k \in DOMAIN modules : Lies(req, f, k) <=> k = i
        BY <2>1, <3>9, <3>10, LiesOnce
      <3>12. \A k \in DOMAIN modules : Lies(req, frame, k) <=> k = i
        BY <2>1, LiesOnce
      <3> QED
        BY <3>10, <3>11, <3>12
    <2> QED
      BY <2>9, <2>10
  <1> QED
    BY <1>1, <1>2 DEF At

-----------------------------------------------------------------------------
(* Unwinding *)

\* A module that a candidate frame is in
Met(m) == \E t \in Threads : \E j \in 1 .. Len(request.threads[t]) : m \in ModuleAt(request.threads[t][j].addr)

Walk == [pos : Nat, frames : Seq(RawFrame), at : {"ready", "fetching", "waiting"}]

ThreadInv(t) ==
    /\ walk[t].pos \in 1 .. Len(request.threads[t]) + 1
    /\ walk[t].at # "ready" => walk[t].pos <= Len(request.threads[t])
    /\ \A j \in 1 .. walk[t].pos - 1 : \A m \in ModuleAt(request.threads[t][j].addr) : cficaches[m] = "fetched"

CfiInv(m) ==
    /\ fetches[m] \in {0, 1}
    /\ cficaches[m] = "absent" => fetches[m] = 0
    /\ cficaches[m] # "absent" => Met(m)

\* Unwind information is fetched when a candidate frame needs it, and is
\* there before the frame is considered.
WalkInv ==
    /\ request \in Requests
    /\ walk \in [Threads -> Walk]
    /\ cficaches = [m \in Modules |-> cficaches[m]] /\ fetches = [m \in Modules |-> fetches[m]]
    /\ \A t \in Threads : ThreadInv(t)
    /\ \A m \in Modules : CfiInv(m)
    /\ pc # "walk" \/ request.kind # "minidump" => \A t \in Threads : walk[t].at = "ready"

LEMMA RequestIs ==
    ASSUME NEW r \in Requests
    PROVE  /\ r.kind \in {"minidump", "apple", "event"}
           /\ IsList(r.threads) /\ \A t \in DOMAIN r.threads : r.threads[t] \in Seq(RawFrame)
           /\ Modular(r.modules)
  <1>1. r.kind \in {"minidump", "apple", "event"} /\ r.threads \in Seq(Seq(RawFrame))
    BY RequestsAssumption
  <1>2. r.modules \in Seq(Range(r.modules)) /\ \A m \in Range(r.modules) : IsModule(m)
    BY RequestsAssumption
  <1>3. IsList(r.threads) /\ \A t \in DOMAIN r.threads : r.threads[t] \in Seq(RawFrame)
    BY <1>1, LenProperties, ElementOfSeq DEF IsList
  <1>4. IsList(r.modules)
    BY <1>2, LenProperties DEF IsList
  <1>5. \A i \in DOMAIN r.modules : IsModule(r.modules[i])
    BY <1>2 DEF Range
  <1> QED
    BY <1>1, <1>3, <1>4, <1>5 DEF Modular

LEMMA InitWalkInv ==
    ASSUME Init
    PROVE  WalkInv
  <1>1. request \in Requests
    BY DEF Init
  <1>2. \A t \in Threads : /\ walk[t] = [pos |-> 1, frames |-> <<>>, at |-> "ready"]
                           /\ Len(request.threads[t]) \in Nat
    BY <1>1, RequestIs, LenProperties DEF Init, Threads
  <1>3. ASSUME NEW t \in Threads PROVE ThreadInv(t) /\ walk[t].at = "ready"
    <2>1. walk[t].pos = 1 /\ walk[t].at = "ready"
      BY <1>2
    <2>3. 1 \in 1 .. Len(request.threads[t]) + 1 /\ 1 .. 1 - 1 = {}
      BY <1>2
    <2> QED
      BY <2>1, <2>3 DEF ThreadInv
  <1>4. \A m \in Modules : CfiInv(m)
    BY DEF Init, CfiInv
  <1>5. walk \in [Threads -> Walk]
    <2>1. [pos |-> 1, frames |-> <<>>, at |-> "ready"] \in Walk
      BY DEF Walk
    <2> QED
      BY <2>1 DEF Init
  <1> QED
    BY <1>1, <1>3, <1>4, <1>5 DEF Init, WalkInv

\* The frame a thread considers is one of its candidates.
LEMMA Considered ==
    ASSUME WalkInv, NEW t \in Threads, walk[t].pos <= Len(request.threads[t])
    PROVE  /\ walk[t].pos \in 1 .. Len(request.threads[t])
           /\ Candidate(t) \in RawFrame
           /\ \A m \in ModuleAt(Candidate(t).addr) : m \in Modules /\ Met(m)
  <1>1. request.threads[t] \in Seq(RawFrame)
    BY RequestIs DEF WalkInv, Threads
  <1>2. Len(request.threads[t]) \in Nat /\ walk[t].pos \in 1 .. Len(request.threads[t])
    BY <1>1, LenProperties DEF WalkInv, ThreadInv
  <1>3. Candidate(t) = request.threads[t][walk[t].pos]
    BY DEF Candidate
  <1>4. Candidate(t) \in RawFrame
    BY <1>1, <1>2, <1>3, ElementOfSeq, LenProperties
  <1>5. \A m \in ModuleAt(Candidate(t).addr) : m \in Modules
    BY DEF ModuleAt
  <1> QED
    BY <1>2, <1>3, <1>4, <1>5 DEF Met

LEMMA WalkFrameWalkInv ==
    ASSUME WalkInv, NEW t \in Threads, WalkFrame(t), request.kind = "minidump"
    PROVE  WalkInv'
  <1>1. /\ pc = "walk" /\ walk[t].at = "ready" /\ walk[t].pos <= Len(request.threads[t])
        /\ \A m \in ModuleAt(Candidate(t).addr) : cficaches[m] = "fetched"
        /\ walk' = [walk EXCEPT ![t].pos = @ + 1,
                                ![t].frames = IF Disregarded(Candidate(t)) THEN @ ELSE Append(@, Candidate(t))]
        /\ request' = request /\ pc' = pc /\ cficaches' = cficaches /\ fetches' = fetches
    BY DEF WalkFrame, Walking
  <1> DEFINE w == walk[t]
             n == Len(request.threads[t])
             frames == IF Disregarded(Candidate(t)) THEN w.frames ELSE Append(w.frames, Candidate(t))
  <1>2. walk \in [Threads -> Walk] /\ ThreadInv(t) /\ request \in Requests
    BY DEF WalkInv
  <1>3. /\ DOMAIN walk' = Threads
        /\ walk'[t].pos = w.pos + 1 /\ walk'[t].frames = frames /\ walk'[t].at = w.at
        /\ walk'[t] = [pos |-> walk'[t].pos, frames |-> walk'[t].frames, at |-> walk'[t].at]
        /\ \A u \in Threads : u # t => walk'[u] = walk[u]
    BY <1>1, <1>2 DEF Walk
  <1>4. w.pos \in 1 .. n /\ n \in Nat /\ Candidate(t) \in RawFrame
    BY <1>1, <1>2, RequestIs, LenProperties, Considered DEF Threads
  <1>5. frames \in Seq(RawFrame)
    BY <1>2, <1>4 DEF Walk
  <1>6. Threads' = Threads /\ Modules' = Modules /\ \A addr : ModuleAt(addr)' = ModuleAt(addr)
    BY <1>1 DEF Threads, Modules, ModuleAt
  <1>7. ASSUME NEW u \in Threads PROVE ThreadInv(u)' /\ (walk[u].at = "ready" => walk'[u].at = "ready")
    <2>1. CASE u = t
      <3>1. walk'[u].pos = w.pos + 1 /\ walk'[u].at = "ready"
        BY <1>1, <1>3, <2>1
      <3> DEFINE p == w.pos
      <3>2. Candidate(t) = request.threads[t][p]
        BY DEF Candidate
      <3>3. \A j \in 1 .. p - 1 : \A m \in ModuleAt(request.threads[t][j].addr) : cficaches[m] = "fetched"
        BY <1>2 DEF ThreadInv
      <3> HIDE DEF frames, p
      <3>4. p \in 1 .. n /\ walk'[u].pos = p + 1
        BY <1>4, <3>1 DEF p
      <3>5. p + 1 \in 1 .. n + 1 /\ 1 .. (p + 1) - 1 = (1 .. p - 1) \cup {p}
        BY <1>4, <3>4
      <3>6. \A j \in 1 .. (p + 1) - 1 : \A m \in ModuleAt(request.threads[t][j].addr) : cficaches[m] = "fetched"
        BY <1>1, <3>2, <3>3, <3>5
      <3> QED
        BY <1>1, <1>6, <2>1, <3>1, <3>4, <3>5, <3>6 DEF ThreadInv
    <2>2. CASE u # t
      <3>1. walk'[u] = walk[u]
        BY <1>3, <2>2
      <3>2. ThreadInv(u)
        BY DEF WalkInv
      <3> QED
        BY <1>1, <1>6, <3>1, <3>2 DEF ThreadInv
    <2> QED
      BY <2>1, <2>2
  <1>8. \A m \in Modules : CfiInv(m)'
    <2>1. \A m \in Modules : Met(m)' <=> Met(m)
      BY <1>1, <1>6 DEF Met
    <2> QED
      BY <1>1, <2>1 DEF WalkInv, CfiInv
  <1>9. walk' \in [Threads -> Walk]
    <2>1. w.pos + 1 \in Nat /\ w.at \in {"ready", "fetching", "waiting"}
      BY <1>2, <1>4 DEF Walk
    <2>2. walk'[t] \in Walk
      BY <1>3, <1>5, <2>1 DEF Walk
    <2>3. walk' = [u \in Threads |-> walk'[u]]
      BY <1>1, <1>2
    <2> QED
      BY <1>2, <1>3, <2>2, <2>3
  <1> QED
    BY <1>1, <1>2, <1>6, <1>7, <1>8, <1>9 DEF WalkInv

\* A step at which no frame is considered.
LEMMA WalkKept ==
    ASSUME WalkInv, request' = request, walk' \in [Threads -> Walk],
           cficaches' = [m \in Modules |-> cficaches'[m]], fetches' = [m \in Modules |-> fetches'[m]],
           \A u \in Threads : /\ walk'[u].pos = walk[u].pos
                              /\ walk'[u].at # "ready" => walk[u].pos <= Len(request.threads[u]),
           \A m \in Modules : /\ cficaches[m] = "fetched" => cficaches'[m] = "fetched"
                              /\ fetches'[m] \in {0, 1}
                              /\ cficaches'[m] = "absent" => fetches'[m] = 0
                              /\ cficaches'[m] # "absent" => Met(m),
           pc' # "walk" \/ request.kind # "minidump" => \A u \in Threads : walk'[u].at = "ready"
    PROVE  WalkInv'
  <1>1. Threads' = Threads /\ Modules' = Modules /\ \A addr : ModuleAt(addr)' = ModuleAt(addr)
    BY DEF Threads, Modules, ModuleAt
  <1>2. \A m : Met(m)' <=> Met(m)
    BY <1>1 DEF Met
  <1>3. ASSUME NEW u \in Threads PROVE ThreadInv(u)'
    <2>1. ThreadInv(u)
      BY DEF WalkInv
    <2>2. \A addr : \A m \in ModuleAt(addr) : m \in Modules
      BY DEF ModuleAt
    <2> QED
      BY <1>1, <2>1, <2>2 DEF ThreadInv
  <1>4. \A m \in Modules : CfiInv(m)'
    BY <1>2 DEF CfiInv
  <1> QED
    BY <1>1, <1>3, <1>4 DEF WalkInv

LEMMA FetchCfiWalkInv ==
    ASSUME WalkInv, NEW t \in Threads, FetchCfi(t), request.kind = "minidump"
    PROVE  WalkInv'
  <1>1. PICK m \in ModuleAt(Candidate(t).addr) :
          /\ cficaches[m] = "absent"
          /\ cficaches' = [cficaches EXCEPT ![m] = "fetching"]
          /\ fetches' = [fetches EXCEPT ![m] = @ + 1]
    BY DEF FetchCfi
  <1>2. /\ pc = "walk" /\ walk[t].pos <= Len(request.threads[t])
        /\ walk' = [walk EXCEPT ![t].at = "fetching"]
        /\ request' = request /\ pc' = pc
    BY DEF FetchCfi, Walking
  <1>3. m \in Modules /\ Met(m)
    BY <1>1, <1>2, Considered
  <1>4. walk \in [Threads -> Walk]
    BY DEF WalkInv
  <1>5. /\ walk' \in [Threads -> Walk]
        /\ \A u \in Threads : walk'[u].pos = walk[u].pos /\ (u # t => walk'[u] = walk[u])
    BY <1>2, <1>4 DEF Walk
  <1>6. \A u \in Threads : walk'[u].at # "ready" => walk[u].pos <= Len(request.threads[u])
    BY <1>2, <1>5 DEF WalkInv, ThreadInv
  <1>7. /\ cficaches = [i \in Modules |-> cficaches[i]] /\ fetches = [i \in Modules |-> fetches[i]]
        /\ \A i \in Modules : CfiInv(i)
    BY DEF WalkInv
  <1>8. /\ cficaches' = [i \in Modules |-> cficaches'[i]] /\ fetches' = [i \in Modules |-> fetches'[i]]
        /\ \A i \in Modules : /\ cficaches'[i] = IF i = m THEN "fetching" ELSE cficaches[i]
                              /\ fetches'[i] = IF i = m THEN fetches[i] + 1 ELSE fetches[i]
    BY <1>1, <1>3, <1>7
  <1>9. \A i \in Modules : /\ cficaches[i] = "fetched" => cficaches'[i] = "fetched"
                           /\ fetches'[i] \in {0, 1}
                           /\ cficaches'[i] = "absent" => fetches'[i] = 0
                           /\ cficaches'[i] # "absent" => Met(i)
    <2>1. fetches[m] = 0
      BY <1>1, <1>3, <1>7 DEF CfiInv
    <2>2. /\ cficaches[m] # "fetched" /\ cficaches'[m] = "fetching" /\ fetches'[m] = 1
      BY <1>1, <1>3, <1>8, <2>1
    <2>3. ASSUME NEW i \in Modules, i # m
          PROVE  cficaches'[i] = cficaches[i] /\ fetches'[i] = fetches[i] /\ CfiInv(i)
      BY <1>7, <1>8, <2>3
    <2> QED
      BY <1>3, <2>2, <2>3 DEF CfiInv
  <1> QED
    BY <1>2, <1>5, <1>6, <1>8, <1>9, WalkKept

LEMMA AwaitCfiWalkInv ==
    ASSUME WalkInv, NEW t \in Threads, AwaitCfi(t), request.kind = "minidump"
    PROVE  WalkInv'
  <1>1. /\ pc = "walk" /\ walk[t].pos <= Len(request.threads[t])
        /\ walk' = [walk EXCEPT ![t].at = "waiting"]
        /\ request' = request /\ pc' = pc /\ cficaches' = cficaches /\ fetches' = fetches
    BY DEF AwaitCfi, Walking
  <1>2. walk \in [Threads -> Walk]
    BY DEF WalkInv
  <1>3. /\ walk' \in [Threads -> Walk]
        /\ \A u \in Threads : walk'[u].pos = walk[u].pos /\ (u # t => walk'[u] = walk[u])
    BY <1>1, <1>2 DEF Walk
  <1>4. \A u \in Threads : walk'[u].at # "ready" => walk[u].pos <= Len(request.threads[u])
    BY <1>1, <1>3 DEF WalkInv, ThreadInv
  <1>5. /\ cficaches' = [i \in Modules |-> cficaches'[i]] /\ fetches' = [i \in Modules |-> fetches'[i]]
        /\ \A i \in Modules : /\ cficaches[i] = "fetched" => cficaches'[i] = "fetched"
                              /\ fetches'[i] \in {0, 1}
                              /\ cficaches'[i] = "absent" => fetches'[i] = 0
                              /\ cficaches'[i] # "absent" => Met(i)
    BY <1>1 DEF WalkInv, CfiInv
  <1> QED
    BY <1>1, <1>3, <1>4, <1>5, WalkKept

LEMMA CfiFetchedWalkInv ==
    ASSUME WalkInv, NEW t \in Threads, CfiFetched(t), request.kind = "minidump"
    PROVE  WalkInv'
  <1>1. PICK m \in ModuleAt(Candidate(t).addr) :
          /\ cficaches' = [cficaches EXCEPT ![m] = "fetched"]
          /\ walk' = [u \in Threads |->
                        IF u \in Woken(m) \cup {t} THEN [walk[u] EXCEPT !.at = "ready"] ELSE walk[u]]
    BY DEF CfiFetched
  <1>2. walk[t].at = "fetching" /\ request' = request /\ pc' = pc /\ fetches' = fetches
    BY DEF CfiFetched
  <1>3. pc = "walk" /\ walk[t].pos <= Len(request.threads[t]) /\ walk \in [Threads -> Walk]
    BY <1>2 DEF WalkInv, ThreadInv
  <1>4. m \in Modules /\ Met(m)
    BY <1>1, <1>3, Considered
  <1>5. ASSUME NEW u \in Threads
        PROVE  /\ walk'[u] \in Walk /\ walk'[u].pos = walk[u].pos
               /\ walk'[u].at = "ready" \/ walk'[u] = walk[u]
    <2>1. walk[u] \in Walk
      BY <1>3
    <2>2. /\ [walk[u] EXCEPT !.at = "ready"] \in Walk
          /\ [walk[u] EXCEPT !.at = "ready"].pos = walk[u].pos
          /\ [walk[u] EXCEPT !.at = "ready"].at = "ready"
      BY <2>1 DEF Walk
    <2>3. walk'[u] = [walk[u] EXCEPT !.at = "ready"] \/ walk'[u] = walk[u]
      BY <1>1
    <2> QED
      BY <2>1, <2>2, <2>3
  <1>6. walk' \in [Threads -> Walk]
    BY <1>1, <1>5
  <1>7. \A u \in Threads : walk'[u].at # "ready" => walk[u].pos <= Len(request.threads[u])
    BY <1>5 DEF WalkInv, ThreadInv
  <1>8. /\ cficaches = [i \in Modules |-> cficaches[i]] /\ fetches = [i \in Modules |-> fetches[i]]
        /\ \A i \in Modules : CfiInv(i)
    BY DEF WalkInv
  <1>9. /\ cficaches' = [i \in Modules |-> cficaches'[i]] /\ fetches' = [i \in Modules |-> fetches'[i]]
        /\ \A i \in Modules : cficaches'[i] = IF i = m THEN "fetched" ELSE cficaches[i]
    BY <1>1, <1>2, <1>4, <1>8
  <1>10. \A i \in Modules : /\ cficaches[i] = "fetched" => cficaches'[i] = "fetched"
                            /\ fetches'[i] \in {0, 1}
                            /\ cficaches'[i] = "absent" => fetches'[i] = 0
                            /\ cficaches'[i] # "absent" => Met(i)
    BY <1>2, <1>4, <1>8, <1>9 DEF CfiInv
  <1> QED
    BY <1>2, <1>3, <1>5, <1>6, <1>7, <1>9, <1>10, WalkKept

\* The steps before and after unwinding
LEMMA OtherWalkInv ==
    ASSUME WalkInv, request' = request, walk' = walk, cficaches' = cficaches, fetches' = fetches,
           pc' # "walk" /\ request.kind = "minidump" => \A u \in Threads : walk[u].at = "ready"
    PROVE  WalkInv'
  <1>1. walk' \in [Threads -> Walk]
    BY DEF WalkInv
  <1>2. \A u \in Threads : walk'[u].pos = walk[u].pos /\ (walk'[u].at # "ready" => walk[u].pos <= Len(request.threads[u]))
    BY DEF WalkInv, ThreadInv
  <1>3. /\ cficaches' = [i \in Modules |-> cficaches'[i]] /\ fetches' = [i \in Modules |-> fetches'[i]]
        /\ \A i \in Modules : /\ cficaches[i] = "fetched" => cficaches'[i] = "fetched"
                              /\ fetches'[i] \in {0, 1}
                              /\ cficaches'[i] = "absent" => fetches'[i] = 0
                              /\ cficaches'[i] # "absent" => Met(i)
    BY DEF WalkInv, CfiInv
  <1>4. pc' # "walk" \/ request.kind # "minidump" => \A u \in Threads : walk'[u].at = "ready"
    BY DEF WalkInv
  <1> QED
    BY <1>1, <1>2, <1>3, <1>4, WalkKept

-----------------------------------------------------------------------------
(* The request that is symbolicated *)

SentInv(req) ==
    /\ Modular(req.modules)
    /\ \A t \in DOMAIN req.traces : req.traces[t] \in Seq(RawFrame)

\* What is reported of the unwind information of module m, if it was fetched.
UnwindStatus(m, fetched) ==
    IF ~fetched THEN "unused"
    ELSE IF request.modules[m].cfi = "ok" THEN "found" ELSE FileStatus(request.modules[m].cfi)

\* What the modules tell of unwinding.
Unwound(modules) ==
    /\ \A i \in DOMAIN modules : "unwind" \in DOMAIN modules[i]
    /\ \A m \in Modules :
          /\ Met(m) => \E i \in DOMAIN modules : modules[i].start = request.modules[m].start
          /\ \A i \in DOMAIN modules : modules[i].start = request.modules[m].start =>
                modules[i].unwind = UnwindStatus(m, Met(m))

\* The stack traces the client recorded
LEMMA ClientTracesAre ==
    ASSUME NEW streams, streams # <<>> => IsExtension(streams[1]),
           NEW client, client = ClientTraces(streams)
    PROVE  IsList(client) /\ \A i \in DOMAIN client : client[i].frames \in Seq(RawFrame)
  <1> DEFINE e == streams[1]
  <1>1. CASE streams = <<>> \/ ~ Parses(e)
    <2>1. client = <<>>
      BY <1>1 DEF ClientTraces
    <2>2. Len(<<>>) = 0 /\ DOMAIN <<>> = 1 .. 0 /\ 0 \in Nat /\ 1 .. 0 = {}
      OBVIOUS
    <2> QED
      BY <2>1, <2>2 DEF IsList
  <1>2. CASE streams # <<>> /\ Parses(e)
    <2> DEFINE Raw(a) == [addr |-> a, mode |-> None, trust |-> "prewalked", adjust |-> "auto", base |-> FALSE]
               FramesOf(t) == [f \in 1 .. e.threads[t].count |-> Raw(e.frames[e.threads[t].first + f].addr)]
    <2>1. client = [t \in DOMAIN e.threads |-> [id |-> e.threads[t].id, frames |-> FramesOf(t)]]
      BY <1>2 DEF ClientTraces
    <2>2. /\ e.threads \in Seq([id : Nat, first : Nat, count : Nat])
          /\ e.frames \in Seq([addr : 0 .. MaxAddr, offset : Nat, len : Nat])
          /\ \A t \in Range(e.threads) : t.first + t.count <= Len(e.frames)
      BY <1>2 DEF IsExtension, Parses
    <2>3. \A a \in 0 .. MaxAddr : Raw(a) \in RawFrame
      <3> SUFFICES ASSUME NEW a \in 0 .. MaxAddr PROVE Raw(a) \in RawFrame
        OBVIOUS
      <3>1. None \in Nat \cup {None}
        OBVIOUS
      <3>2. "prewalked" \in {"none", "scan", "cfiscan", "fp", "cfi", "prewalked", "context"}
        BY SMT
      <3>3. FALSE \in BOOLEAN
        BY Zenon
      <3>4. "auto" \in {"auto", "yes", "no"}
        BY SMT
      <3> QED
        BY <3>1, <3>2, <3>3, <3>4, Zenon DEF RawFrame
    <2> HIDE DEF Raw, e
    <2>4. ASSUME NEW t \in DOMAIN e.threads PROVE FramesOf(t) \in Seq(RawFrame)
      <3> DEFINE first == e.threads[t].first
                 count == e.threads[t].count
      <3>1. first \in Nat /\ count \in Nat /\ first + count <= Len(e.frames)
        <4>1. e.threads[t] \in [id : Nat, first : Nat, count : Nat]
          BY <2>2, ElementOfSeq, LenProperties
        <4>2. e.threads[t] \in Range(e.threads)
          BY DEF Range
        <4> QED
          BY <2>2, <4>1, <4>2
      <3> HIDE DEF first, count
      <3>2. ASSUME NEW f \in 1 .. count PROVE e.frames[first + f].addr \in 0 .. MaxAddr
        <4>1. first + f \in 1 .. Len(e.frames)
          BY <2>2, <3>1, LenProperties
        <4> QED
          <5>1. e.frames[first + f] \in [addr : 0 .. MaxAddr, offset : Nat, len : Nat]
            BY <2>2, <4>1, ElementOfSeq
          <5> QED
            BY <5>1
      <3>3. \A f \in 1 .. count : Raw(e.frames[first + f].addr) \in RawFrame
        BY <2>3, <3>2
      <3>4. [f \in 1 .. count |-> Raw(e.frames[first + f].addr)] \in Seq(RawFrame)
        BY <3>1, <3>3, IsASeq
      <3> QED
        BY <3>4 DEF first, count
    <2> HIDE DEF FramesOf
    <2>5. \A t \in DOMAIN e.threads : client[t].frames = FramesOf(t)
      BY <2>1
    <2>6. DOMAIN client = 1 .. Len(e.threads) /\ Len(e.threads) \in Nat
      BY <2>1, <2>2, LenProperties
    <2>7. Len(client) = Len(e.threads)
      BY <2>1, <2>6
    <2> QED
      BY <2>1, <2>4, <2>5, <2>6, <2>7 DEF IsList
  <1> QED
    BY <1>1, <1>2

LEMMA MergeTracesAre ==
    ASSUME NEW processed, \A t \in DOMAIN processed : processed[t] \in Seq(RawFrame),
           NEW client, IsList(client), \A i \in DOMAIN client : client[i].frames \in Seq(RawFrame),
           NEW merged, merged = MergeTraces(processed, client)
    PROVE  \A t \in DOMAIN merged : merged[t] \in Seq(RawFrame)
  <1> SUFFICES ASSUME NEW t \in DOMAIN merged PROVE merged[t] \in Seq(RawFrame)
    OBVIOUS
  <1> DEFINE I == {i \in 1 .. Len(client) : client[i].id = t}
             last == IF I # {} THEN Max(I) ELSE 0
  <1>1. t \in DOMAIN processed
    BY DEF MergeTraces
  <1>2. merged[t] = IF last = 0 THEN processed[t]
                    ELSE IF client[last].frames = <<>> THEN processed[t] ELSE client[last].frames
    BY <1>1 DEF MergeTraces, SelectLastInSeq
  <1>3. last = 0 \/ last \in DOMAIN client
    <2>1. Len(client) \in Nat /\ I \in SUBSET (1 .. Len(client)) /\ DOMAIN client = 1 .. Len(client)
      BY DEF IsList
    <2> HIDE DEF I
    <2>2. I # {} => Max(I) \in I
      BY <2>1, LastNumber
    <2> QED
      BY <2>1, <2>2
  <1> HIDE DEF last
  <1> QED
    BY <1>1, <1>2, <1>3

\* What Submit waits for: no candidate frame is left.
WalkDone == \A t \in Threads : walk[t].at = "ready" /\ walk[t].pos > Len(request.threads[t])

LEMMA FetchedWhenMet ==
    ASSUME WalkInv, WalkDone, NEW m \in Modules
    PROVE  Met(m) <=> cficaches[m] = "fetched"
  <1>1. ASSUME Met(m) PROVE cficaches[m] = "fetched"
    <2>0. PICK t \in Threads : \E j \in 1 .. Len(request.threads[t]) : m \in ModuleAt(request.threads[t][j].addr)
      BY <1>1 DEF Met
    <2>1. PICK j \in 1 .. Len(request.threads[t]) : m \in ModuleAt(request.threads[t][j].addr)
      BY <2>0
    <2>2. Len(request.threads[t]) \in Nat
      BY RequestIs, LenProperties DEF WalkInv, Threads
    <2>3. ThreadInv(t) /\ walk[t].pos > Len(request.threads[t])
      BY DEF WalkInv, WalkDone
    <2>4. j \in 1 .. walk[t].pos - 1
      BY <2>2, <2>3 DEF ThreadInv
    <2> QED
      BY <2>1, <2>3, <2>4 DEF ThreadInv
  <1>2. CfiInv(m)
    BY DEF WalkInv
  <1> QED
    BY <1>1, <1>2 DEF CfiInv

LEMMA ModuleInfoIs ==
    ASSUME WalkInv, WalkDone, request.kind = "minidump", NEW i \in Modules, NEW info, info = ModuleInfo(i)
    PROVE  /\ IsModule(info) /\ "unwind" \in DOMAIN info
           /\ info.start = request.modules[i].start
           /\ info.unwind = UnwindStatus(i, Met(i))
  <1> DEFINE m == request.modules[i]
             found == IF m.cfi = "ok" THEN "found" ELSE FileStatus(m.cfi)
             unwind == IF cficaches[i] = "fetched" THEN found ELSE "unused"
             cache == IF m.ident = "none" /\ ~(cficaches[i] = "fetched" /\ m.cfi = "ok" /\ m.backfill)
                      THEN "notfound" ELSE m.cache
  <1>1. info = Over([unwind |-> unwind, cache |-> cache], m)
    BY DEF ModuleInfo
  <1>2. IsModule(m)
    <2>1. request \in Requests
      BY DEF WalkInv
    <2>2. m \in Range(request.modules)
      BY DEF Modules, Range
    <2> QED
      BY <2>1, <2>2, RequestsAssumption
  <1>3. UnwindStatus(i, Met(i)) = IF Met(i) THEN found ELSE "unused"
    BY DEF UnwindStatus
  <1> HIDE DEF m, unwind, cache, found
  <1>4. /\ DOMAIN info = {"unwind", "cache"} \cup DOMAIN m
        /\ info.unwind = unwind
        /\ \A f \in DOMAIN m : f \notin {"unwind", "cache"} => info[f] = m[f]
    BY <1>1 DEF Over
  <1>5. ModuleFields \subseteq DOMAIN m
    BY <1>2 DEF IsModule
  <1>6. info["start"] = m["start"] /\ info["size"] = m["size"] /\ info["symbols"] = m["symbols"]
    BY <1>4, <1>5 DEF ModuleFields
  <1>7. IsModule(info)
    BY <1>2, <1>4, <1>5, <1>6 DEF IsModule
  <1>8. info.unwind = UnwindStatus(i, Met(i))
    <2>1. Met(i) <=> cficaches[i] = "fetched"
      BY FetchedWhenMet
    <2>2. unwind = IF cficaches[i] = "fetched" THEN found ELSE "unused"
      BY DEF unwind
    <2> QED
      BY <1>3, <1>4, <2>1, <2>2
  <1> QED
    BY <1>4, <1>6, <1>7, <1>8 DEF m

LEMMA MinidumpRequestIs ==
    ASSUME WalkInv, WalkDone, request.kind = "minidump", NEW req, req = MinidumpRequest
    PROVE  SentInv(req) /\ Unwound(req.modules)
  <1> DEFINE some == {i \in Modules : cficaches[i] # "absent" \/ request.modules[i].ident # "none"}
             kept == ByAddress(request.modules, some)
             n == Cardinality(some)
             taken == [t \in Threads |-> SubSeq(walk[t].frames, 1, Min({MaxFrames, Len(walk[t].frames)}))]
             client == ClientTraces(request.extension)
  <1>1. /\ req.modules = [k \in DOMAIN kept |-> ModuleInfo(kept[k])]
        /\ req.traces = MergeTraces(taken, client)
    BY DEF MinidumpRequest
  <1>2. request \in Requests /\ Modular(request.modules)
    BY RequestIs DEF WalkInv
  <1>3. IsFiniteSet(some) /\ Comparable(request.modules, some) /\ n \in Nat
    <2>1. Len(request.modules) \in Nat /\ Modules = 1 .. Len(request.modules)
      BY <1>2 DEF Modular, IsList, Modules
    <2>2. IsFiniteSet(Modules)
      BY <2>1, FS_Interval
    <2>3. some \in SUBSET Modules
      OBVIOUS
    <2>4. Comparable(request.modules, Modules)
      BY <1>2, <2>1, AddressAssumption DEF Comparable, Modular, IsModule, Modules
    <2>5. Comparable(request.modules, some)
      BY <2>3, <2>4 DEF Comparable
    <2> HIDE DEF some
    <2> QED
      BY <2>2, <2>3, <2>5, FS_Subset, FS_CardinalityType
  <1>4. /\ kept \in [1 .. n -> some]
        /\ \A i \in some : \E p \in 1 .. n : kept[p] = i
    <2> HIDE DEF some, kept
    <2> QED
      BY <1>3, ByAddressOrders DEF kept
  <1>5. some \subseteq Modules
    OBVIOUS
  <1> DEFINE modules == req.modules
  <1>6. DOMAIN modules = 1 .. n /\ IsList(modules)
    <2> HIDE DEF kept, n
    <2>1. modules = [k \in 1 .. n |-> ModuleInfo(kept[k])]
      BY <1>1, <1>4
    <2> QED
      BY <1>3, <2>1 DEF IsList
  <1> HIDE DEF kept, n
  <1>7. ASSUME NEW k \in 1 .. n
        PROVE  /\ kept[k] \in Modules
               /\ IsModule(modules[k]) /\ "unwind" \in DOMAIN modules[k]
               /\ modules[k].start = request.modules[kept[k]].start
               /\ modules[k].unwind = UnwindStatus(kept[k], Met(kept[k]))
    <2>1. kept[k] \in Modules
      BY <1>4, <1>5
    <2>2. modules[k] = ModuleInfo(kept[k])
      BY <1>1, <1>4
    <2> HIDE DEF modules
    <2> QED
      BY <2>1, <2>2, ModuleInfoIs
  <1>8. ASSUME NEW m \in Modules
        PROVE  /\ Met(m) => \E k \in 1 .. n : modules[k].start = request.modules[m].start
               /\ \A k \in 1 .. n : modules[k].start = request.modules[m].start =>
                     modules[k].unwind = UnwindStatus(m, Met(m))
    <2>1. ASSUME Met(m) PROVE \E k \in 1 .. n : modules[k].start = request.modules[m].start
      <3>1. m \in some
        BY <2>1, FetchedWhenMet
      <3>2. PICK k \in 1 .. n : kept[k] = m
        BY <1>4, <3>1
      <3> QED
        BY <1>7, <3>2
    <2>2. ASSUME NEW k \in 1 .. n, modules[k].start = request.modules[m].start
          PROVE  modules[k].unwind = UnwindStatus(m, Met(m))
      <3>1. request.modules[kept[k]].start = request.modules[m].start /\ kept[k] \in Modules
        BY <1>7, <2>2
      <3>2. kept[k] = m
        BY <1>2, <3>1, RequestsAssumption DEF Modules
      <3> QED
        BY <1>7, <3>2
    <2> QED
      BY <2>1, <2>2
  <1>9. Unwound(modules)
    <2> HIDE DEF modules, some
    <2> QED
      BY <1>6, <1>7, <1>8 DEF Unwound
  <1>10. Modular(modules)
    <2> HIDE DEF modules, some
    <2> QED
      BY <1>6, <1>7 DEF Modular
  <1>11. \A t \in DOMAIN req.traces : req.traces[t] \in Seq(RawFrame)
    <2>1. IsList(client) /\ \A i \in DOMAIN client : client[i].frames \in Seq(RawFrame)
      <3>1. request.extension # <<>> => IsExtension(request.extension[1])
        BY <1>2, RequestsAssumption
      <3> HIDE DEF client
      <3> QED
        BY <3>1, ClientTracesAre DEF client
    <2>2. \A t \in DOMAIN taken : taken[t] \in Seq(RawFrame)
      <3> SUFFICES ASSUME NEW t \in Threads PROVE taken[t] \in Seq(RawFrame)
        OBVIOUS
      <3> DEFINE frames == walk[t].frames
                 s == {MaxFrames, Len(frames)}
                 last == Min(s)
      <3>1. frames \in Seq(RawFrame)
        BY DEF WalkInv, Walk
      <3>2. taken[t] = SubSeq(frames, 1, last)
        OBVIOUS
      <3> HIDE DEF frames, taken
      <3>3. MaxFrames \in Nat /\ Len(frames) \in Nat
        BY <3>1, LenProperties, RequestsAssumption
      <3>4. last \in s /\ last <= Len(frames)
        <4>1. \E m \in s : \A k \in s : m <= k
          BY <3>3
        <4>2. last \in s /\ \A k \in s : last <= k
          <5> HIDE DEF s
          <5> QED
            BY <4>1 DEF Min
        <4> QED
          BY <4>2
      <3>5. last \in Nat /\ last <= Len(frames)
        BY <3>3, <3>4
      <3> HIDE DEF last, s
      <3>6. \A k \in 1 .. last : frames[k] \in RawFrame
        BY <3>1, <3>3, <3>5, ElementOfSeq
      <3> QED
        BY <3>2, <3>5, <3>6, SubSeqProperties
    <2> HIDE DEF taken, client
    <2> QED
      <3> DEFINE merged == req.traces
      <3>1. merged = MergeTraces(taken, client)
        BY <1>1
      <3> HIDE DEF merged
      <3>2. \A t \in DOMAIN merged : merged[t] \in Seq(RawFrame)
        BY <2>1, <2>2, <3>1, MergeTracesAre
      <3> QED
        BY <3>2 DEF merged
  <1> QED
    BY <1>9, <1>10, <1>11 DEF SentInv

LEMMA SubmittedIs ==
    ASSUME WalkInv, request.kind = "minidump" => WalkDone, NEW req, req = Submitted
    PROVE  SentInv(req) /\ (request.kind = "minidump" => Unwound(req.modules))
  <1>1. request \in Requests
    BY DEF WalkInv
  <1>2. CASE request.kind = "minidump"
    <2>1. req = MinidumpRequest
      BY <1>2 DEF Submitted
    <2> QED
      BY <1>2, <2>1, MinidumpRequestIs
  <1>3. CASE request.kind \in {"apple", "event"}
    <2>1. req = AppleRequest \/ req = EventRequest
      BY <1>3 DEF Submitted
    <2>2. req.modules = request.modules /\ req.traces = request.threads
      BY <2>1 DEF AppleRequest, EventRequest
    <2>3. request.kind # "minidump"
      BY <1>3
    <2> QED
      BY <1>1, <2>2, <2>3, RequestIs DEF SentInv
  <1> QED
    BY <1>1, <1>2, <1>3, RequestIs

-----------------------------------------------------------------------------
(* The stages of symbolication *)

LEMMA ReverseIs ==
    ASSUME NEW S, NEW s \in Seq(S)
    PROVE  /\ Reverse(s) \in Seq(S) /\ Len(Reverse(s)) = Len(s)
           /\ \A k \in 1 .. Len(s) : Reverse(s)[k] = s[(Len(s) - k) + 1] /\ (Len(s) - k) + 1 \in 1 .. Len(s)
           /\ Reverse(Reverse(s)) = s
           /\ Range(Reverse(s)) = Range(s)
  <1> DEFINE n == Len(s)
             r == Reverse(s)
             rr == Reverse(r)
  <1>1. n \in Nat /\ DOMAIN s = 1 .. n /\ \A k \in 1 .. n : s[k] \in S
    BY LenProperties, ElementOfSeq
  <1>2. \A k \in 1 .. n : (n - k) + 1 \in 1 .. n /\ (n - ((n - k) + 1)) + 1 = k
    BY <1>1
  <1>3. r = [k \in 1 .. n |-> s[(n - k) + 1]]
    BY DEF Reverse
  <1> HIDE DEF r, n
  <1>4. r \in Seq(S)
    BY <1>1, <1>2, <1>3, IsASeq
  <1>5. Len(r) = n /\ DOMAIN r = 1 .. n
    BY <1>1, <1>3
  <1>6. rr = [k \in 1 .. n |-> r[(n - k) + 1]]
    BY <1>5 DEF Reverse
  <1> HIDE DEF rr
  <1>7. \A k \in 1 .. n : rr[k] = s[k]
    BY <1>2, <1>3, <1>6
  <1>8. rr \in Seq(S)
    <2>1. \A k \in 1 .. n : r[(n - k) + 1] \in S
      BY <1>1, <1>2, <1>3
    <2> QED
      BY <1>1, <1>6, <2>1, IsASeq
  <1>9. rr = s
    <2>1. Len(rr) = n
      BY <1>1, <1>6
    <2> QED
      BY <1>1, <1>7, <1>8, <2>1, SeqEqual DEF n
  <1>10. Range(r) = Range(s)
    <2>1. \A x \in Range(r) : x \in Range(s)
      BY <1>1, <1>2, <1>3, <1>5 DEF Range
    <2>2. ASSUME NEW k \in 1 .. n PROVE s[k] \in Range(r)
      <3>1. r[(n - k) + 1] = s[k]
        BY <1>2, <1>3
      <3> QED
        BY <1>2, <1>5, <3>1 DEF Range
    <2> QED
      BY <1>1, <2>1, <2>2 DEF Range
  <1> QED
    BY <1>2, <1>3, <1>4, <1>5, <1>9, <1>10 DEF r, rr, n

\* The frames that are symbolicated, callee first
Sent == InOrder(submitted, submitted.traces)

LEMMA SentIs ==
    ASSUME SentInv(submitted)
    PROVE  /\ DOMAIN Sent = DOMAIN submitted.traces
           /\ \A t \in DOMAIN Sent : /\ Sent[t] \in Seq(RawFrame) /\ Len(Sent[t]) \in Nat
                                     /\ DOMAIN Sent[t] = 1 .. Len(Sent[t])
                                     /\ \A k \in 1 .. Len(Sent[t]) : Sent[t][k] \in RawFrame
                                     /\ Range(Sent[t]) = Range(submitted.traces[t])
  <1>1. Sent = [t \in DOMAIN submitted.traces |->
                  IF submitted.callerFirst THEN Reverse(submitted.traces[t]) ELSE submitted.traces[t]]
    BY DEF Sent, InOrder
  <1>2. DOMAIN Sent = DOMAIN submitted.traces
    BY <1>1
  <1>3. ASSUME NEW t \in DOMAIN Sent
        PROVE  Sent[t] \in Seq(RawFrame) /\ Range(Sent[t]) = Range(submitted.traces[t])
    <2>1. submitted.traces[t] \in Seq(RawFrame)
      BY <1>2 DEF SentInv
    <2>2. Sent[t] = Reverse(submitted.traces[t]) \/ Sent[t] = submitted.traces[t]
      BY <1>1, <1>2
    <2> QED
      BY <2>1, <2>2, ReverseIs
  <1> QED
    BY <1>2, <1>3, LenProperties, ElementOfSeq

\* A module a frame that was sent lies in, and one that a frame made of it does
Hit(i) == \E t \in DOMAIN Sent : \E f \in Range(Sent[t]) : Lies(submitted, f, i)
HitBy(stacks, i) == \E t \in DOMAIN stacks : \E f \in Range(stacks[t]) : Lies(submitted, Sent[t][f.orig], i)

\* What FramesAccounted says of a stack trace
Accounts(frames, out) ==
    /\ out \in Seq(Range(out))
    /\ \A k \in 1 .. Len(out) :
          /\ out[k].orig \in 1 .. Len(frames)
          /\ out[k].symAddr # None => k = Len(out) \/ out[k + 1].orig # out[k].orig
    /\ \A k \in 1 .. Len(out) - 1 : out[k].orig <= out[k + 1].orig
    /\ \A j \in 1 .. Len(frames) : \/ \E k \in 1 .. Len(out) : out[k].orig = j
                                   \/ frames[j].trust = "scan"
                                   \/ j = Len(frames) /\ out # <<>>

\* The frames of the response are where the frames they are made of were.
Stays(frames, out) ==
    \A k \in 1 .. Len(out) :
        /\ out[k].addr \in 0 .. MaxAddr
        /\ \A i \in DOMAIN submitted.modules :
              Lies(submitted, out[k], i) <=> Lies(submitted, frames[out[k].orig], i)

TracesMade ==
    /\ DOMAIN traces = DOMAIN Sent
    /\ \A t \in DOMAIN traces : /\ Accounts(Sent[t], traces[t])
                                /\ WellFormed(submitted) => Stays(Sent[t], traces[t])

StatusIs(p, used) ==
    lookup[p].status = IF used THEN FileStatus(submitted.modules[lookup[p].index].cache) ELSE "unused"

UnwindTold ==
    request.kind = "minidump" =>
        \A m \in Modules :
           LET met  == \E t \in Threads : \E c \in Range(request.threads[t]) : m \in ModuleAt(c.addr)
               info == {i \in Range(lookup) : i.start = request.modules[m].start}
           IN  /\ met => info # {}
               /\ \A i \in info : i.unwind = UnwindStatus(m, met)

\* What is known at each stage of a request
StageInv ==
    /\ pc \in {"start", "walk", "failed", "prepare", "fetch", "symbolicate", "sources", "respond", "done"}
    /\ pc \in {"prepare", "fetch", "symbolicate", "sources", "respond", "done"} =>
          SentInv(submitted) /\ (request.kind = "minidump" => Unwound(submitted.modules))
    /\ pc \in {"fetch", "symbolicate", "sources", "respond"} => Holds(submitted.modules, lookup)
    /\ pc \in {"fetch", "symbolicate"} => traces = Sent
    /\ pc = "fetch" => \A p \in DOMAIN lookup : lookup[p].cache = submitted.modules[lookup[p].index].cache
    /\ pc \in {"symbolicate", "sources"} \/ (pc = "respond" /\ ~ submitted.sources) =>
          (WellFormed(submitted) => \A p \in DOMAIN lookup : StatusIs(p, Hit(lookup[p].index)))
    /\ pc \in {"sources", "respond"} => TracesMade
    /\ pc = "sources" => submitted.sources
    /\ pc = "respond" /\ submitted.sources =>
          (WellFormed(submitted) => \A p \in DOMAIN lookup : StatusIs(p, HitBy(traces, lookup[p].index)))
    /\ pc = "done" => FramesAccounted /\ StatusTruthful /\ UnwindTold

\* The modules that are fetched are those a frame lies in.
LEMMA ReferencedIs ==
    ASSUME NEW req, Modular(req.modules), Apart(req.modules), NEW sorted, Holds(req.modules, sorted),
           NEW stacks, \A t \in DOMAIN stacks : \A f \in Range(stacks[t]) : f.addr \in 0 .. MaxAddr,
           NEW p \in DOMAIN sorted
    PROVE  p \in Referenced(sorted, stacks) <=>
             \E t \in DOMAIN stacks : \E f \in Range(stacks[t]) : Lies(req, f, sorted[p].index)
  <1>1. p \in Referenced(sorted, stacks) <=>
          \E t \in DOMAIN stacks : \E f \in Range(stacks[t]) : ModuleByAddr(sorted, f.addr, f.mode) = p
    BY DEF Referenced
  <1>2. \A t \in DOMAIN stacks : \A f \in Range(stacks[t]) :
           ModuleByAddr(sorted, f.addr, f.mode) = p <=> Lies(req, f, sorted[p].index)
    BY LookupFinds
  <1> QED
    BY <1>1, <1>2

LEMMA WellFormedIs ==
    ASSUME SentInv(submitted), WellFormed(submitted)
    PROVE  /\ Apart(submitted.modules)
           /\ \A t \in DOMAIN Sent : \A f \in Range(Sent[t]) : f.addr \in 0 .. MaxAddr /\ Inside(submitted.modules, f)
  <1>1. Apart(submitted.modules)
    BY DEF WellFormed, Apart
  <1>2. ASSUME NEW t \in DOMAIN Sent, NEW f \in Range(Sent[t])
        PROVE  f.addr \in 0 .. MaxAddr /\ Inside(submitted.modules, f)
    <2>1. f \in RawFrame /\ t \in DOMAIN submitted.traces /\ f \in Range(submitted.traces[t])
      BY SentIs DEF Range
    <2>2. f.addr \in 0 .. MaxAddr
      BY <2>1 DEF RawFrame
    <2>3. Inside(submitted.modules, f)
      BY <2>1 DEF WellFormed, Inside
    <2> QED
      BY <2>2, <2>3
  <1> QED
    BY <1>1, <1>2

\* What the later stages know of the request stays.
LEMMA SubmissionKept ==
    ASSUME request' = request, submitted' = submitted
    PROVE  /\ Sent' = Sent
           /\ SentInv(submitted)' <=> SentInv(submitted)
           /\ Unwound(submitted.modules)' <=> Unwound(submitted.modules)
           /\ WellFormed(submitted)' <=> WellFormed(submitted)
           /\ \A i : Hit(i)' <=> Hit(i)
  <1>1. Sent' = Sent
    BY DEF Sent, InOrder
  <1>2. SentInv(submitted)' <=> SentInv(submitted)
    BY DEF SentInv
  <1>3. Unwound(submitted.modules)' <=> Unwound(submitted.modules)
    <2>1. Threads' = Threads /\ Modules' = Modules /\ \A addr : ModuleAt(addr)' = ModuleAt(addr)
      BY DEF Threads, Modules, ModuleAt
    <2>2. \A m : Met(m)' <=> Met(m)
      BY <2>1 DEF Met
    <2>3. \A m : UnwindStatus(m, Met(m))' = UnwindStatus(m, Met(m))
      BY <2>2 DEF UnwindStatus
    <2> QED
      BY <2>1, <2>2, <2>3 DEF Unwound
  <1>4. WellFormed(submitted)' <=> WellFormed(submitted)
    BY DEF WellFormed
  <1>5. \A i : Hit(i)' <=> Hit(i)
    BY <1>1 DEF Hit
  <1> QED
    BY <1>1, <1>2, <1>3, <1>4, <1>5

\* Before the request is put together nothing is known.
LEMMA EarlyStageInv ==
    ASSUME pc \in {"start", "walk", "failed"}
    PROVE  StageInv
  BY DEF StageInv

LEMMA SubmitStageInv ==
    ASSUME WalkInv, Submit
    PROVE  StageInv' /\ WalkInv'
  <1>1. /\ pc = "walk" /\ pc' = "prepare" /\ submitted' = Submitted
        /\ request' = request /\ walk' = walk /\ cficaches' = cficaches /\ fetches' = fetches
        /\ request.kind = "minidump" => WalkDone
    BY DEF Submit, WalkDone, walkVars
  <1>2. SentInv(Submitted) /\ (request.kind = "minidump" => Unwound(Submitted.modules))
    BY <1>1, SubmittedIs
  <1>3. SentInv(submitted)' /\ (request'.kind = "minidump" => Unwound(submitted.modules)')
    <2>1. Threads' = Threads /\ Modules' = Modules /\ \A addr : ModuleAt(addr)' = ModuleAt(addr)
      BY <1>1 DEF Threads, Modules, ModuleAt
    <2>2. \A m : Met(m)' <=> Met(m)
      BY <1>1, <2>1 DEF Met
    <2> DEFINE sent == Submitted
    <2>3. submitted' = sent /\ SentInv(sent) /\ (request.kind = "minidump" => Unwound(sent.modules))
      BY <1>1, <1>2
    <2> HIDE DEF sent
    <2> QED
      BY <1>1, <2>1, <2>2, <2>3 DEF SentInv, Unwound, UnwindStatus
  <1>4. WalkInv'
    BY <1>1, OtherWalkInv DEF WalkDone
  <1> QED
    BY <1>1, <1>3, <1>4 DEF StageInv

LEMMA PrepareStageInv ==
    ASSUME StageInv, Prepare
    PROVE  StageInv'
  <1>1. /\ pc = "prepare" /\ pc' = "fetch" /\ traces' = Sent /\ lookup' = SortedModules(submitted)
        /\ request' = request /\ submitted' = submitted
    BY DEF Prepare, Sent
  <1>2. SentInv(submitted) /\ (request.kind = "minidump" => Unwound(submitted.modules))
    BY <1>1 DEF StageInv
  <1>3. /\ Holds(submitted.modules, lookup')
        /\ \A p \in DOMAIN lookup' : lookup'[p].cache = submitted.modules[lookup'[p].index].cache
    BY <1>1, <1>2, SortedModulesHold DEF SentInv
  <1>4. Holds(submitted.modules, lookup)'
    BY <1>1, <1>3
  <1> QED
    BY <1>1, <1>2, <1>3, <1>4, SubmissionKept DEF StageInv

LEMMA FetchDebugFilesStageInv ==
    ASSUME StageInv, FetchDebugFiles
    PROVE  StageInv'
  <1>1. /\ pc = "fetch" /\ pc' = "symbolicate" /\ lookup' = FetchCaches(lookup, traces)
        /\ request' = request /\ submitted' = submitted /\ traces' = traces
    BY DEF FetchDebugFiles
  <1>2. /\ SentInv(submitted) /\ (request.kind = "minidump" => Unwound(submitted.modules))
        /\ Holds(submitted.modules, lookup) /\ traces = Sent
        /\ \A p \in DOMAIN lookup : lookup[p].cache = submitted.modules[lookup[p].index].cache
    BY <1>1 DEF StageInv
  <1>3. Modular(submitted.modules)
    BY <1>2 DEF SentInv
  <1>4. /\ Holds(submitted.modules, lookup')
        /\ \A p \in DOMAIN lookup :
              /\ lookup'[p].index = lookup[p].index
              /\ lookup'[p].status = IF p \in Referenced(lookup, traces) THEN FileStatus(lookup[p].cache) ELSE "unused"
    BY <1>1, <1>2, <1>3, FetchCachesHold
  <1>5. DOMAIN lookup' = DOMAIN lookup
    BY <1>2, <1>4 DEF Holds
  <1>6. ASSUME WellFormed(submitted), NEW p \in DOMAIN lookup' PROVE StatusIs(p, Hit(lookup[p].index))'
    <2>1. Apart(submitted.modules) /\ \A t \in DOMAIN Sent : \A f \in Range(Sent[t]) : f.addr \in 0 .. MaxAddr
      BY <1>2, <1>6, WellFormedIs
    <2>2. p \in Referenced(lookup, traces) <=> Hit(lookup[p].index)
      BY <1>2, <1>3, <1>5, <2>1, ReferencedIs DEF Hit
    <2>3. Hit(lookup[p].index)' <=> Hit(lookup[p].index)
      <3>1. Sent' = Sent
        BY <1>1, SubmissionKept
      <3> QED
        BY <1>1, <1>4, <1>5, <3>1 DEF Hit
    <2> QED
      BY <1>1, <1>2, <1>4, <1>5, <2>2, <2>3 DEF StatusIs
  <1>7. Holds(submitted.modules, lookup)'
    BY <1>1, <1>4
  <1> QED
    BY <1>1, <1>2, <1>6, <1>7, SubmissionKept DEF StageInv

\* One stack trace, symbolicated with the modules of the lookup.
LEMMA StackMade ==
    ASSUME SentInv(submitted), Holds(submitted.modules, lookup), NEW t \in DOMAIN Sent,
           NEW out, out = SymbolicateStacktrace(lookup, Sent[t])
    PROVE  Accounts(Sent[t], out) /\ (WellFormed(submitted) => Stays(Sent[t], out))
  <1> DEFINE frames == Sent[t]
             n == Len(frames)
             Adjustment(j) == AdjustmentFor(frames[j], DefaultAdjustment(frames))
  <1>1. Modular(submitted.modules) /\ n \in Nat /\ DOMAIN frames = 1 .. n
    BY SentIs DEF SentInv
  <1>2. Made(lookup, frames, n, out)
    BY <1>1, HoldsDepths, SymbolicateStacktraceMakes
  <1>3. Accounts(frames, out)
    BY <1>2 DEF Made, Accounts
  <1>4. ASSUME WellFormed(submitted) PROVE Stays(frames, out)
    <2> SUFFICES ASSUME NEW k \in 1 .. Len(out)
                 PROVE  /\ out[k].addr \in 0 .. MaxAddr
                        /\ \A i \in DOMAIN submitted.modules :
                              Lies(submitted, out[k], i) <=> Lies(submitted, frames[out[k].orig], i)
      BY DEF Stays
    <2> DEFINE j == out[k].orig
    <2>1. j \in 1 .. n /\ At(lookup, frames[j], j, Adjustment(j), out[k])
      BY <1>2 DEF Made
    <2>2. frames[j] \in Range(Sent[t])
      BY <1>1, <2>1 DEF Range
    <2>3. /\ Apart(submitted.modules)
          /\ frames[j].addr \in 0 .. MaxAddr /\ Inside(submitted.modules, frames[j])
      BY <1>4, <2>2, WellFormedIs
    <2> HIDE DEF j, Adjustment, frames
    <2> QED
      BY <1>1, <2>1, <2>3, StaysInModule DEF j
  <1> QED
    BY <1>3, <1>4

LEMMA SymbolicateTracesStageInv ==
    ASSUME StageInv, SymbolicateTraces
    PROVE  StageInv'
  <1>1. /\ pc = "symbolicate" /\ pc' = IF submitted.sources THEN "sources" ELSE "respond"
        /\ traces' = [t \in DOMAIN traces |-> SymbolicateStacktrace(lookup, traces[t])]
        /\ request' = request /\ submitted' = submitted /\ lookup' = lookup
    BY DEF SymbolicateTraces
  <1>2. /\ SentInv(submitted) /\ (request.kind = "minidump" => Unwound(submitted.modules))
        /\ Holds(submitted.modules, lookup) /\ traces = Sent
        /\ WellFormed(submitted) => \A p \in DOMAIN lookup : StatusIs(p, Hit(lookup[p].index))
    BY <1>1 DEF StageInv
  <1>3. Sent' = Sent
    BY <1>1, SubmissionKept
  <1>4. TracesMade'
    <2>1. DOMAIN traces' = DOMAIN Sent
      BY <1>1, <1>2
    <2>2. ASSUME NEW t \in DOMAIN Sent
          PROVE  Accounts(Sent[t], traces'[t]) /\ (WellFormed(submitted) => Stays(Sent[t], traces'[t]))
      <3>1. traces'[t] = SymbolicateStacktrace(lookup, Sent[t])
        BY <1>1, <1>2
      <3> QED
        BY <1>2, <3>1, StackMade
    <2>3. ASSUME NEW t \in DOMAIN Sent
          PROVE  Accounts(Sent[t], traces[t])' /\ (WellFormed(submitted) => Stays(Sent[t], traces[t]))'
      <3>1. Accounts(Sent[t], traces[t])'
        BY <1>3, <2>2 DEF Accounts
      <3>2. WellFormed(submitted)' <=> WellFormed(submitted)
        BY <1>1, SubmissionKept
      <3>3. Stays(Sent[t], traces'[t]) => Stays(Sent[t], traces[t])'
        BY <1>1, <1>3 DEF Stays
      <3> QED
        BY <2>2, <3>1, <3>2, <3>3
    <2> QED
      BY <1>3, <2>1, <2>3 DEF TracesMade
  <1>5. WellFormed(submitted)' => \A p \in DOMAIN lookup' : StatusIs(p, Hit(lookup[p].index))'
    <2>1. \A i : Hit(i)' <=> Hit(i)
      BY <1>1, SubmissionKept
    <2>2. ASSUME NEW p \in DOMAIN lookup, StatusIs(p, Hit(lookup[p].index))
          PROVE  StatusIs(p, Hit(lookup[p].index))'
      <3>1. Hit(lookup[p].index)' <=> Hit(lookup[p].index)
        BY <1>1, <1>3 DEF Hit
      <3> QED
        BY <1>1, <2>2, <3>1 DEF StatusIs
    <2>3. WellFormed(submitted)' <=> WellFormed(submitted)
      BY <1>1, SubmissionKept
    <2> QED
      BY <1>1, <1>2, <2>2, <2>3
  <1>6. Holds(submitted.modules, lookup)'
    BY <1>1, <1>2
  <1>7. SentInv(submitted)' /\ (request'.kind = "minidump" => Unwound(submitted.modules)')
    BY <1>1, <1>2, SubmissionKept
  <1>8. /\ pc' \in {"sources", "respond"}
        /\ pc' = "respond" => ~ submitted'.sources
        /\ pc' = "sources" => submitted'.sources
    BY <1>1
  <1> QED
    BY <1>4, <1>5, <1>6, <1>7, <1>8 DEF StageInv

\* A module that a frame of the response lies in is one that a frame that was
\* sent lies in.
LEMMA HitByHits ==
    ASSUME SentInv(submitted), TracesMade, NEW i, HitBy(traces, i)
    PROVE  Hit(i)
  <1>1. PICK t \in DOMAIN traces : \E f \in Range(traces[t]) : Lies(submitted, Sent[t][f.orig], i)
    BY DEF HitBy
  <1>2. t \in DOMAIN Sent /\ Accounts(Sent[t], traces[t])
    BY DEF TracesMade
  <1>3. PICK f \in Range(traces[t]) : Lies(submitted, Sent[t][f.orig], i)
    BY <1>1
  <1>4. f.orig \in 1 .. Len(Sent[t])
    BY <1>2, <1>3, LenProperties DEF Accounts, Range
  <1>5. Sent[t][f.orig] \in Range(Sent[t])
    BY <1>2, <1>4, SentIs DEF Range
  <1> QED
    BY <1>2, <1>3, <1>5 DEF Hit

\* The modules that the frames of the response refer to are those that the
\* frames they are made of lie in.
LEMMA ReferencedAfter ==
    ASSUME SentInv(submitted), WellFormed(submitted), Holds(submitted.modules, lookup), TracesMade,
           NEW p \in DOMAIN lookup
    PROVE  p \in Referenced(lookup, traces) <=> HitBy(traces, lookup[p].index)
  <1> DEFINE i == lookup[p].index
  <1>1. Modular(submitted.modules) /\ i \in DOMAIN submitted.modules
    BY DEF SentInv, Holds
  <1>2. Apart(submitted.modules)
    BY WellFormedIs
  <1>3. ASSUME NEW t \in DOMAIN traces, NEW f \in Range(traces[t])
        PROVE  f.addr \in 0 .. MaxAddr /\ (Lies(submitted, f, i) <=> Lies(submitted, Sent[t][f.orig], i))
    <2>1. Stays(Sent[t], traces[t]) /\ traces[t] \in Seq(Range(traces[t]))
      BY DEF TracesMade, Accounts
    <2>2. PICK k \in 1 .. Len(traces[t]) : f = traces[t][k]
      BY <2>1, LenProperties DEF Range
    <2> HIDE DEF i
    <2> QED
      BY <1>1, <2>1, <2>2 DEF Stays
  <1>4. p \in Referenced(lookup, traces) <=>
          \E t \in DOMAIN traces : \E f \in Range(traces[t]) : Lies(submitted, f, i)
    BY <1>1, <1>2, <1>3, ReferencedIs
  <1> QED
    BY <1>3, <1>4 DEF HitBy

LEMMA ApplySourceContextStageInv ==
    ASSUME StageInv, ApplySourceContext
    PROVE  StageInv'
  <1>1. /\ pc = "sources" /\ pc' = "respond" /\ lookup' = FetchSources(lookup, traces)
        /\ request' = request /\ submitted' = submitted /\ traces' = traces
    BY DEF ApplySourceContext
  <1>2. /\ SentInv(submitted) /\ (request.kind = "minidump" => Unwound(submitted.modules))
        /\ Holds(submitted.modules, lookup) /\ TracesMade /\ submitted.sources
        /\ WellFormed(submitted) => \A p \in DOMAIN lookup : StatusIs(p, Hit(lookup[p].index))
    BY <1>1 DEF StageInv
  <1>3. Modular(submitted.modules)
    BY <1>2 DEF SentInv
  <1>4. /\ Holds(submitted.modules, lookup')
        /\ \A p \in DOMAIN lookup :
              /\ lookup'[p].index = lookup[p].index
              /\ lookup'[p].status = IF p \in Referenced(lookup, traces) THEN lookup[p].status ELSE "unused"
    BY <1>1, <1>2, <1>3, FetchSourcesHold
  <1>5. DOMAIN lookup' = DOMAIN lookup /\ Sent' = Sent
    BY <1>1, <1>2, <1>4, SubmissionKept DEF Holds
  <1>6. ASSUME WellFormed(submitted), NEW p \in DOMAIN lookup'
        PROVE  StatusIs(p, HitBy(traces, lookup[p].index))'
    <2>1. p \in Referenced(lookup, traces) <=> HitBy(traces, lookup[p].index)
      BY <1>2, <1>5, <1>6, ReferencedAfter
    <2>2. HitBy(traces, lookup[p].index) => Hit(lookup[p].index)
      BY <1>2, HitByHits
    <2>3. HitBy(traces, lookup[p].index)' <=> HitBy(traces, lookup[p].index)
      BY <1>1, <1>4, <1>5 DEF HitBy
    <2> QED
      BY <1>1, <1>2, <1>4, <1>5, <1>6, <2>1, <2>2, <2>3 DEF StatusIs
  <1>7. Holds(submitted.modules, lookup)'
    BY <1>1, <1>4
  <1>8. TracesMade'
    <2>1. WellFormed(submitted)' <=> WellFormed(submitted)
      BY <1>1, SubmissionKept
    <2>2. ASSUME NEW t \in DOMAIN traces
          PROVE  Accounts(Sent[t], traces[t])' /\ (WellFormed(submitted) => Stays(Sent[t], traces[t]))'
      <3>1. Accounts(Sent[t], traces[t]) /\ (WellFormed(submitted) => Stays(Sent[t], traces[t]))
        BY <1>2 DEF TracesMade
      <3>2. Accounts(Sent[t], traces[t])'
        BY <1>1, <1>5, <3>1 DEF Accounts
      <3>3. Stays(Sent[t], traces[t]) => Stays(Sent[t], traces[t])'
        BY <1>1, <1>5 DEF Stays
      <3> QED
        BY <2>1, <3>1, <3>2, <3>3
    <2> QED
      BY <1>1, <1>2, <1>5, <2>2 DEF TracesMade
  <1>9. SentInv(submitted)' /\ (request'.kind = "minidump" => Unwound(submitted.modules)')
    BY <1>1, <1>2, SubmissionKept
  <1>10. WellFormed(submitted)' <=> WellFormed(submitted)
    BY <1>1, SubmissionKept
  <1> QED
    BY <1>1, <1>6, <1>7, <1>8, <1>9, <1>10 DEF StageInv

\* The response: the stack traces in the order they were sent in, and the
\* modules with the status they have in the lookup.
LEMMA Responded ==
    ASSUME StageInv, Respond
    PROVE  /\ pc' = "done" /\ request' = request /\ submitted' = submitted
           /\ DOMAIN traces' = DOMAIN Sent
           /\ \A t \in DOMAIN Sent : /\ InOrder(submitted, traces')[t] = traces[t]
                                     /\ Range(traces'[t]) = Range(traces[t])
           /\ DOMAIN lookup' = DOMAIN submitted.modules
           /\ \A i \in DOMAIN submitted.modules :
                 /\ lookup'[i].start = submitted.modules[i].start /\ lookup'[i].file = submitted.modules[i].file
                 /\ "unwind" \in DOMAIN submitted.modules[i] => lookup'[i].unwind = submitted.modules[i].unwind
                 /\ WellFormed(submitted) =>
                       lookup'[i].status = IF (IF submitted.sources THEN HitBy(traces, i) ELSE Hit(i))
                                           THEN FileStatus(submitted.modules[i].cache) ELSE "unused"
  <1>1. /\ pc = "respond" /\ pc' = "done" /\ request' = request /\ submitted' = submitted
        /\ lookup' = OriginalOrder(submitted, lookup) /\ traces' = InOrder(submitted, traces)
    BY DEF Respond
  <1>2. SentInv(submitted) /\ Holds(submitted.modules, lookup) /\ TracesMade
    BY <1>1 DEF StageInv
  <1>3. DOMAIN traces = DOMAIN Sent /\ \A t \in DOMAIN Sent : traces[t] \in Seq(Range(traces[t]))
    BY <1>2 DEF TracesMade, Accounts
  <1>4. traces' = [t \in DOMAIN Sent |-> IF submitted.callerFirst THEN Reverse(traces[t]) ELSE traces[t]]
    BY <1>1, <1>3 DEF InOrder
  <1>5. DOMAIN traces' = DOMAIN Sent
    BY <1>4
  <1>6. ASSUME NEW t \in DOMAIN Sent
        PROVE  /\ InOrder(submitted, traces')[t] = traces[t]
               /\ Range(traces'[t]) = Range(traces[t])
    <2>1. InOrder(submitted, traces')[t] = IF submitted.callerFirst THEN Reverse(traces'[t]) ELSE traces'[t]
      BY <1>5 DEF InOrder
    <2>2. traces'[t] = IF submitted.callerFirst THEN Reverse(traces[t]) ELSE traces[t]
      BY <1>4
    <2>3. /\ Reverse(Reverse(traces[t])) = traces[t]
          /\ Range(Reverse(traces[t])) = Range(traces[t])
      BY <1>3, ReverseIs
    <2> QED
      BY <2>1, <2>2, <2>3
  <1>7. /\ DOMAIN lookup' = DOMAIN submitted.modules
        /\ \A p \in DOMAIN lookup : LET i == lookup[p].index IN
              /\ lookup'[i].start = submitted.modules[i].start /\ lookup'[i].file = submitted.modules[i].file
              /\ lookup'[i].status = lookup[p].status
              /\ "unwind" \in DOMAIN submitted.modules[i] => lookup'[i].unwind = submitted.modules[i].unwind
    BY <1>1, <1>2, OriginalOrderRestores DEF SentInv
  <1>8. ASSUME NEW i \in DOMAIN submitted.modules
        PROVE  /\ lookup'[i].start = submitted.modules[i].start /\ lookup'[i].file = submitted.modules[i].file
               /\ "unwind" \in DOMAIN submitted.modules[i] => lookup'[i].unwind = submitted.modules[i].unwind
               /\ WellFormed(submitted) =>
                     lookup'[i].status = IF (IF submitted.sources THEN HitBy(traces, i) ELSE Hit(i))
                                         THEN FileStatus(submitted.modules[i].cache) ELSE "unused"
    <2>1. PICK p \in DOMAIN lookup : lookup[p].index = i
      BY <1>2 DEF Holds
    <2>2. /\ lookup'[i].start = submitted.modules[i].start /\ lookup'[i].file = submitted.modules[i].file
          /\ lookup'[i].status = lookup[p].status
          /\ "unwind" \in DOMAIN submitted.modules[i] => lookup'[i].unwind = submitted.modules[i].unwind
      BY <1>7, <2>1
    <2>3. WellFormed(submitted) => StatusIs(p, IF submitted.sources THEN HitBy(traces, i) ELSE Hit(i))
      <3>1. CASE submitted.sources
        <4>1. WellFormed(submitted) => StatusIs(p, HitBy(traces, lookup[p].index))
          BY <1>1, <3>1 DEF StageInv
        <4> QED
          BY <2>1, <3>1, <4>1
      <3>2. CASE ~ submitted.sources
        <4>1. WellFormed(submitted) => StatusIs(p, Hit(lookup[p].index))
          BY <1>1, <3>2 DEF StageInv
        <4> QED
          BY <2>1, <3>2, <4>1
      <3> QED
        BY <3>1, <3>2
    <2> QED
      BY <2>1, <2>2, <2>3 DEF StatusIs
  <1> QED
    BY <1>1, <1>5, <1>6, <1>7, <1>8

LEMMA RespondFramesAccounted ==
    ASSUME StageInv, Respond
    PROVE  FramesAccounted'
  <1>1. /\ DOMAIN traces' = DOMAIN Sent /\ submitted' = submitted
        /\ \A t \in DOMAIN Sent : InOrder(submitted, traces')[t] = traces[t]
    BY Responded
  <1>2. SentInv(submitted) /\ TracesMade
    BY DEF StageInv, Respond
  <1>3. InOrder(submitted, submitted.traces)' = Sent /\ InOrder(submitted, traces)' = InOrder(submitted, traces')
    BY <1>1 DEF InOrder, Sent
  <1>4. ASSUME NEW t \in DOMAIN Sent, NEW frames, frames = Sent[t], NEW out, out = traces[t]
        PROVE  /\ \A k \in 1 .. Len(out) - 1 : out[k].orig <= out[k + 1].orig
               /\ \A k \in DOMAIN out : out[k].symAddr # None =>
                     k = Len(out) \/ out[k + 1].orig # out[k].orig
               /\ \A i \in DOMAIN frames \ {out[k].orig : k \in DOMAIN out} :
                     \/ frames[i].trust = "scan"
                     \/ i = Len(frames) /\ out # <<>>
    <2>1. Accounts(frames, out) /\ DOMAIN out = 1 .. Len(out)
      BY <1>2, <1>4, LenProperties DEF TracesMade, Accounts
    <2>2. DOMAIN frames = 1 .. Len(frames)
      BY <1>2, <1>4, SentIs
    <2>3. ASSUME NEW k \in DOMAIN out, out[k].symAddr # None
          PROVE  k = Len(out) \/ out[k + 1].orig # out[k].orig
      BY <2>1, <2>3 DEF Accounts
    <2>4. ASSUME NEW i \in DOMAIN frames, i \notin {out[k].orig : k \in DOMAIN out}
          PROVE  \/ frames[i].trust = "scan"
                 \/ i = Len(frames) /\ out # <<>>
      <3>1. ~ \E k \in 1 .. Len(out) : out[k].orig = i
        BY <2>1, <2>4
      <3> QED
        BY <2>1, <2>2, <3>1 DEF Accounts
    <2>5. \A k \in 1 .. Len(out) - 1 : out[k].orig <= out[k + 1].orig
      BY <2>1 DEF Accounts
    <2> QED
      BY <2>3, <2>4, <2>5
  <1>5. \A t \in DOMAIN Sent :
           LET frames == Sent[t]
               out    == InOrder(submitted, traces')[t]
               kept   == {out[k].orig : k \in DOMAIN out}
           IN  /\ \A k \in 1 .. Len(out) - 1 : out[k].orig <= out[k + 1].orig
               /\ \A k \in DOMAIN out : out[k].symAddr # None =>
                     k = Len(out) \/ out[k + 1].orig # out[k].orig
               /\ \A i \in DOMAIN frames \ kept :
                     \/ frames[i].trust = "scan"
                     \/ i = Len(frames) /\ out # <<>>
    BY <1>1, <1>4
  <1> QED
    BY <1>1, <1>3, <1>5 DEF FramesAccounted

LEMMA RespondStatusTruthful ==
    ASSUME StageInv, Respond
    PROVE  StatusTruthful'
  <1>1. /\ DOMAIN traces' = DOMAIN Sent /\ submitted' = submitted
        /\ \A t \in DOMAIN Sent : Range(traces'[t]) = Range(traces[t])
    BY Responded
  <1>2. SentInv(submitted) /\ TracesMade
    BY DEF StageInv, Respond
  <1>3. InOrder(submitted, submitted.traces)' = Sent
    BY <1>1 DEF InOrder, Sent
  <1> DEFINE Found(i) == \E t \in DOMAIN traces' : \E f \in Range(traces'[t]) : Lies(submitted, Sent[t][f.orig], i)
  <1>4. \A i : Found(i) <=> HitBy(traces, i)
    <2>1. DOMAIN traces = DOMAIN Sent
      BY <1>2 DEF TracesMade
    <2> QED
      BY <1>1, <2>1 DEF HitBy
  <1>5. ASSUME NEW i \in DOMAIN submitted.modules
        PROVE  /\ lookup'[i].start = submitted.modules[i].start /\ lookup'[i].file = submitted.modules[i].file
               /\ WellFormed(submitted) =>
                     /\ Found(i) => lookup'[i].status = FileStatus(submitted.modules[i].cache)
                     /\ submitted.sources /\ ~ Found(i) => lookup'[i].status = "unused"
    <2>1. HitBy(traces, i) => Hit(i)
      BY <1>2, HitByHits
    <2> HIDE DEF Found
    <2> QED
      BY <1>4, <2>1, Responded
  <1>6. WellFormed(submitted)' <=> WellFormed(submitted)
    BY <1>1, Responded, SubmissionKept
  <1> QED
    BY <1>1, <1>3, <1>5, <1>6 DEF StatusTruthful

\* A module was met if some candidate frame was in it.
LEMMA MetIs ==
    ASSUME request \in Requests, NEW m
    PROVE  Met(m) <=> \E t \in Threads : \E c \in Range(request.threads[t]) : m \in ModuleAt(c.addr)
  <1>1. ASSUME NEW t \in Threads PROVE DOMAIN request.threads[t] = 1 .. Len(request.threads[t])
    BY RequestIs, LenProperties DEF Threads
  <1>2. ASSUME NEW t \in Threads
        PROVE  (\E j \in 1 .. Len(request.threads[t]) : m \in ModuleAt(request.threads[t][j].addr))
               <=> \E c \in Range(request.threads[t]) : m \in ModuleAt(c.addr)
    <2> DEFINE S == request.threads[t]
               In(c) == m \in ModuleAt(c.addr)
    <2>1. DOMAIN S = 1 .. Len(S)
      BY <1>1
    <2> HIDE DEF In, S
    <2>2. (\E j \in 1 .. Len(S) : In(S[j])) <=> \E c \in Range(S) : In(c)
      BY <2>1 DEF Range
    <2> QED
      BY <2>2 DEF In, S
  <1> QED
    BY <1>2 DEF Met

LEMMA RespondUnwindTold ==
    ASSUME WalkInv, StageInv, Respond
    PROVE  UnwindTold'
  <1>1. request' = request /\ DOMAIN lookup' = DOMAIN submitted.modules
    BY Responded
  <1>2. Threads' = Threads /\ Modules' = Modules /\ \A addr : ModuleAt(addr)' = ModuleAt(addr)
    BY <1>1 DEF Threads, Modules, ModuleAt
  <1>3. ASSUME request.kind = "minidump", NEW m \in Modules
        PROVE  LET met  == \E t \in Threads : \E c \in Range(request.threads[t]) : m \in ModuleAt(c.addr)
                   info == {i \in Range(lookup') : i.start = request.modules[m].start}
               IN  /\ met => info # {}
                   /\ \A i \in info : i.unwind = UnwindStatus(m, met)
    <2>1. Unwound(submitted.modules)
      BY <1>3 DEF StageInv, Respond
    <2>2. Met(m) <=> \E t \in Threads : \E c \in Range(request.threads[t]) : m \in ModuleAt(c.addr)
      BY MetIs DEF WalkInv
    <2>3. \A i \in DOMAIN lookup' : /\ lookup'[i].start = submitted.modules[i].start
                                    /\ lookup'[i].unwind = submitted.modules[i].unwind
      BY <1>1, <2>1, Responded DEF Unwound
    <2>4. Met(m) => \E i \in DOMAIN lookup' : lookup'[i].start = request.modules[m].start
      BY <1>1, <2>1, <2>3 DEF Unwound
    <2>5. \A i \in DOMAIN lookup' : lookup'[i].start = request.modules[m].start =>
             lookup'[i].unwind = UnwindStatus(m, Met(m))
      BY <1>1, <2>1, <2>3 DEF Unwound
    <2> QED
      BY <2>2, <2>4, <2>5 DEF Range, UnwindStatus
  <1> QED
    BY <1>1, <1>2, <1>3 DEF UnwindTold, UnwindStatus

LEMMA RespondStageInv ==
    ASSUME WalkInv, StageInv, Respond
    PROVE  StageInv'
  <1>1. pc' = "done" /\ request' = request /\ submitted' = submitted
    BY Responded
  <1>2. SentInv(submitted)' /\ (request'.kind = "minidump" => Unwound(submitted.modules)')
    BY <1>1, SubmissionKept DEF StageInv, Respond
  <1> QED
    BY <1>1, <1>2, RespondFramesAccounted, RespondStatusTruthful, RespondUnwindTold DEF StageInv

-----------------------------------------------------------------------------
(* The specification *)

\* Every step keeps what is known of unwinding and of the stages of a request.
LEMMA NextKeeps ==
    ASSUME WalkInv, StageInv, Next
    PROVE  WalkInv' /\ StageInv'
  <1>1. ASSUME NEW ok \in BOOLEAN, Start(ok) PROVE WalkInv' /\ StageInv'
    <2>1. /\ pc = "start" /\ pc' \in {"walk", "failed"} /\ request' = request
          /\ walk' = walk /\ cficaches' = cficaches /\ fetches' = fetches
      BY <1>1 DEF Start, walkVars
    <2>2. StageInv'
      BY <2>1 DEF StageInv
    <2>3. \A u \in Threads : walk[u].at = "ready"
      BY <2>1 DEF WalkInv
    <2> QED
      BY <2>1, <2>2, <2>3, OtherWalkInv
  <1>2. ASSUME request.kind = "minidump", NEW t \in Threads, ThreadStep(t) PROVE WalkInv' /\ StageInv'
    <2>1. WalkInv'
      BY <1>2, WalkFrameWalkInv, FetchCfiWalkInv, AwaitCfiWalkInv, CfiFetchedWalkInv DEF ThreadStep
    <2>2. pc = "walk" /\ pc' = pc
      BY <1>2 DEF ThreadStep, WalkFrame, FetchCfi, AwaitCfi, CfiFetched, Walking, WalkInv
    <2> QED
      BY <2>1, <2>2 DEF StageInv
  <1>3. ASSUME Prepare \/ FetchDebugFiles \/ SymbolicateTraces \/ ApplySourceContext \/ Respond
        PROVE  WalkInv'
    <2>1. /\ pc # "walk" /\ request' = request
          /\ walk' = walk /\ cficaches' = cficaches /\ fetches' = fetches
      BY <1>3 DEF Prepare, FetchDebugFiles, SymbolicateTraces, ApplySourceContext, Respond, walkVars
    <2>2. \A u \in Threads : walk[u].at = "ready"
      BY <2>1 DEF WalkInv
    <2> QED
      BY <2>1, <2>2, OtherWalkInv
  <1> QED
    BY <1>1, <1>2, <1>3, SubmitStageInv, PrepareStageInv, FetchDebugFilesStageInv, SymbolicateTracesStageInv,
       ApplySourceContextStageInv, RespondStageInv DEF Next

LEMMA StutterKeeps ==
    ASSUME WalkInv, StageInv, UNCHANGED vars
    PROVE  WalkInv' /\ StageInv'
  <1>1. /\ request' = request /\ pc' = pc /\ walk' = walk /\ cficaches' = cficaches /\ fetches' = fetches
        /\ submitted' = submitted /\ lookup' = lookup /\ traces' = traces
    BY DEF vars, walkVars, symVars
  <1>2. WalkInv'
    BY <1>1, OtherWalkInv DEF WalkInv
  <1>3. Sent' = Sent /\ \A i : Hit(i)' <=> Hit(i)
    BY <1>1, SubmissionKept
  <1>4. /\ SentInv(submitted)' <=> SentInv(submitted)
        /\ Unwound(submitted.modules)' <=> Unwound(submitted.modules)
        /\ WellFormed(submitted)' <=> WellFormed(submitted)
    BY <1>1, SubmissionKept
  <1>5. TracesMade => TracesMade'
    BY <1>1, <1>3, <1>4 DEF TracesMade, Stays
  <1>6. ASSUME NEW p \in DOMAIN lookup
        PROVE  /\ StatusIs(p, Hit(lookup[p].index)) => StatusIs(p, Hit(lookup[p].index))'
               /\ StatusIs(p, HitBy(traces, lookup[p].index)) => StatusIs(p, HitBy(traces, lookup[p].index))'
    BY <1>1, <1>3 DEF StatusIs, Hit, HitBy
  <1>7. FramesAccounted => FramesAccounted'
    BY <1>1 DEF FramesAccounted, Answered
  <1>8. StatusTruthful => StatusTruthful'
    BY <1>1 DEF StatusTruthful, Answered
  <1>9. UnwindTold => UnwindTold'
    BY <1>1 DEF UnwindTold, UnwindStatus, Threads, Modules, ModuleAt
  <1>10. StageInv'
    BY <1>1, <1>3, <1>4, <1>5, <1>6, <1>7, <1>8, <1>9 DEF StageInv
  <1> QED
    BY <1>2, <1>10

LEMMA InitKeeps ==
    ASSUME Init
    PROVE  WalkInv /\ StageInv
  BY InitWalkInv DEF Init, StageInv

LEMMA Processed == Spec => [](WalkInv /\ StageInv)
  <1>1. Init => WalkInv /\ StageInv
    BY InitKeeps
  <1>2. WalkInv /\ StageInv /\ [Next]_vars => (WalkInv /\ StageInv)'
    BY NextKeeps, StutterKeeps
  <1> QED
    BY <1>1, <1>2, PTL DEF Spec

\* However the threads of a minidump are interleaved, the unwind information
\* of a module is fetched at most once, and the response tells the outcome of
\* that fetch if a candidate frame of some thread was in the module, and that
\* it was not used otherwise (load_cfi_module, stackwalk).
THEOREM UnwindingTold == Spec => []UnwindTruthful
  <1>1. WalkInv /\ StageInv => UnwindTruthful
    <2> SUFFICES ASSUME WalkInv, StageInv PROVE UnwindTruthful
      OBVIOUS
    <2>1. \A m \in Modules : fetches[m] <= 1
      BY DEF WalkInv, CfiInv
    <2>2. Answered => UnwindTold
      BY DEF Answered, StageInv
    <2> QED
      BY <2>1, <2>2 DEF UnwindTruthful, UnwindTold, UnwindStatus
  <1> QED
    BY <1>1, Processed, PTL

\* The response reports for every module, in the order and under the name it
\* was sent with, the outcome of its fetch if a frame of the response lies in
\* it; with source context a module is unused if none does, however the
\* passes over the lookup looked their frames up (fetch_caches,
\* fetch_sources, into_inner).
THEOREM ModuleStatusTold == Spec => []StatusTruthful
  <1>1. WalkInv /\ StageInv => StatusTruthful
    BY DEF Answered, StageInv, StatusTruthful
  <1> QED
    BY <1>1, Processed, PTL

\* Whatever the modules hold, the frames of a response keep the order they
\* were sent in, inlined functions stay together, and no frame is left out
\* that was not scanned or the outermost one of a stack trace that has
\* others (symbolicate_stacktrace).
THEOREM FramesKept == Spec => []FramesAccounted
  <1>1. WalkInv /\ StageInv => FramesAccounted
    BY DEF Answered, StageInv, FramesAccounted
  <1> QED
    BY <1>1, Processed, PTL

-----------------------------------------------------------------------------
(* Stack traces of the JVM *)

LEMMA OnlyIs ==
    ASSUME NEW S, NEW s \in Seq(S), NEW positions
    PROVE  /\ Only(s, positions) \in Seq(S)
           /\ \A x \in Range(Only(s, positions)) : \E i \in 1 .. Len(s) : i \in positions /\ x = s[i]
           /\ Only(s, positions) = <<>> => \A i \in 1 .. Len(s) : i \notin positions
  <1> DEFINE n == Len(s)
             With(done, i) == IF i \in positions THEN Append(done, s[i]) ELSE done
             upTo[i \in 0 .. n] == IF i = 0 THEN <<>>
                                   ELSE IF i \in positions THEN Append(upTo[i - 1], s[i])
                                   ELSE upTo[i - 1]
             E(h) == h = [i \in 0 .. n |-> IF i = 0 THEN <<>>
                                           ELSE IF i \in positions THEN Append(h[i - 1], s[i])
                                           ELSE h[i - 1]]
             F == [p \in Seq(S) \X (1 .. n) |-> With(p[1], p[2])]
             Kept(i, done) ==
                 /\ done \in Seq(S)
                 /\ \A k \in 1 .. Len(done) : \E j \in 1 .. i : j \in positions /\ done[k] = s[j]
                 /\ Len(done) = 0 => \A j \in 1 .. i : j \notin positions
  <1>1. Only(s, positions) = upTo[n] /\ upTo = CHOOSE h : E(h)
    BY DEF Only
  <1>2. n \in Nat /\ \A i \in 1 .. n : s[i] \in S
    BY LenProperties, ElementOfSeq
  <1> HIDE DEF upTo, n
  <1>3. F \in [Seq(S) \X (1 .. n) -> Seq(S)]
    <2>1. ASSUME NEW done \in Seq(S), NEW i \in 1 .. n PROVE With(done, i) \in Seq(S)
      BY <1>2, AppendProperties
    <2> HIDE DEF With
    <2> QED
      BY <2>1
  <1> HIDE DEF With
  <1>4. \E h : E(h)
    <2>1. <<>> \in Seq(S)
      OBVIOUS
    <2> HIDE DEF F
    <2>2. PICK h \in [0 .. n -> Seq(S)] : Rounds(h, F, <<>>, n)
      BY <1>2, <1>3, <2>1, RoundsStay
    <2>3. /\ h = [i \in 0 .. n |-> h[i]]
          /\ \A i \in 0 .. n : h[i] = IF i = 0 THEN <<>> ELSE F[<<h[i - 1], i>>]
      BY <2>2 DEF Rounds
    <2>4. ASSUME NEW i \in 0 .. n, i # 0 PROVE F[<<h[i - 1], i>>] = With(h[i - 1], i)
      <3>1. i - 1 \in 0 .. n /\ i \in 1 .. n
        BY <1>2, <2>4
      <3>2. <<h[i - 1], i>> \in Seq(S) \X (1 .. n)
        BY <2>2, <3>1
      <3> QED
        BY <3>2 DEF F
    <2>5. \A i \in 0 .. n : h[i] = IF i = 0 THEN <<>> ELSE With(h[i - 1], i)
      BY <2>3, <2>4
    <2> QED
      BY <2>3, <2>5 DEF With
  <1>5. E(upTo)
    BY <1>1, <1>4
  <1> HIDE DEF F
  <1>6. upTo[0] = <<>> /\ \A i \in 1 .. n : upTo[i] = With(upTo[i - 1], i)
    <2>1. \A i \in 0 .. n : upTo[i] = IF i = 0 THEN <<>> ELSE With(upTo[i - 1], i)
      BY <1>5 DEF With
    <2>2. 0 \in 0 .. n /\ \A i \in 1 .. n : i \in 0 .. n /\ i # 0
      BY <1>2
    <2> QED
      BY <2>1, <2>2
  <1> HIDE DEF E
  <1> DEFINE T == {i \in Nat : i <= n => Kept(i, upTo[i])}
  <1>7. 0 \in T
    <2>1. Kept(0, <<>>)
      OBVIOUS
    <2> HIDE DEF Kept
    <2> QED
      BY <1>6, <2>1
  <1>8. ASSUME NEW i \in T PROVE i + 1 \in T
    <2>1. SUFFICES ASSUME i + 1 <= n PROVE Kept(i + 1, upTo[i + 1])
      OBVIOUS
    <2> DEFINE j == i + 1
               done == upTo[i]
    <2>2. i \in Nat /\ j \in 1 .. n /\ j - 1 = i /\ Kept(i, done)
      BY <1>2, <2>1
    <2>3. \A k : k \in 1 .. j <=> k \in 1 .. i \/ k = j
      BY <2>2
    <2>4. upTo[j] = With(done, j)
      BY <1>6, <2>2
    <2> HIDE DEF j, done
    <2>5. CASE j \in positions
      <3>1. upTo[j] = Append(done, s[j])
        BY <2>4, <2>5 DEF With
      <3>2. /\ Append(done, s[j]) \in Seq(S) /\ Len(Append(done, s[j])) = Len(done) + 1
            /\ \A k \in 1 .. Len(done) : Append(done, s[j])[k] = done[k]
            /\ Append(done, s[j])[Len(done) + 1] = s[j] /\ Len(done) \in Nat
        BY <1>2, <2>2, AppendProperties, LenProperties
      <3>3. \A k \in 1 .. Len(done) + 1 : k \in 1 .. Len(done) \/ k = Len(done) + 1
        BY <3>2
      <3> QED
        BY <2>2, <2>3, <2>5, <3>1, <3>2, <3>3 DEF j
    <2>6. CASE j \notin positions
      <3>1. upTo[j] = done
        BY <2>4, <2>6 DEF With
      <3> QED
        BY <2>2, <2>3, <2>6, <3>1 DEF j
    <2> QED
      BY <2>5, <2>6
  <1> HIDE DEF T
  <1>9. Nat \subseteq T
    BY <1>7, <1>8, SetInduction
  <1> HIDE DEF Kept
  <1>10. Kept(n, Only(s, positions))
    <2>1. n \in T /\ n <= n
      BY <1>2, <1>9
    <2>2. Kept(n, upTo[n])
      BY <2>1 DEF T
    <2> QED
      BY <1>1, <2>2
  <1> USE DEF Kept
  <1> QED
    BY <1>2, <1>10 DEF n, Range

\* A mapping answers with lists.
Mapping(m) == \A ask \in DOMAIN m.remap : m.remap[ask] \in Seq(Range(m.remap[ask]))

\* The mapping files know what they need of the frames.
Fitting(ms, frames) ==
    /\ ms \in Seq(Range(ms)) /\ frames \in Seq(Range(frames))
    /\ \A k \in 1 .. Len(ms) : /\ Mapping(ms[k])
                               /\ \A i \in 1 .. Len(frames) :
                                     KnowsItsClasses(ms[k], frames[i].class, frames[i].method)

LEMMA RenamedIs ==
    ASSUME NEW name, NEW frame
    PROVE  Renamed(name, frame) \in Seq(Range(Renamed(name, frame)))
  <1> DEFINE r == [name |-> name, line |-> frame.line, synthesized |-> FALSE]
  <1>1. Renamed(name, frame) = <<r>>
    BY DEF Renamed
  <1> HIDE DEF r
  <1>2. <<r>> \in Seq({r})
    OBVIOUS
  <1>3. Range(<<r>>) = {r}
    BY DEF Range
  <1> QED
    BY <1>1, <1>2, <1>3

LEMMA WithoutSynthesizedIs ==
    ASSUME NEW frame
    PROVE  /\ WithoutSynthesized(frame, <<>>) = <<>>
           /\ \A fs : fs \in Seq(Range(fs)) =>
                 WithoutSynthesized(frame, fs) \in Seq(Range(WithoutSynthesized(frame, fs)))
  <1> DEFINE P(fs) == {k \in DOMAIN fs : ~ fs[k].synthesized}
             kept(fs) == WithoutSynthesized(frame, fs)
  <1>1. \A fs : kept(fs) = IF frame.line = NoLine THEN fs ELSE Only(fs, P(fs))
    BY DEF WithoutSynthesized
  <1> HIDE DEF P, kept
  <1>2. kept(<<>>) = <<>>
    <2>1. <<>> \in Seq({})
      OBVIOUS
    <2>2. Only(<<>>, P(<<>>)) \in Seq({})
      BY <2>1, OnlyIs
    <2>3. \A s \in Seq({}) : s = <<>>
      OBVIOUS
    <2> QED
      BY <1>1, <2>2, <2>3
  <1>3. ASSUME NEW fs, fs \in Seq(Range(fs)) PROVE kept(fs) \in Seq(Range(kept(fs)))
    <2> DEFINE s == kept(fs)
    <2>1. s \in Seq(Range(fs))
      BY <1>1, <1>3, OnlyIs
    <2> HIDE DEF s
    <2>2. DOMAIN s = 1 .. Len(s) /\ Len(s) \in Nat /\ s = [k \in 1 .. Len(s) |-> s[k]]
      BY <2>1, LenProperties
    <2>3. \A k \in 1 .. Len(s) : s[k] \in Range(s)
      BY <2>2 DEF Range
    <2>4. s \in Seq(Range(s))
      BY <2>2, <2>3, IsASeq
    <2> QED
      BY <2>4 DEF s
  <1> QED
    BY <1>2, <1>3 DEF kept

\* The first of the mapping files that knows the class
LEMMA ResponsibleIs ==
    ASSUME NEW ms, Len(ms) \in Nat, NEW frame
    PROVE  LET u == Responsible(ms, frame)
           IN  /\ u \in 0 .. Len(ms)
               /\ u # 0 => /\ u \in 1 .. Len(ms) /\ frame.class \in ms[u].classes
                           /\ \A k \in 1 .. u - 1 : frame.class \notin ms[k].classes
               /\ u = 0 => \A k \in 1 .. Len(ms) : frame.class \notin ms[k].classes
  <1> DEFINE K == {i \in 1 .. Len(ms) : frame.class \in ms[i].classes}
             u == Responsible(ms, frame)
  <1>1. u = IF K # {} THEN Min(K) ELSE 0
    BY DEF Responsible, SelectInSeq
  <1>2. /\ K \in SUBSET Nat /\ 0 \notin K
        /\ \A k : k \in K <=> k \in 1 .. Len(ms) /\ frame.class \in ms[k].classes
    OBVIOUS
  <1> HIDE DEF K, u
  <1>3. K # {} => Min(K) \in K /\ \A k \in K : Min(K) <= k
    <2>1. K # {} => \E m \in K : \A k \in K : m <= k
      BY <1>2, LeastNat
    <2> QED
      BY <2>1 DEF Min
  <1>4. CASE K = {}
    BY <1>1, <1>2, <1>4 DEF u
  <1>5. CASE K # {}
    <2>1. u \in K /\ \A k \in K : u <= k
      BY <1>1, <1>3, <1>5
    <2>2. ASSUME NEW k \in 1 .. u - 1 PROVE frame.class \notin ms[k].classes
      <3>1. k \in 1 .. Len(ms) /\ ~ (u <= k)
        BY <1>2, <2>1
      <3> QED
        BY <1>2, <2>1, <3>1
    <2> QED
      BY <1>2, <2>1, <2>2 DEF u
  <1> QED
    BY <1>4, <1>5

\* What a frame stands for is a list.
LEMMA MeaningIs ==
    ASSUME NEW ms, NEW frames, Fitting(ms, frames), NEW exception, NEW i \in 1 .. Len(frames)
    PROVE  /\ Meaning(ms, frames, exception, i) \in Seq(Range(Meaning(ms, frames, exception, i)))
           /\ Len(Meaning(ms, frames, exception, i)) \in Nat
  <1> DEFINE frame == frames[i]
             u == Responsible(ms, frame)
             m == ms[u]
             ask == <<frame.method, IF IsCarried(ms, frames, u, i) THEN "outline" ELSE HowToAsk(ms, frame, NoLine)>>
             listed == ask \in DOMAIN m.remap /\ m.remap[ask] # <<>>
             fs == IF listed THEN m.remap[ask]
                   ELSE Renamed(IF frame.method \in m.methods THEN "method" ELSE "class", frame)
             s == Meaning(ms, frames, exception, i)
  <1>1. s \in {Renamed("raw", frame), <<>>} \/ (u # 0 /\ s = WithoutSynthesized(frame, fs))
    BY DEF Meaning
  <1>2. u # 0 => fs \in Seq(Range(fs))
    <2>1. u # 0 => Mapping(m)
      BY ResponsibleIs DEF Fitting
    <2> HIDE DEF u, m, ask
    <2>2. u # 0 /\ listed => fs \in Seq(Range(fs))
      BY <2>1 DEF Mapping
    <2>3. ~ listed => fs \in Seq(Range(fs))
      BY RenamedIs
    <2> QED
      BY <2>2, <2>3
  <1>3. <<>> \in Seq(Range(<<>>))
    OBVIOUS
  <1> HIDE DEF s, fs, u, frame
  <1>4. s \in Seq(Range(s))
    BY <1>1, <1>2, <1>3, RenamedIs, WithoutSynthesizedIs
  <1> QED
    BY <1>4, LenProperties DEF s

\* Answer a is what mapping m says of a frame.
Told(m, frame, how, exception, rewrite, a) ==
    LET ask == <<frame.method, how>>
        listed == ask \in DOMAIN m.remap /\ m.remap[ask] # <<>>
    IN  /\ a.kind # "none" <=> frame.class \in m.classes
        /\ a.kind = "outline" <=> frame.method \in m.outlines
        /\ frame.class \in m.classes =>
              a.frames = IF \/ frame.method \in m.outlines
                            \/ listed /\ rewrite /\ <<exception, frame.method>> \in m.rewrites
                         THEN <<>>
                         ELSE IF listed THEN m.remap[ask]
                         ELSE Renamed(IF frame.method \in m.methods THEN "method" ELSE "class", frame)

LEMMA MapFrameWithIs ==
    ASSUME NEW m, NEW frame, KnowsItsClasses(m, frame.class, frame.method),
           NEW how, NEW exception, NEW rewrite
    PROVE  Told(m, frame, how, exception, rewrite, MapFrameWith(m, frame, how, exception, rewrite))
  <1> DEFINE ask == <<frame.method, how>>
             listed == ask \in DOMAIN m.remap /\ m.remap[ask] # <<>>
             cleared == rewrite /\ <<exception, frame.method>> \in m.rewrites
             full == MapFullFrame(m, frame, how, exception, rewrite)
             a == MapFrameWith(m, frame, how, exception, rewrite)
  <1>1. \A kind, fs : Result(kind, fs).kind = kind /\ Result(kind, fs).frames = fs
    BY DEF Result
  <1>2. frame.class \notin m.classes => frame.method \notin m.outlines /\ frame.method \notin m.methods /\ ~ listed
    BY DEF KnowsItsClasses
  <1>3. full = IF frame.method \in m.outlines THEN Result("outline", <<>>)
               ELSE IF listed /\ cleared THEN Result("cleared", <<>>)
               ELSE IF listed THEN Result("frames", m.remap[ask])
               ELSE Result("none", <<>>)
    BY DEF MapFullFrame
  <1> HIDE DEF full, listed, cleared
  <1>4. a = IF full.kind # "none" THEN full
            ELSE IF frame.method \in m.methods THEN Result("frames", Renamed("method", frame))
            ELSE IF frame.class \in m.classes THEN Result("frames", Renamed("class", frame))
            ELSE full
    BY DEF MapFrameWith, full
  <1> HIDE DEF a
  <1>5. CASE frame.method \in m.outlines
    BY <1>1, <1>2, <1>3, <1>4, <1>5 DEF Told, a, listed, cleared
  <1>6. CASE frame.method \notin m.outlines /\ listed /\ cleared
    BY <1>1, <1>2, <1>3, <1>4, <1>6 DEF Told, a, listed, cleared
  <1>7. CASE frame.method \notin m.outlines /\ listed /\ ~ cleared
    BY <1>1, <1>2, <1>3, <1>4, <1>7 DEF Told, a, listed, cleared
  <1>8. CASE frame.method \notin m.outlines /\ ~ listed
    BY <1>1, <1>2, <1>3, <1>4, <1>8 DEF Told, a, listed
  <1> QED
    BY <1>5, <1>6, <1>7, <1>8

\* What the mapping files answer about frame pos
AnswersTo(ms, frames, exception, pos, answers) ==
    /\ Len(answers) = Len(ms)
    /\ \A k \in 1 .. Len(ms) :
          /\ answers[k].kind # "none" <=> frames[pos].class \in ms[k].classes
          /\ answers[k].kind = "outline" <=> frames[pos].method \in ms[k].outlines
    /\ Responsible(ms, frames[pos]) # 0 =>
          WithoutSynthesized(frames[pos], answers[Responsible(ms, frames[pos])].frames)
             = Meaning(ms, frames, exception, pos)

LEMMA FirstAnswerIs ==
    ASSUME NEW ms, NEW frames, NEW exception, NEW pos, NEW answers, AnswersTo(ms, frames, exception, pos, answers)
    PROVE  FirstAnswer(answers) = Responsible(ms, frames[pos])
  <1> DEFINE I == {i \in 1 .. Len(answers) : answers[i].kind # "none"}
             K == {i \in 1 .. Len(ms) : frames[pos].class \in ms[i].classes}
  <1>1. FirstAnswer(answers) = IF I # {} THEN Min(I) ELSE 0
    BY DEF FirstAnswer, SelectInSeq
  <1>2. Responsible(ms, frames[pos]) = IF K # {} THEN Min(K) ELSE 0
    BY DEF Responsible, SelectInSeq
  <1>3. I = K
    BY DEF AnswersTo
  <1> HIDE DEF I, K
  <1> QED
    BY <1>1, <1>2, <1>3

\* Rules for the exception may remove the frame after the first n.
RulesApply(ms, frames, exception, n, rewrite) ==
    rewrite <=> (exception # NoClass /\ \A j \in 1 .. n : IsOutline(ms, frames[j]))

\* The files for which a position is carried to frame i
PositionsCarried(ms, frames, i, carried) ==
    \A u \in 1 .. Len(ms) : carried[u] # NoLine <=> IsCarried(ms, frames, u, i)

LEMMA AnswersAre ==
    ASSUME NEW ms, NEW frames, Fitting(ms, frames), NEW exception, NEW rewrite, NEW carried, NEW pos \in 1 .. Len(frames),
           RulesApply(ms, frames, exception, pos - 1, rewrite), PositionsCarried(ms, frames, pos, carried),
           NEW answers,
           answers = [k \in DOMAIN ms |-> MapFrameWith(ms[k], frames[pos], HowToAsk(ms, frames[pos], carried[k]),
                                                       MapClass(ms, exception), rewrite)]
    PROVE  AnswersTo(ms, frames, exception, pos, answers)
  <1> DEFINE frame == frames[pos]
             how(k) == HowToAsk(ms, frame, carried[k])
             mapped == MapClass(ms, exception)
             u == Responsible(ms, frame)
  <1>1. /\ ms \in Seq(Range(ms)) /\ DOMAIN ms = 1 .. Len(ms) /\ Len(ms) \in Nat
        /\ \A k \in 1 .. Len(ms) : KnowsItsClasses(ms[k], frame.class, frame.method)
    BY LenProperties DEF Fitting
  <1>2. Len(answers) = Len(ms) /\ \A k \in 1 .. Len(ms) : answers[k] = MapFrameWith(ms[k], frame, how(k), mapped, rewrite)
    BY <1>1
  <1> HIDE DEF how, mapped
  <1>5. \A k \in 1 .. Len(ms) : Told(ms[k], frame, how(k), mapped, rewrite, answers[k])
    BY <1>1, <1>2, MapFrameWithIs
  <1>3. \A k \in 1 .. Len(ms) : /\ answers[k].kind # "none" <=> frame.class \in ms[k].classes
                                /\ answers[k].kind = "outline" <=> frame.method \in ms[k].outlines
    BY <1>5 DEF Told
  <1>4. ASSUME u # 0 PROVE WithoutSynthesized(frame, answers[u].frames) = Meaning(ms, frames, exception, pos)
    <2> DEFINE m == ms[u]
               ask == <<frame.method, how(u)>>
               listed == ask \in DOMAIN m.remap /\ m.remap[ask] # <<>>
               fs == IF listed THEN m.remap[ask]
                     ELSE Renamed(IF frame.method \in m.methods THEN "method" ELSE "class", frame)
               gone == frame.method \in m.outlines \/ (listed /\ rewrite /\ <<mapped, frame.method>> \in m.rewrites)
    <2>1. u \in 1 .. Len(ms) /\ frame.class \in ms[u].classes
      BY <1>1, <1>4, ResponsibleIs
    <2>2. how(u) = IF IsCarried(ms, frames, u, pos) THEN "outline" ELSE HowToAsk(ms, frame, NoLine)
      <3> HIDE DEF u, frame
      <3>1. carried[u] # NoLine <=> IsCarried(ms, frames, u, pos)
        BY <2>1, Zenon DEF PositionsCarried
      <3> QED
        BY <3>1 DEF how, HowToAsk
    <2>3. answers[u].frames = IF gone THEN <<>> ELSE fs
      <3> HIDE DEF u, frame
      <3> QED
        BY <1>5, <2>1 DEF Told
    <2>4. IsOutline(ms, frame) <=> frame.method \in m.outlines
      BY <1>4 DEF IsOutline
    <2>5. IsRemoved(ms, frames, exception, pos) <=> rewrite /\ <<mapped, frame.method>> \in m.rewrites
      BY Zenon DEF IsRemoved, RulesApply, mapped
    <2>6. Meaning(ms, frames, exception, pos) =
            IF IsOutline(ms, frame) \/ (listed /\ IsRemoved(ms, frames, exception, pos)) THEN <<>>
            ELSE WithoutSynthesized(frame, fs)
      BY <1>4, <2>2 DEF Meaning
    <2> HIDE DEF fs, listed, u, m, frame
    <2>7. Meaning(ms, frames, exception, pos) = IF gone THEN <<>> ELSE WithoutSynthesized(frame, fs)
      BY <2>4, <2>5, <2>6
    <2> QED
      BY <2>3, <2>7, WithoutSynthesizedIs
  <1> QED
    BY <1>2, <1>3, <1>4 DEF AnswersTo

\* A frame is replaced by those that it stands for.
LEMMA RemappedIs ==
    ASSUME NEW ms, NEW frames, Fitting(ms, frames), NEW exception, NEW pos \in 1 .. Len(frames),
           NEW answers, AnswersTo(ms, frames, exception, pos, answers)
    PROVE  LET new == Remapped(frames[pos], pos, answers)
               meaning == Meaning(ms, frames, exception, pos)
           IN  /\ new \in Seq(Range(new)) /\ Len(new) = Len(meaning) /\ Len(new) \in Nat
               /\ \A k \in 1 .. Len(new) :
                     /\ {"of", "by", "name", "line"} \subseteq DOMAIN new[k]
                     /\ new[k].of = pos /\ new[k].by = Responsible(ms, frames[pos])
                     /\ new[k].name = meaning[k].name /\ new[k].line = meaning[k].line
  <1> DEFINE frame == frames[pos]
             used == FirstAnswer(answers)
             kept == Meaning(ms, frames, exception, pos)
             New(k) == [of |-> pos, by |-> used, context |-> 0, name |-> kept[k].name, line |-> kept[k].line]
             new == Remapped(frame, pos, answers)
  <1>1. used = Responsible(ms, frame)
    BY FirstAnswerIs
  <1>2. kept = IF used = 0 THEN Renamed("raw", frame) ELSE WithoutSynthesized(frame, answers[used].frames)
    <2>1. CASE used = 0
      BY <1>1, <2>1 DEF Meaning
    <2>2. CASE used # 0
      BY <1>1, <2>2 DEF AnswersTo
    <2> QED
      BY <2>1, <2>2
  <1>3. new = [k \in DOMAIN kept |-> New(k)]
    BY <1>2 DEF Remapped
  <1>4. kept \in Seq(Range(kept)) /\ Len(kept) \in Nat
    BY MeaningIs
  <1>5. \A k : /\ {"of", "by", "name", "line"} \subseteq DOMAIN New(k)
               /\ New(k).of = pos /\ New(k).by = used /\ New(k).name = kept[k].name /\ New(k).line = kept[k].line
    OBVIOUS
  <1> HIDE DEF New, kept, used, new
  <1>6. DOMAIN kept = 1 .. Len(kept)
    BY <1>4, LenProperties
  <1>7. Len(new) = Len(kept) /\ new \in Seq(Range(new)) /\ \A k \in 1 .. Len(kept) : new[k] = New(k)
    BY <1>3, <1>4, <1>6, IsASeq DEF Range
  <1> QED
    BY <1>1, <1>4, <1>5, <1>7 DEF kept, used, new

LEMMA RulesApplyToNext ==
    ASSUME NEW ms, NEW frames, Fitting(ms, frames), NEW exception, NEW rewrite, NEW pos \in 1 .. Len(frames),
           RulesApply(ms, frames, exception, pos - 1, rewrite),
           NEW answers, AnswersTo(ms, frames, exception, pos, answers),
           NEW kind, kind = IF FirstAnswer(answers) = 0 THEN "none" ELSE answers[FirstAnswer(answers)].kind
    PROVE  RulesApply(ms, frames, exception, pos, RewriteAfter(kind, rewrite))
  <1> DEFINE used == FirstAnswer(answers)
  <1>1. used = Responsible(ms, frames[pos]) /\ used \in 0 .. Len(ms)
    BY FirstAnswerIs, ResponsibleIs DEF Fitting
  <1>2. kind = IF used = 0 THEN "none" ELSE answers[used].kind
    OBVIOUS
  <1> HIDE DEF used
  <1>3. kind = "outline" <=> IsOutline(ms, frames[pos])
    <2>1. CASE used = 0
      BY <1>1, <1>2, <2>1 DEF IsOutline
    <2>2. CASE used # 0
      <3>1. used \in 1 .. Len(ms)
        BY <1>1, <2>2 DEF Fitting
      <3> QED
        BY <1>1, <1>2, <2>2, <3>1 DEF IsOutline, AnswersTo
    <2> QED
      BY <2>1, <2>2
  <1>4. \A j : j \in 1 .. pos <=> j \in 1 .. pos - 1 \/ j = pos
    BY DEF Fitting
  <1> QED
    BY <1>3, <1>4, Zenon DEF RulesApply, RewriteAfter

LEMMA PositionsCarriedToNext ==
    ASSUME NEW ms, NEW frames, Fitting(ms, frames), NEW exception, NEW carried, NEW pos \in 1 .. Len(frames),
           PositionsCarried(ms, frames, pos, carried),
           NEW answers, AnswersTo(ms, frames, exception, pos, answers),
           NEW used, used = FirstAnswer(answers), NEW next,
           next = [i \in DOMAIN ms |->
                      IF used # 0 /\ i > used THEN carried[i]
                      ELSE IF answers[i].kind = "outline" THEN frames[pos].line ELSE NoLine]
    PROVE  PositionsCarried(ms, frames, pos + 1, next)
  <1>1. /\ used = Responsible(ms, frames[pos]) /\ used \in 0 .. Len(ms) /\ Len(ms) \in Nat
        /\ pos \in Nat /\ DOMAIN ms = 1 .. Len(ms)
        /\ used # 0 => \A k \in 1 .. used - 1 : frames[pos].class \notin ms[k].classes
        /\ used = 0 => \A k \in 1 .. Len(ms) : frames[pos].class \notin ms[k].classes
    <2>1. used = Responsible(ms, frames[pos])
      BY FirstAnswerIs
    <2>2. /\ Len(ms) \in Nat /\ DOMAIN ms = 1 .. Len(ms) /\ pos \in Nat
      BY LenProperties DEF Fitting
    <2> QED
      BY <2>1, <2>2, ResponsibleIs
  <1>2. (pos + 1) - 1 = pos /\ (\A j : j \in 1 .. pos <=> j \in 1 .. pos - 1 \/ j = pos)
        /\ (\A h : h \notin pos + 1 .. pos)
        /\ \A j \in 1 .. pos - 1 : /\ pos \in j + 1 .. pos
                                   /\ \A h : h \in j + 1 .. pos <=> h \in j + 1 .. pos - 1 \/ h = pos
    BY <1>1
  <1> DEFINE By(j) == Responsible(ms, frames[j])
             Leaves(j, u) == IsOutline(ms, frames[j]) /\ By(j) = u /\ frames[j].line # NoLine
  <1>3. ASSUME NEW u \in 1 .. Len(ms) PROVE next[u] # NoLine <=> IsCarried(ms, frames, u, pos + 1)
    <2>1. /\ carried[u] # NoLine <=> IsCarried(ms, frames, u, pos)
          /\ answers[u].kind # "none" <=> frames[pos].class \in ms[u].classes
          /\ answers[u].kind = "outline" <=> frames[pos].method \in ms[u].outlines
      BY Zenon DEF PositionsCarried, AnswersTo
    <2>2. IsCarried(ms, frames, u, pos) <=>
             \E j \in 1 .. pos - 1 : Leaves(j, u) /\ \A h \in j + 1 .. pos - 1 : By(h) \in 1 .. u - 1
      BY DEF IsCarried
    <2>3. IsCarried(ms, frames, u, pos + 1) <=>
             \E j \in 1 .. pos : Leaves(j, u) /\ \A h \in j + 1 .. pos : By(h) \in 1 .. u - 1
      BY <1>2 DEF IsCarried
    <2>4. Leaves(pos, u) <=> used = u /\ frames[pos].method \in ms[u].outlines /\ frames[pos].line # NoLine
      BY <1>1 DEF IsOutline
    <2>5. next[u] = IF used # 0 /\ u > used THEN carried[u]
                    ELSE IF answers[u].kind = "outline" THEN frames[pos].line ELSE NoLine
      BY <1>1
    <2>6. By(pos) = used
      BY <1>1
    <2> HIDE DEF Leaves, By
    <2>7. IsCarried(ms, frames, u, pos + 1) <=>
             Leaves(pos, u) \/ (By(pos) \in 1 .. u - 1 /\ IsCarried(ms, frames, u, pos))
      BY <1>2, <2>2, <2>3, Zenon
    <2>8. CASE used # 0 /\ u > used
      <3>1. used \in 1 .. u - 1 /\ used # u
        BY <1>1, <2>8
      <3> QED
        BY <2>1, <2>4, <2>5, <2>6, <2>7, <2>8, <3>1
    <2>9. CASE ~ (used # 0 /\ u > used)
      <3>1. used \notin 1 .. u - 1
        BY <1>1, <2>9
      <3>2. answers[u].kind = "outline" => used = u
        <4>1. used # u => frames[pos].class \notin ms[u].classes
          BY <1>1, <2>9
        <4> QED
          BY <2>1, <4>1
      <3> QED
        BY <2>1, <2>4, <2>5, <2>6, <2>7, <2>9, <3>1, <3>2
    <2> QED
      BY <2>8, <2>9
  <1> QED
    BY <1>3 DEF PositionsCarried

\* got accounts for the first n frames.
AccountsFor(ms, frames, exception, n, got) ==
    /\ got \in Seq(Range(got))
    /\ \A k \in 1 .. Len(got) : /\ {"of", "by", "name", "line"} \subseteq DOMAIN got[k]
                                /\ got[k].of \in 1 .. n
    /\ \A k \in 1 .. Len(got) - 1 : got[k].of <= got[k + 1].of
    /\ \A i \in 1 .. n : StandsIn(got, i, Responsible(ms, frames[i]), Meaning(ms, frames, exception, i))

\* What stands for a frame still does when others follow.
LEMMA StandsBefore ==
    ASSUME NEW got, NEW new, NEW all, Len(got) \in Nat, Len(new) \in Nat, Len(all) = Len(got) + Len(new),
           DOMAIN got = 1 .. Len(got), DOMAIN all = 1 .. Len(all),
           \A k \in 1 .. Len(got) : all[k] = got[k],
           NEW i, \A k \in 1 .. Len(all) : k \notin 1 .. Len(got) => all[k].of # i,
           NEW by, NEW meaning, Len(meaning) \in Nat, StandsIn(got, i, by, meaning)
    PROVE  StandsIn(all, i, by, meaning)
  <1>1. PICK before \in 0 .. Len(got) - Len(meaning) : \A k \in DOMAIN got :
           /\ got[k].of = i <=> k \in before + 1 .. before + Len(meaning)
           /\ got[k].of = i => /\ got[k].by = by
                               /\ got[k].name = meaning[k - before].name
                               /\ got[k].line = meaning[k - before].line
    BY Zenon DEF StandsIn
  <1>2. before \in 0 .. Len(all) - Len(meaning) /\ before + Len(meaning) <= Len(got)
    BY <1>1
  <1>3. ASSUME NEW k \in DOMAIN all
        PROVE /\ all[k].of = i <=> k \in before + 1 .. before + Len(meaning)
              /\ all[k].of = i => /\ all[k].by = by
                                  /\ all[k].name = meaning[k - before].name
                                  /\ all[k].line = meaning[k - before].line
    <2>1. CASE k \in 1 .. Len(got)
      BY <1>1, <2>1
    <2>2. CASE k \notin 1 .. Len(got)
      <3>1. k \notin before + 1 .. before + Len(meaning)
        BY <1>1, <1>2, <2>2
      <3> QED
        BY <2>2, <3>1
    <2> QED
      BY <2>1, <2>2
  <1> QED
    BY <1>2, <1>3, Zenon DEF StandsIn

LEMMA AccountsForNext ==
    ASSUME NEW ms, NEW frames, Fitting(ms, frames), NEW exception, NEW pos \in 1 .. Len(frames),
           NEW got, AccountsFor(ms, frames, exception, pos - 1, got),
           NEW answers, AnswersTo(ms, frames, exception, pos, answers)
    PROVE  AccountsFor(ms, frames, exception, pos, got \o Remapped(frames[pos], pos, answers))
  <1> DEFINE new == Remapped(frames[pos], pos, answers)
             all == got \o new
             By(i) == Responsible(ms, frames[i])
             S(i) == Meaning(ms, frames, exception, i)
  <1>1. Len(ms) \in Nat /\ Len(frames) \in Nat /\ pos \in Nat
    BY DEF Fitting
  <1>2. /\ new \in Seq(Range(new)) /\ Len(new) = Len(S(pos))
        /\ \A k \in 1 .. Len(new) : /\ {"of", "by", "name", "line"} \subseteq DOMAIN new[k]
                                    /\ new[k].of = pos /\ new[k].by = By(pos)
                                    /\ new[k].name = S(pos)[k].name /\ new[k].line = S(pos)[k].line
    BY RemappedIs
  <1>3. \A i \in 1 .. pos : Len(S(i)) \in Nat
    BY <1>1, MeaningIs
  <1>4. /\ got \in Seq(Range(got))
        /\ \A k \in 1 .. Len(got) : /\ {"of", "by", "name", "line"} \subseteq DOMAIN got[k]
                                    /\ got[k].of \in 1 .. pos - 1
        /\ \A k \in 1 .. Len(got) - 1 : got[k].of <= got[k + 1].of
        /\ \A i \in 1 .. pos - 1 : StandsIn(got, i, By(i), S(i))
    BY DEF AccountsFor
  <1> HIDE DEF new, By, S
  <1>5. /\ all \in Seq(Range(got) \cup Range(new)) /\ Len(all) = Len(got) + Len(new)
        /\ Len(got) \in Nat /\ Len(new) \in Nat
        /\ \A k \in 1 .. Len(got) : all[k] = got[k] /\ k \in 1 .. Len(all)
        /\ \A k \in 1 .. Len(new) : all[Len(got) + k] = new[k] /\ Len(got) + k \in 1 .. Len(all)
    <2>1. got \in Seq(Range(got) \cup Range(new)) /\ new \in Seq(Range(got) \cup Range(new))
      BY <1>2, <1>4, SeqMonotonic
    <2>2. /\ all \in Seq(Range(got) \cup Range(new)) /\ Len(all) = Len(got) + Len(new)
          /\ \A k \in 1 .. Len(got) + Len(new) :
                all[k] = IF k <= Len(got) THEN got[k] ELSE new[k - Len(got)]
      BY <2>1, ConcatProperties
    <2>3. Len(got) \in Nat /\ Len(new) \in Nat
      BY <2>1, LenProperties
    <2> HIDE DEF all
    <2>4. ASSUME NEW k \in 1 .. Len(got) PROVE all[k] = got[k] /\ k \in 1 .. Len(all)
      BY <2>2, <2>3
    <2>5. ASSUME NEW k \in 1 .. Len(new) PROVE all[Len(got) + k] = new[k] /\ Len(got) + k \in 1 .. Len(all)
      <3>1. Len(got) + k \in 1 .. Len(got) + Len(new) /\ ~ (Len(got) + k <= Len(got)) /\ (Len(got) + k) - Len(got) = k
        BY <2>3
      <3> QED
        BY <2>2, <3>1
    <2> QED
      BY <2>2, <2>3, <2>4, <2>5
  <1> HIDE DEF all
  <1>6. ASSUME NEW k \in 1 .. Len(all)
        PROVE  \/ k \in 1 .. Len(got) /\ all[k] = got[k]
               \/ k - Len(got) \in 1 .. Len(new) /\ all[k] = new[k - Len(got)]
    <2>1. CASE k <= Len(got)
      BY <1>5, <2>1
    <2>2. CASE ~ (k <= Len(got))
      <3>1. k - Len(got) \in 1 .. Len(new) /\ Len(got) + (k - Len(got)) = k
        BY <1>5, <2>2
      <3> QED
        BY <1>5, <3>1
    <2> QED
      BY <2>1, <2>2
  <1>7. all \in Seq(Range(all))
    <2>1. DOMAIN all = 1 .. Len(all) /\ Len(all) \in Nat
      BY <1>5, LenProperties
    <2>2. all = [k \in 1 .. Len(all) |-> all[k]]
      BY <1>5, <2>1
    <2>3. \A k \in 1 .. Len(all) : all[k] \in Range(all)
      BY <2>1 DEF Range
    <2> QED
      BY <2>1, <2>2, <2>3, IsASeq
  <1>8. ASSUME NEW k \in 1 .. Len(all)
        PROVE {"of", "by", "name", "line"} \subseteq DOMAIN all[k] /\ all[k].of \in 1 .. pos
    <2>1. CASE k \in 1 .. Len(got) /\ all[k] = got[k]
      <3>1. \A x : x \in 1 .. pos - 1 => x \in 1 .. pos
        BY <1>1
      <3> QED
        BY <1>4, <2>1, <3>1
    <2>2. CASE k - Len(got) \in 1 .. Len(new) /\ all[k] = new[k - Len(got)]
      <3>1. pos \in 1 .. pos
        BY <1>1
      <3> QED
        BY <1>2, <2>2, <3>1
    <2> QED
      BY <1>6, <2>1, <2>2
  <1>9. ASSUME NEW k \in 1 .. Len(all) - 1 PROVE all[k].of <= all[k + 1].of
    <2>1. k \in 1 .. Len(all) /\ k + 1 \in 1 .. Len(all) /\ k \in Nat
      BY <1>5
    <2>2. CASE k + 1 \in 1 .. Len(got)
      <3>1. k \in 1 .. Len(got) /\ k \in 1 .. Len(got) - 1
        BY <1>5, <2>1, <2>2
      <3> QED
        BY <1>4, <1>5, <2>2, <3>1
    <2>3. CASE (k + 1) - Len(got) \in 1 .. Len(new) /\ all[k + 1] = new[(k + 1) - Len(got)]
      <3>1. all[k + 1].of = pos
        BY <1>2, <2>3
      <3>2. all[k].of \in 1 .. pos
        BY <1>8, <2>1
      <3> QED
        BY <1>1, <3>1, <3>2
    <2> QED
      BY <1>6, <2>1, <2>2, <2>3
  <1>10. DOMAIN got = 1 .. Len(got) /\ DOMAIN all = 1 .. Len(all)
    BY <1>4, <1>7, LenProperties
  <1>11. ASSUME NEW i \in 1 .. pos - 1 PROVE StandsIn(all, i, By(i), S(i))
    <2>1. i # pos /\ i \in 1 .. pos
      BY <1>1
    <2>2. \A k \in 1 .. Len(all) : k \notin 1 .. Len(got) => all[k].of # i
      BY <1>2, <1>6, <2>1
    <2>3. StandsIn(got, i, By(i), S(i)) /\ Len(S(i)) \in Nat
      BY <1>3, <1>4, <2>1
    <2> QED
      BY <1>5, <1>10, <2>2, <2>3, StandsBefore
  <1>12. StandsIn(all, pos, By(pos), S(pos))
    <2>1. \A k \in 1 .. Len(got) : all[k].of # pos
      <3>1. \A x \in 1 .. pos - 1 : x # pos
        BY <1>1
      <3>2. \A k \in 1 .. Len(got) : all[k].of \in 1 .. pos - 1
        BY <1>4, <1>5
      <3> QED
        BY <3>1, <3>2
    <2>2. \A k \in 1 .. Len(new) : all[Len(got) + k] = new[k]
      BY <1>5
    <2> DEFINE by == By(pos)
               meaning == S(pos)
    <2>3. /\ Len(meaning) = Len(new)
          /\ \A k \in 1 .. Len(new) : /\ new[k].of = pos /\ new[k].by = by
                                      /\ new[k].name = meaning[k].name /\ new[k].line = meaning[k].line
      BY <1>2
    <2> HIDE DEF by, meaning
    <2>4. Len(got) \in 0 .. Len(all) - Len(meaning)
      BY <1>5, <2>3
    <2>5. ASSUME NEW k \in DOMAIN all
          PROVE  /\ all[k].of = pos <=> k \in Len(got) + 1 .. Len(got) + Len(meaning)
                 /\ all[k].of = pos => /\ all[k].by = by
                                       /\ all[k].name = meaning[k - Len(got)].name
                                       /\ all[k].line = meaning[k - Len(got)].line
      <3>1. CASE k \in 1 .. Len(got)
        <4>1. k \notin Len(got) + 1 .. Len(got) + Len(meaning)
          BY <1>5, <2>3, <3>1
        <4> QED
          BY <2>1, <3>1, <4>1
      <3>2. CASE k - Len(got) \in 1 .. Len(new) /\ all[k] = new[k - Len(got)]
        <4>1. k \in Len(got) + 1 .. Len(got) + Len(meaning)
          BY <1>5, <1>10, <2>3, <3>2
        <4> QED
          BY <2>3, <3>2, <4>1
      <3> QED
        BY <1>6, <1>10, <3>1, <3>2
    <2>6. StandsIn(all, pos, by, meaning)
      BY <2>4, <2>5, Zenon DEF StandsIn
    <2> QED
      BY <2>6 DEF by, meaning
  <1>13. \A i \in 1 .. pos : StandsIn(all, i, By(i), S(i))
    <2>1. \A i \in 1 .. pos : i \in 1 .. pos - 1 \/ i = pos
      BY <1>1
    <2> QED
      BY <1>11, <1>12, <2>1
  <1> QED
    BY <1>7, <1>8, <1>9, <1>13, Zenon DEF AccountsFor, By, S, all, new

\* The frames of a stack trace, callee first
CalleeFirst(r, t) == IF r.callerFirst THEN Reverse(r.traces[t].frames) ELSE r.traces[t].frames

LEMMA CalleeFirstIs ==
    ASSUME NEW r \in JvmRequests, NEW t \in 1 .. Len(r.traces)
    PROVE  /\ r.traces[t].frames \in Seq(Range(r.traces[t].frames))
           /\ CalleeFirst(r, t) \in Seq(Range(r.traces[t].frames))
           /\ Len(CalleeFirst(r, t)) = Len(r.traces[t].frames) /\ Len(r.traces[t].frames) \in Nat
           /\ CalleeFirst(r, t) \in Seq(Range(CalleeFirst(r, t)))
           /\ \A i \in 1 .. Len(CalleeFirst(r, t)) : CalleeFirst(r, t)[i] \in Range(r.traces[t].frames)
  <1> DEFINE s == r.traces[t].frames
             c == CalleeFirst(r, t)
  <1>1. s \in Seq(Range(s))
    <2>1. r.traces[t] \in Range(r.traces)
      BY JvmRequestsAssumption, LenProperties DEF Range
    <2> QED
      BY <2>1, JvmRequestsAssumption
  <1>2. c = s \/ c = Reverse(s)
    BY DEF CalleeFirst
  <1> HIDE DEF s, c
  <1>3. c \in Seq(Range(s)) /\ Len(c) = Len(s) /\ Len(s) \in Nat /\ Range(c) = Range(s)
    BY <1>1, <1>2, ReverseIs, LenProperties
  <1>4. \A i \in 1 .. Len(c) : c[i] \in Range(s)
    BY <1>3, ElementOfSeq
  <1> QED
    BY <1>1, <1>3, <1>4 DEF s, c

LEMMA MappersFit ==
    ASSUME jvm.request \in JvmRequests, NEW t \in 1 .. Len(jvm.request.traces)
    PROVE  Fitting(Mappers, CalleeFirst(jvm.request, t))
  <1> DEFINE r == jvm.request
             modules == r.modules
             P == {i \in DOMAIN modules : modules[i].type = "proguard" /\ jvm.fetched[i] = "ok"}
             u == Usable("proguard")
             ms == Mappers
             c == CalleeFirst(r, t)
             Q == {k \in DOMAIN modules : modules[k].type = "proguard"}
  <1>1. modules \in Seq(Range(modules)) /\ u = Only(modules, P)
    BY JvmRequestsAssumption DEF Usable
  <1>2. /\ u \in Seq(Range(modules))
        /\ \A x \in Range(u) : \E i \in 1 .. Len(modules) : i \in P /\ x = modules[i]
    <2> HIDE DEF P, u, modules
    <2> QED
      BY <1>1, OnlyIs
  <1>3. ms = [k \in DOMAIN u |-> u[k].mapping]
    BY DEF Mappers
  <1>4. DOMAIN modules = 1 .. Len(modules) /\ DOMAIN u = 1 .. Len(u) /\ Len(u) \in Nat
    <2> HIDE DEF u, modules
    <2> QED
      BY <1>1, <1>2, LenProperties
  <1>5. \A k \in 1 .. Len(u) : \E i \in Q : u[k] = modules[i]
    BY <1>2, <1>4 DEF Range
  <1> HIDE DEF ms, u
  <1>6. ms \in Seq(Range(ms)) /\ Len(ms) = Len(u)
    <2>1. DOMAIN ms = 1 .. Len(u) /\ Len(ms) = Len(u) /\ ms = [k \in 1 .. Len(ms) |-> ms[k]]
      BY <1>3, <1>4
    <2>2. \A k \in 1 .. Len(ms) : ms[k] \in Range(ms)
      BY <2>1 DEF Range
    <2> QED
      BY <1>4, <2>1, <2>2, IsASeq
  <1>7. \A k \in 1 .. Len(ms) : \E i \in Q : ms[k] = modules[i].mapping
    BY <1>3, <1>4, <1>5, <1>6
  <1>8. \A i \in Q : /\ Mapping(modules[i].mapping)
                     /\ \A f \in Range(r.traces[t].frames) : KnowsItsClasses(modules[i].mapping, f.class, f.method)
    <2>1. r.traces[t] \in Range(r.traces)
      BY JvmRequestsAssumption, LenProperties DEF Range
    <2> HIDE DEF r
    <2> QED
      BY <2>1, JvmRequestsAssumption DEF Mapping, r
  <1>9. /\ c \in Seq(Range(c))
        /\ \A i \in 1 .. Len(c) : c[i] \in Range(r.traces[t].frames)
    BY CalleeFirstIs
  <1> HIDE DEF c, Q, modules, r
  <1>10. ASSUME NEW k \in 1 .. Len(ms)
         PROVE  /\ Mapping(ms[k])
                /\ \A i \in 1 .. Len(c) : KnowsItsClasses(ms[k], c[i].class, c[i].method)
    BY <1>7, <1>8, <1>9, Zenon
  <1>11. Fitting(ms, c)
    BY <1>6, <1>9, <1>10, Zenon DEF Fitting
  <1> QED
    BY <1>11 DEF ms, c, r

\* The frames of the answer for a stack trace, callee first
JvmAnswered(t) == IF jvm.request.callerFirst THEN Reverse(jvm.out[t].frames) ELSE jvm.out[t].frames

AllAnswered ==
    /\ jvm.request \in JvmRequests /\ DOMAIN jvm.out = 1 .. Len(jvm.request.traces)
    /\ \A t \in DOMAIN jvm.out :
          AccountsFor(Mappers, CalleeFirst(jvm.request, t), jvm.request.traces[t].exception,
                   Len(CalleeFirst(jvm.request, t)), JvmAnswered(t))

LEMMA AccountedWhen == AllAnswered => JvmFramesAccounted
  <1> SUFFICES ASSUME jvm.request \in JvmRequests, DOMAIN jvm.out = 1 .. Len(jvm.request.traces),
                      \A t \in DOMAIN jvm.out :
                         AccountsFor(Mappers, CalleeFirst(jvm.request, t), jvm.request.traces[t].exception,
                                  Len(CalleeFirst(jvm.request, t)), JvmAnswered(t))
               PROVE  JvmFramesAccounted
    BY DEF AllAnswered
  <1>1. {e[1] : e \in Errors} = {i \in DOMAIN jvm.fetched : jvm.request.modules[i].type = "proguard"}
                                \ {i \in DOMAIN jvm.fetched : jvm.fetched[i] = "ok"}
    <2> DEFINE S == {j \in DOMAIN jvm.fetched : jvm.request.modules[j].type = "proguard" /\ jvm.fetched[j] # "ok"}
               kind(i) == ErrorKind(jvm.fetched[i])
    <2>1. Errors = {<<i, kind(i)>> : i \in S}
      BY DEF Errors
    <2>2. S = {i \in DOMAIN jvm.fetched : jvm.request.modules[i].type = "proguard"}
              \ {i \in DOMAIN jvm.fetched : jvm.fetched[i] = "ok"}
      OBVIOUS
    <2> HIDE DEF S, kind
    <2>3. ASSUME NEW i \in S PROVE i \in {e[1] : e \in Errors}
      <3>1. <<i, kind(i)>> \in Errors /\ <<i, kind(i)>>[1] = i
        BY <2>1
      <3> QED
        BY <3>1
    <2>4. \A e \in Errors : e[1] \in S
      BY <2>1
    <2>5. {e[1] : e \in Errors} = S
      BY <2>3, <2>4
    <2> QED
      BY <2>2, <2>5
  <1>2. ASSUME NEW t \in DOMAIN jvm.out
        PROVE LET trace  == jvm.request.traces[t]
                  frames == IF jvm.request.callerFirst THEN Reverse(trace.frames) ELSE trace.frames
                  got    == IF jvm.request.callerFirst THEN Reverse(jvm.out[t].frames) ELSE jvm.out[t].frames
              IN  /\ \A k \in 1 .. Len(got) - 1 : got[k].of <= got[k + 1].of
                  /\ \A k \in DOMAIN got : got[k].of \in DOMAIN frames
                  /\ \A i \in DOMAIN frames :
                        StandsIn(got, i, Responsible(Mappers, frames[i]),
                                 Meaning(Mappers, frames, trace.exception, i))
    <2> DEFINE frames == CalleeFirst(jvm.request, t)
               got == JvmAnswered(t)
               exception == jvm.request.traces[t].exception
    <2>1. AccountsFor(Mappers, frames, exception, Len(frames), got)
      OBVIOUS
    <2>2. frames \in Seq(Range(frames))
      BY CalleeFirstIs
    <2> HIDE DEF frames, got, exception
    <2>3. DOMAIN frames = 1 .. Len(frames)
      BY <2>2, LenProperties
    <2>4. DOMAIN got = 1 .. Len(got)
      BY <2>1, LenProperties DEF AccountsFor
    <2>5. /\ \A k \in 1 .. Len(got) - 1 : got[k].of <= got[k + 1].of
          /\ \A k \in DOMAIN got : got[k].of \in DOMAIN frames
          /\ \A i \in DOMAIN frames :
                StandsIn(got, i, Responsible(Mappers, frames[i]), Meaning(Mappers, frames, exception, i))
      BY <2>1, <2>3, <2>4 DEF AccountsFor
    <2> QED
      BY <2>5, Zenon DEF frames, got, exception, CalleeFirst, JvmAnswered
  <1> QED
    BY <1>1, <1>2, Zenon DEF JvmFramesAccounted

JvmFields == {"pc", "request", "fetched", "mappers", "trace", "pos", "rewrite", "carried", "out"}

\* The first n frames of stack trace t are accounted for in the answer.
Through(t, n) ==
    AccountsFor(jvm.mappers, CalleeFirst(jvm.request, t), jvm.request.traces[t].exception, n, jvm.out[t])

Finished(t) == Through(t, Len(CalleeFirst(jvm.request, t)))

\* Stack traces are answered one after the other.
JvmInv ==
    LET n == Len(jvm.request.traces) IN
    /\ jvm = [x \in JvmFields |-> jvm[x]]
    /\ jvm.request \in JvmRequests /\ jvm.pc \in {"fetch", "map", "respond", "done"}
    /\ jvm.pc # "fetch" => jvm.mappers = Mappers
    /\ jvm.pc # "done" => jvm.out \in Seq(Range(jvm.out))
    /\ jvm.pc = "fetch" => Len(jvm.out) = 0
    /\ jvm.pc = "map" =>
          /\ jvm.trace \in 1 .. n /\ Len(jvm.out) = jvm.trace
          /\ jvm.pos \in 1 .. Len(Frames) + 1
          /\ \A t \in 1 .. jvm.trace - 1 : Finished(t)
          /\ Through(jvm.trace, jvm.pos - 1)
          /\ RulesApply(jvm.mappers, Frames, Trace.exception, jvm.pos - 1, jvm.rewrite)
          /\ PositionsCarried(jvm.mappers, Frames, jvm.pos, jvm.carried)
    /\ jvm.pc = "respond" => Len(jvm.out) = n /\ \A t \in 1 .. n : Finished(t)
    /\ jvm.pc = "done" => JvmFramesAccounted

LEMMA InitJvmInv ==
    ASSUME JvmInit
    PROVE  JvmInv
  <1>1. PICK r \in JvmRequests : jvm = JvmStarted(r)
    BY DEF JvmInit
  <1>2. /\ jvm = [x \in JvmFields |-> jvm[x]] /\ jvm.request = r /\ jvm.pc = "fetch" /\ jvm.out = <<>>
    BY <1>1 DEF JvmStarted, JvmFields
  <1>3. <<>> \in Seq(Range(<<>>)) /\ Len(<<>>) = 0
    OBVIOUS
  <1> QED
    BY <1>2, <1>3 DEF JvmInv

LEMMA FetchModuleJvmInv ==
    ASSUME JvmInv, NEW i, NEW fail, FetchModule(i, fail)
    PROVE  JvmInv'
  <1>1. jvm = [x \in JvmFields |-> jvm[x]] /\ jvm.pc = "fetch"
    BY DEF JvmInv, FetchModule
  <1>2. PICK got : jvm' = [jvm EXCEPT !.fetched = got]
    BY DEF FetchModule
  <1>3. /\ jvm' = [x \in JvmFields |-> jvm'[x]]
        /\ jvm'.pc = "fetch" /\ jvm'.request = jvm.request /\ jvm'.out = jvm.out
    BY <1>1, <1>2 DEF JvmFields
  <1>4. jvm.request \in JvmRequests /\ jvm.out \in Seq(Range(jvm.out)) /\ Len(jvm.out) = 0
    BY <1>1 DEF JvmInv
  <1> QED
    BY <1>3, <1>4 DEF JvmInv

\* The answers for what is done do not change.
LEMMA ThroughKept ==
    ASSUME jvm'.mappers = jvm.mappers, jvm'.request = jvm.request, NEW t, jvm'.out[t] = jvm.out[t]
    PROVE  /\ \A n : Through(t, n)' <=> Through(t, n)
           /\ Finished(t)' <=> Finished(t)
  BY DEF Through, Finished, CalleeFirst, AccountsFor

LEMMA MappersKept ==
    ASSUME jvm'.fetched = jvm.fetched, jvm'.request = jvm.request
    PROVE  Mappers' = Mappers
  BY DEF Mappers, Usable

LEMMA NothingAccounts ==
    ASSUME NEW ms, NEW frames, NEW exception
    PROVE  AccountsFor(ms, frames, exception, 0, <<>>)
  <1>1. <<>> \in Seq(Range(<<>>)) /\ Len(<<>>) = 0
    OBVIOUS
  <1>2. \A k : k \notin 1 .. 0 /\ k \notin 1 .. 0 - 1
    OBVIOUS
  <1> QED
    BY <1>1, <1>2 DEF AccountsFor

\* A stack trace begins with nothing, or all of them are done.
LEMMA StartTraceJvmInv ==
    ASSUME jvm = [x \in JvmFields |-> jvm[x]], jvm.request \in JvmRequests, jvm.pc # "done",
           jvm.out \in Seq(Range(jvm.out)),
           NEW i \in Nat \ {0}, Len(jvm.out) = i - 1, i <= Len(jvm.request.traces) + 1,
           jvm' = StartTrace(i, Mappers),
           \A t \in 1 .. i - 1 : jvm.mappers = Mappers /\ Finished(t)
    PROVE  JvmInv'
  <1> DEFINE n == Len(jvm.request.traces)
             old == jvm.out
  <1>1. n \in Nat
    BY JvmRequestsAssumption
  <1>2. /\ jvm' = [x \in JvmFields |-> jvm'[x]]
        /\ jvm'.request = jvm.request /\ jvm'.fetched = jvm.fetched /\ jvm'.mappers = Mappers
        /\ jvm'.pc = IF i <= n THEN "map" ELSE "respond"
        /\ jvm'.trace = i /\ jvm'.pos = 1
        /\ jvm'.rewrite = (i <= n /\ jvm.request.traces[i].exception # NoClass)
        /\ jvm'.carried = [m \in DOMAIN Mappers |-> NoLine]
        /\ jvm'.out = IF i <= n THEN Append(old, <<>>) ELSE old
    BY DEF StartTrace, JvmFields
  <1>3. jvm'.mappers = Mappers'
    BY <1>2, MappersKept
  <1>4. ASSUME NEW t \in 1 .. i - 1, jvm'.out[t] = jvm.out[t] PROVE Finished(t)'
    BY <1>2, <1>4, ThroughKept
  <1> HIDE DEF old
  <1>5. CASE i <= n
    <2>1. /\ jvm'.out \in Seq(Range(old) \cup {<<>>}) /\ Len(jvm'.out) = i
          /\ jvm'.out[i] = <<>> /\ \A t \in 1 .. i - 1 : jvm'.out[t] = old[t]
      <3>1. old \in Seq(Range(old) \cup {<<>>}) /\ Len(old) = i - 1 /\ (i - 1) + 1 = i
        BY SeqMonotonic DEF old
      <3> QED
        <4>1. jvm'.out = Append(old, <<>>)
          BY <1>2, <1>5
        <4>2. \A t : t \in 1 .. i - 1 => t \in 1 .. Len(old)
          BY <3>1
        <4>3. <<>> \in Range(old) \cup {<<>>}
          OBVIOUS
        <4> HIDE DEF old
        <4> QED
          BY <3>1, <4>1, <4>2, <4>3, AppendProperties
    <2>2. jvm'.out \in Seq(Range(jvm'.out))
      <3> DEFINE out == jvm'.out
      <3>0. out \in Seq(Range(old) \cup {<<>>}) /\ Len(out) = i
        BY <2>1
      <3> HIDE DEF out, old
      <3>1. DOMAIN out = 1 .. Len(out) /\ Len(out) \in Nat
        BY <3>0, LenProperties
      <3>2. out = [k \in 1 .. Len(out) |-> out[k]]
        BY <3>0, <3>1
      <3>3. \A k \in 1 .. Len(out) : out[k] \in Range(out)
        BY <3>1 DEF Range
      <3>4. out \in Seq(Range(out))
        BY <3>1, <3>2, <3>3, IsASeq
      <3> QED
        BY <3>4 DEF out
    <2>3. i \in 1 .. n /\ (Frames = CalleeFirst(jvm.request, i))' /\ (Trace = jvm.request.traces[i])'
      BY <1>1, <1>2, <1>5 DEF Frames, Trace, CalleeFirst
    <2>4. (jvm.pos \in 1 .. Len(Frames) + 1)'
      <3>1. Len(CalleeFirst(jvm.request, i)) \in Nat
        BY <2>3, CalleeFirstIs
      <3>2. CalleeFirst(jvm.request, i)' = CalleeFirst(jvm.request, i)
        BY <1>2 DEF CalleeFirst
      <3> QED
        BY <1>2, <2>3, <3>1, <3>2
    <2>5. Through(i, 0)'
      BY <2>1, NothingAccounts DEF Through
    <2>6. \A t \in 1 .. i - 1 : Finished(t)'
      BY <1>4, <2>1 DEF old
    <2>7. RulesApply(jvm.mappers, Frames, Trace.exception, 0, jvm.rewrite)'
      <3>1. \A j \in 1 .. 0 : FALSE
        OBVIOUS
      <3>2. jvm'.rewrite <=> jvm.request.traces[i].exception # NoClass
        BY <1>2, <1>5
      <3>3. (Trace.exception)' = jvm.request.traces[i].exception
        BY <1>2, <2>3
      <3> QED
        BY <3>1, <3>2, <3>3, Zenon DEF RulesApply, NoClass
    <2>9. PositionsCarried(jvm.mappers, Frames, 1, jvm.carried)'
      <3>1. \A u : u \in 1 .. Len(Mappers) => u \in DOMAIN Mappers
        <4>1. Mappers \in Seq(Range(Mappers))
          BY <2>3, MappersFit DEF Fitting
        <4> QED
          BY <4>1, LenProperties
      <3>2. \A u \in 1 .. Len(Mappers) : jvm'.carried[u] = NoLine
        BY <1>2, <3>1
      <3>3. \A u : ~ IsCarried(Mappers, Frames', u, 1)
        BY DEF IsCarried
      <3>4. PositionsCarried(Mappers, Frames', 1, jvm'.carried)
        BY <3>2, <3>3 DEF PositionsCarried
      <3> QED
        BY <1>2, <3>4 DEF PositionsCarried
    <2>8. jvm'.pc = "map" /\ 1 - 1 = 0
      BY <1>2, <1>5
    <2> QED
      BY <1>2, <1>3, <2>1, <2>2, <2>3, <2>4, <2>5, <2>6, <2>7, <2>8, <2>9 DEF JvmInv
  <1>6. CASE ~ (i <= n)
    <2>1. jvm'.pc = "respond" /\ jvm'.out = old /\ n = i - 1
      BY <1>1, <1>2, <1>6
    <2>2. \A t \in 1 .. n : Finished(t)'
      BY <1>4, <2>1 DEF old
    <2> QED
      BY <1>2, <1>3, <2>1, <2>2 DEF JvmInv, old
  <1> QED
    BY <1>5, <1>6

LEMMA MapFrameJvmInv ==
    ASSUME JvmInv, MapFrame
    PROVE  JvmInv'
  <1> DEFINE r == jvm.request
             i == jvm.trace
             pos == jvm.pos
             ms == jvm.mappers
             frames == CalleeFirst(r, i)
             exception == r.traces[i].exception
             answers == Answers(frames[pos])
             kind == IF FirstAnswer(answers) = 0 THEN "none" ELSE answers[FirstAnswer(answers)].kind
             new == jvm.out[i] \o Remapped(frames[pos], pos, answers)
  <1>1. /\ jvm = [x \in JvmFields |-> jvm[x]] /\ r \in JvmRequests /\ jvm.pc = "map"
        /\ ms = Mappers /\ jvm.out \in Seq(Range(jvm.out))
        /\ i \in 1 .. Len(r.traces) /\ Len(jvm.out) = i
        /\ pos \in 1 .. Len(Frames) + 1
        /\ \A t \in 1 .. i - 1 : Finished(t)
        /\ Through(i, pos - 1)
        /\ RulesApply(ms, Frames, Trace.exception, pos - 1, jvm.rewrite)
        /\ PositionsCarried(ms, Frames, pos, jvm.carried)
    BY DEF JvmInv, MapFrame
  <1>2. Frames = frames /\ Trace.exception = exception
    BY DEF Frames, Trace, CalleeFirst
  <1>3. Len(frames) \in Nat /\ pos \in 1 .. Len(frames) /\ pos + 1 \in 1 .. Len(frames) + 1 /\ (pos + 1) - 1 = pos
    <2>1. Len(frames) \in Nat
      BY <1>1, CalleeFirstIs
    <2>2. pos <= Len(frames)
      BY <1>2 DEF MapFrame
    <2> HIDE DEF frames
    <2> QED
      BY <1>1, <1>2, <2>1, <2>2
  <1>4. Fitting(ms, frames)
    BY <1>1, MappersFit
  <1>5. AnswersTo(ms, frames, exception, pos, answers)
    <2>1. answers = [k \in DOMAIN ms |-> MapFrameWith(ms[k], frames[pos], HowToAsk(ms, frames[pos], jvm.carried[k]),
                                                      MapClass(ms, exception), jvm.rewrite)]
      BY <1>2 DEF Answers
    <2>2. RulesApply(ms, frames, exception, pos - 1, jvm.rewrite) /\ PositionsCarried(ms, frames, pos, jvm.carried)
      BY <1>1, <1>2
    <2> HIDE DEF frames, answers, exception, ms
    <2> QED
      BY <1>3, <1>4, <2>1, <2>2, AnswersAre
  <1>6. /\ AccountsFor(ms, frames, exception, pos - 1, jvm.out[i])
        /\ RulesApply(ms, frames, exception, pos - 1, jvm.rewrite)
        /\ PositionsCarried(ms, frames, pos, jvm.carried)
    BY <1>1, <1>2 DEF Through
  <1> DEFINE used == FirstAnswer(answers)
             carried == [k \in DOMAIN ms |-> IF used # 0 /\ k > used THEN jvm.carried[k]
                                             ELSE IF answers[k].kind = "outline" THEN frames[pos].line ELSE NoLine]
  <1>7. jvm' = [jvm EXCEPT !.pos = pos + 1, !.rewrite = RewriteAfter(kind, jvm.rewrite), !.carried = carried,
                           !.out = [jvm.out EXCEPT ![i] = new]]
    BY <1>2 DEF MapFrame
  <1> HIDE DEF answers, kind, new, frames, used, carried
  <1>8. /\ AccountsFor(ms, frames, exception, pos, new)
        /\ RulesApply(ms, frames, exception, pos, RewriteAfter(kind, jvm.rewrite))
        /\ PositionsCarried(ms, frames, pos + 1, carried)
    <2>1. AccountsFor(ms, frames, exception, pos, new)
      BY <1>3, <1>4, <1>5, <1>6, AccountsForNext DEF new
    <2>2. RulesApply(ms, frames, exception, pos, RewriteAfter(kind, jvm.rewrite))
      BY <1>3, <1>4, <1>5, <1>6, RulesApplyToNext DEF kind
    <2>3. PositionsCarried(ms, frames, pos + 1, carried)
      BY <1>3, <1>4, <1>5, <1>6, PositionsCarriedToNext DEF carried, used
    <2> QED
      BY <2>1, <2>2, <2>3
  <1>9. /\ jvm' = [x \in JvmFields |-> jvm'[x]]
        /\ jvm'.request = r /\ jvm'.fetched = jvm.fetched /\ jvm'.mappers = ms /\ jvm'.pc = "map"
        /\ jvm'.trace = i /\ jvm'.pos = pos + 1
        /\ jvm'.rewrite = RewriteAfter(kind, jvm.rewrite) /\ jvm'.carried = carried
        /\ jvm'.out = [jvm.out EXCEPT ![i] = new]
    BY <1>1, <1>7 DEF JvmFields
  <1>10. /\ jvm'.out \in Seq(Range(jvm'.out)) /\ Len(jvm'.out) = i
         /\ jvm'.out[i] = new /\ \A t \in 1 .. i - 1 : jvm'.out[t] = jvm.out[t]
    <2> DEFINE old == jvm.out
               out == jvm'.out
    <2>1. old \in Seq(Range(old)) /\ Len(old) = i /\ out = [old EXCEPT ![i] = new] /\ i \in 1 .. Len(r.traces)
      BY <1>1, <1>9
    <2>2. Len(r.traces) \in Nat
      BY <1>1, JvmRequestsAssumption
    <2> HIDE DEF old, out, r
    <2>3. i \in Nat /\ i \in 1 .. i /\ \A t \in 1 .. i - 1 : t \in 1 .. i /\ t # i
      BY <2>1, <2>2
    <2> HIDE DEF i
    <2>4. DOMAIN old = 1 .. i
      BY <2>1, LenProperties
    <2>5. DOMAIN out = 1 .. i /\ Len(out) = i /\ out = [k \in 1 .. i |-> out[k]]
      <3>1. out = [old EXCEPT ![i] = new]
        BY <2>1
      <3>2. DOMAIN out = 1 .. i
        BY <2>4, <3>1
      <3>3. out = [k \in 1 .. i |-> out[k]]
        BY <2>4, <3>1
      <3>4. Len(out) = i
        BY <2>3, <3>2, <3>3
      <3> QED
        BY <3>2, <3>3, <3>4
    <2>6. \A k \in 1 .. i : out[k] \in Range(out)
      BY <2>5 DEF Range
    <2>7. out \in Seq(Range(out))
      BY <2>3, <2>5, <2>6, IsASeq
    <2>8. out[i] = new /\ \A t \in 1 .. i : t # i => out[t] = old[t]
      <3>1. i \in DOMAIN old
        BY <2>3, <2>4, Zenon
      <3>2. out = [old EXCEPT ![i] = new]
        BY <2>1, Zenon
      <3>3. out[i] = new
        BY <3>1, <3>2
      <3>4. ASSUME NEW t \in 1 .. i, t # i PROVE out[t] = old[t]
        <4>1. t \in DOMAIN old
          BY <2>4, Zenon
        <4> QED
          BY <3>2, <3>4, <4>1
      <3> QED
        BY <3>3, <3>4, Zenon
    <2>9. \A t \in 1 .. i - 1 : out[t] = old[t]
      BY <2>3, <2>8, Zenon
    <2> QED
      BY <2>5, <2>7, <2>8, <2>9, Zenon DEF out, old, i
  <1>11. \A t \in 1 .. i - 1 : Finished(t)'
    BY <1>1, <1>9, <1>10, ThroughKept
  <1>12. (Frames = frames)' /\ frames' = frames /\ (Trace.exception)' = exception
    BY <1>9 DEF frames, Frames, Trace, CalleeFirst
  <1>13. Through(jvm.trace, jvm.pos - 1)'
    <2>1. jvm'.trace = i /\ jvm'.pos - 1 = pos /\ jvm'.out[i] = new /\ jvm'.mappers = ms
          /\ CalleeFirst(jvm'.request, i) = frames /\ jvm'.request.traces[i].exception = exception
      BY <1>3, <1>9, <1>10 DEF frames
    <2> QED
      BY <1>8, <2>1, Zenon DEF Through
  <1>14. RulesApply(jvm.mappers, Frames, Trace.exception, jvm.pos - 1, jvm.rewrite)'
    <2>1. jvm'.pos - 1 = pos /\ Frames' = frames /\ (Trace.exception)' = exception
      BY <1>3, <1>9, <1>12
    <2> QED
      BY <1>8, <1>9, <2>1, Zenon DEF RulesApply
  <1>17. PositionsCarried(jvm.mappers, Frames, jvm.pos, jvm.carried)'
    <2>1. jvm'.pos = pos + 1 /\ Frames' = frames /\ jvm'.carried = carried /\ jvm'.mappers = ms
      BY <1>9, <1>12
    <2> QED
      BY <1>8, <2>1, Zenon DEF PositionsCarried
  <1>15. jvm'.mappers = Mappers'
    BY <1>1, <1>9, MappersKept
  <1>16. /\ jvm'.trace \in 1 .. Len(jvm'.request.traces) /\ Len(jvm'.out) = jvm'.trace
         /\ (jvm.pos \in 1 .. Len(Frames) + 1)'
         /\ \A t \in 1 .. jvm'.trace - 1 : Finished(t)'
         /\ Through(jvm.trace, jvm.pos - 1)'
         /\ RulesApply(jvm.mappers, Frames, Trace.exception, jvm.pos - 1, jvm.rewrite)'
         /\ PositionsCarried(jvm.mappers, Frames, jvm.pos, jvm.carried)'
    <2>1. Frames' = frames
      BY <1>12
    <2>2. (jvm.pos \in 1 .. Len(Frames) + 1)'
      BY <1>3, <1>9, <2>1
    <2> QED
      BY <1>1, <1>9, <1>10, <1>11, <1>13, <1>14, <1>17, <2>2
  <1> QED
    BY <1>1, <1>9, <1>10, <1>15, <1>16 DEF JvmInv

LEMMA StartMappingJvmInv ==
    ASSUME JvmInv, StartMapping
    PROVE  JvmInv'
  <1>1. /\ jvm = [x \in JvmFields |-> jvm[x]] /\ jvm.request \in JvmRequests /\ jvm.pc = "fetch"
        /\ jvm.out \in Seq(Range(jvm.out)) /\ Len(jvm.out) = 0
    BY DEF JvmInv, StartMapping
  <1>2. jvm' = StartTrace(1, Mappers)
    BY DEF StartMapping
  <1>3. 1 \in Nat \ {0} /\ 0 = 1 - 1 /\ 1 <= Len(jvm.request.traces) + 1 /\ \A t : t \notin 1 .. 1 - 1
    BY <1>1, JvmRequestsAssumption
  <1> QED
    BY <1>1, <1>2, <1>3, StartTraceJvmInv

LEMMA NextTraceJvmInv ==
    ASSUME JvmInv, NextTrace
    PROVE  JvmInv'
  <1> DEFINE i == jvm.trace
             frames == CalleeFirst(jvm.request, i)
  <1>1. /\ jvm = [x \in JvmFields |-> jvm[x]] /\ jvm.request \in JvmRequests /\ jvm.pc = "map"
        /\ jvm.mappers = Mappers /\ jvm.out \in Seq(Range(jvm.out))
        /\ i \in 1 .. Len(jvm.request.traces) /\ Len(jvm.out) = i
        /\ jvm.pos \in 1 .. Len(Frames) + 1
        /\ \A t \in 1 .. i - 1 : Finished(t)
        /\ Through(i, jvm.pos - 1)
    BY DEF JvmInv, NextTrace
  <1>2. Frames = frames /\ Len(frames) \in Nat /\ Len(jvm.request.traces) \in Nat
    <2>1. Frames = frames
      BY DEF Frames, Trace, CalleeFirst
    <2>2. Len(frames) \in Nat
      BY <1>1, CalleeFirstIs
    <2>3. Len(jvm.request.traces) \in Nat
      BY <1>1, JvmRequestsAssumption
    <2> QED
      BY <2>1, <2>2, <2>3
  <1>3. jvm.pos - 1 = Len(frames)
    <2>1. jvm.pos > Len(frames) /\ jvm.pos \in 1 .. Len(frames) + 1
      BY <1>1, <1>2 DEF NextTrace
    <2> HIDE DEF frames
    <2> QED
      BY <1>2, <2>1
  <1>4. Finished(i)
    BY <1>1, <1>3 DEF Finished
  <1>5. i \in Nat /\ i + 1 \in Nat \ {0} /\ (i + 1) - 1 = i /\ i + 1 <= Len(jvm.request.traces) + 1
    BY <1>1, <1>2
  <1>6. \A t \in 1 .. (i + 1) - 1 : t \in 1 .. i - 1 \/ t = i
    BY <1>5
  <1>7. \A t \in 1 .. (i + 1) - 1 : jvm.mappers = Mappers /\ Finished(t)
    BY <1>1, <1>4, <1>6, Zenon
  <1>8. jvm' = StartTrace(i + 1, Mappers) /\ jvm.pc # "done"
    BY <1>1 DEF NextTrace
  <1> HIDE DEF i
  <1> QED
    BY <1>1, <1>5, <1>7, <1>8, StartTraceJvmInv

\* The context of a frame does not matter.
LEMMA AccountsAlike ==
    ASSUME NEW ms, NEW frames, NEW exception, NEW n, NEW got, AccountsFor(ms, frames, exception, n, got),
           NEW new, new = [k \in DOMAIN got |-> new[k]],
           \A k \in DOMAIN got : /\ DOMAIN new[k] = DOMAIN got[k]
                                 /\ "of" \in DOMAIN got[k] => new[k].of = got[k].of
                                 /\ "by" \in DOMAIN got[k] => new[k].by = got[k].by
                                 /\ "name" \in DOMAIN got[k] => new[k].name = got[k].name
                                 /\ "line" \in DOMAIN got[k] => new[k].line = got[k].line
    PROVE  AccountsFor(ms, frames, exception, n, new)
  <1>1. /\ got \in Seq(Range(got))
        /\ \A k \in 1 .. Len(got) : /\ {"of", "by", "name", "line"} \subseteq DOMAIN got[k]
                                    /\ got[k].of \in 1 .. n
        /\ \A k \in 1 .. Len(got) - 1 : got[k].of <= got[k + 1].of
        /\ \A i \in 1 .. n : StandsIn(got, i, Responsible(ms, frames[i]), Meaning(ms, frames, exception, i))
    BY DEF AccountsFor
  <1>2. DOMAIN got = 1 .. Len(got) /\ Len(got) \in Nat
    BY <1>1, LenProperties
  <1>3. /\ DOMAIN new = 1 .. Len(got) /\ Len(new) = Len(got) /\ new = [k \in 1 .. Len(got) |-> new[k]]
    <2>1. DOMAIN new = 1 .. Len(got) /\ new = [k \in 1 .. Len(got) |-> new[k]]
      BY <1>2
    <2> QED
      BY <1>2, <2>1
  <1>4. new \in Seq(Range(new))
    <2>1. \A k \in 1 .. Len(got) : new[k] \in Range(new)
      BY <1>3 DEF Range
    <2> QED
      BY <1>2, <1>3, <2>1, IsASeq
  <1>5. \A k \in 1 .. Len(got) :
           /\ {"of", "by", "name", "line"} \subseteq DOMAIN new[k]
           /\ new[k].of = got[k].of /\ new[k].by = got[k].by /\ new[k].name = got[k].name /\ new[k].line = got[k].line
    <2>1. \A k \in 1 .. Len(got) : /\ "of" \in DOMAIN got[k] /\ "by" \in DOMAIN got[k]
                                   /\ "name" \in DOMAIN got[k] /\ "line" \in DOMAIN got[k]
      BY <1>1
    <2> QED
      BY <1>1, <1>2, <2>1
  <1>6. \A k \in 1 .. Len(got) - 1 : k \in 1 .. Len(got) /\ k + 1 \in 1 .. Len(got)
    BY <1>2
  <1>7. \A k \in 1 .. Len(got) - 1 : new[k].of <= new[k + 1].of
    BY <1>1, <1>5, <1>6
  <1>8. ASSUME NEW i, NEW by, NEW meaning, StandsIn(got, i, by, meaning) PROVE StandsIn(new, i, by, meaning)
    <2>1. PICK before \in 0 .. Len(got) - Len(meaning) : \A k \in DOMAIN got :
             /\ got[k].of = i <=> k \in before + 1 .. before + Len(meaning)
             /\ got[k].of = i => /\ got[k].by = by
                                 /\ got[k].name = meaning[k - before].name
                                 /\ got[k].line = meaning[k - before].line
      BY <1>8, Zenon DEF StandsIn
    <2>2. before \in 0 .. Len(new) - Len(meaning)
      BY <1>3
    <2>3. \A k \in DOMAIN new :
             /\ new[k].of = i <=> k \in before + 1 .. before + Len(meaning)
             /\ new[k].of = i => /\ new[k].by = by
                                 /\ new[k].name = meaning[k - before].name
                                 /\ new[k].line = meaning[k - before].line
      BY <1>2, <1>3, <1>5, <2>1
    <2> QED
      BY <2>2, <2>3, Zenon DEF StandsIn
  <1>9. \A i \in 1 .. n : StandsIn(new, i, Responsible(ms, frames[i]), Meaning(ms, frames, exception, i))
    BY <1>1, <1>8
  <1> QED
    BY <1>1, <1>3, <1>4, <1>5, <1>7, <1>9 DEF AccountsFor

LEMMA JvmRespondJvmInv ==
    ASSUME JvmInv, JvmRespond
    PROVE  JvmInv'
  <1> DEFINE r == jvm.request
             n == Len(r.traces)
             old == jvm.out
             Context(f) == SourceContext(f)
             New(t) == [k \in DOMAIN old[t] |-> [old[t][k] EXCEPT !.context = SourceContext(old[t][k])]]
             Ordered(s) == IF r.callerFirst THEN Reverse(s) ELSE s
             Class(t) == MapClass(jvm.mappers, r.traces[t].exception)
  <1>1. /\ jvm = [x \in JvmFields |-> jvm[x]] /\ r \in JvmRequests /\ jvm.pc = "respond"
        /\ jvm.mappers = Mappers /\ old \in Seq(Range(old)) /\ Len(old) = n
        /\ \A t \in 1 .. n : Finished(t)
    BY DEF JvmInv, JvmRespond
  <1>2. jvm' = [jvm EXCEPT !.pc = "done",
                  !.out = [t \in DOMAIN old |-> [exception |-> Class(t), frames |-> Ordered(New(t))]]]
    BY DEF JvmRespond
  <1>3. DOMAIN old = 1 .. n
    <2> HIDE DEF old, n
    <2> QED
      BY <1>1, LenProperties
  <1>4. ASSUME NEW t \in 1 .. n
        PROVE  AccountsFor(jvm.mappers, CalleeFirst(r, t), r.traces[t].exception, Len(CalleeFirst(r, t)), New(t))
    <2> DEFINE got == old[t]
               new == New(t)
    <2>1. AccountsFor(jvm.mappers, CalleeFirst(r, t), r.traces[t].exception, Len(CalleeFirst(r, t)), got)
      BY <1>1 DEF Finished, Through
    <2>2. new = [k \in DOMAIN got |-> [got[k] EXCEPT !.context = SourceContext(got[k])]]
      OBVIOUS
    <2> HIDE DEF new, got
    <2>3. \A k \in DOMAIN got : /\ DOMAIN new[k] = DOMAIN got[k]
                                /\ "of" \in DOMAIN got[k] => new[k].of = got[k].of
                                /\ "by" \in DOMAIN got[k] => new[k].by = got[k].by
                                /\ "name" \in DOMAIN got[k] => new[k].name = got[k].name
                                /\ "line" \in DOMAIN got[k] => new[k].line = got[k].line
      BY <2>2
    <2>4. new = [k \in DOMAIN got |-> new[k]]
      BY <2>2
    <2> HIDE DEF n, old, New
    <2>5. AccountsFor(jvm.mappers, CalleeFirst(r, t), r.traces[t].exception, Len(CalleeFirst(r, t)), new)
      BY <2>1, <2>3, <2>4, AccountsAlike
    <2> QED
      BY <2>5 DEF new
  <1> HIDE DEF New
  <1>5. /\ jvm' = [x \in JvmFields |-> jvm'[x]]
        /\ jvm'.pc = "done" /\ jvm'.request = r /\ jvm'.fetched = jvm.fetched /\ jvm'.mappers = jvm.mappers
        /\ jvm'.out = [t \in 1 .. n |-> [exception |-> Class(t), frames |-> Ordered(New(t))]]
    <2> HIDE DEF Ordered, Class
    <2> QED
      BY <1>1, <1>2, <1>3 DEF JvmFields
  <1>6. jvm'.mappers = Mappers'
    BY <1>1, <1>5, MappersKept
  <1>7. ASSUME NEW t \in 1 .. n
        PROVE AccountsFor(Mappers, CalleeFirst(r, t), r.traces[t].exception, Len(CalleeFirst(r, t)), JvmAnswered(t)')
    <2>1. jvm'.out[t].frames = Ordered(New(t))
      <3> HIDE DEF Ordered, Class
      <3> QED
        BY <1>5
    <2>2. New(t) \in Seq(Range(New(t)))
      BY <1>4 DEF AccountsFor
    <2>3. Reverse(Reverse(New(t))) = New(t)
      BY <2>2, ReverseIs
    <2>4. JvmAnswered(t)' = New(t)
      BY <1>5, <2>1, <2>3 DEF JvmAnswered
    <2> HIDE DEF n
    <2> QED
      BY <1>1, <1>4, <2>4
  <1>8. JvmFramesAccounted'
    <2>1. (jvm.request \in JvmRequests)' /\ (DOMAIN jvm.out = 1 .. Len(jvm.request.traces))'
      BY <1>1, <1>5
    <2>2. (\A t \in DOMAIN jvm.out :
              AccountsFor(Mappers, CalleeFirst(jvm.request, t), jvm.request.traces[t].exception,
                       Len(CalleeFirst(jvm.request, t)), JvmAnswered(t)))'
      <3>1. Mappers' = Mappers /\ (DOMAIN jvm.out)' = 1 .. n
        BY <1>1, <1>5, <1>6
      <3> SUFFICES ASSUME NEW t \in 1 .. n
                   PROVE  AccountsFor(Mappers', CalleeFirst(jvm'.request, t), jvm'.request.traces[t].exception,
                                   Len(CalleeFirst(jvm'.request, t)), JvmAnswered(t)')
        BY <3>1 DEF CalleeFirst
      <3> QED
        BY <1>5, <1>7, <3>1
    <2>3. AllAnswered'
      BY <2>1, <2>2 DEF AllAnswered
    <2>4. AllAnswered' => JvmFramesAccounted'
      BY AccountedWhen, PTL
    <2> QED
      BY <2>3, <2>4
  <1> QED
    BY <1>1, <1>5, <1>6, <1>8 DEF JvmInv

LEMMA JvmStutter ==
    ASSUME JvmInv, UNCHANGED jvm
    PROVE  JvmInv'
  <1>1. Mappers' = Mappers /\ Frames' = Frames /\ Trace' = Trace
    BY MappersKept DEF Frames, Trace
  <1>2. \A t, n : (Through(t, n)' <=> Through(t, n)) /\ (Finished(t)' <=> Finished(t))
    BY ThroughKept
  <1>3. JvmFramesAccounted' <=> JvmFramesAccounted
    <2>1. Errors' = Errors
      BY DEF Errors
    <2> QED
      BY <1>1, <2>1 DEF JvmFramesAccounted
  <1> QED
    BY <1>1, <1>2, <1>3 DEF JvmInv

\* JvmInv holds of what the service does with an event.
LEMMA JvmServed == JvmSpec => []JvmInv
  <1>1. JvmInit => JvmInv
    BY InitJvmInv
  <1>2. JvmInv /\ [JvmNext]_jvm => JvmInv'
    BY FetchModuleJvmInv, StartMappingJvmInv, MapFrameJvmInv, NextTraceJvmInv, JvmRespondJvmInv, JvmStutter
    DEF JvmNext
  <1> QED
    BY <1>1, <1>2, PTL DEF JvmSpec

\* Whatever mapping files an event has, whichever of them arrive and in what
\* order, every frame of a stack trace is answered with all that it stands for
\* in the first file that knows its class, once, in the order the frames were
\* sent; with nothing if it is an outline, if everything it stands for was
\* synthesized, or if it is the first that is no outline and a rule for the
\* exception removes it (map_stacktrace).
THEOREM JvmFramesKept == JvmSpec => []JvmFramesAccounted
  <1>1. JvmInv => JvmFramesAccounted
    <2> SUFFICES ASSUME JvmInv PROVE JvmFramesAccounted
      OBVIOUS
    <2>1. CASE jvm.pc = "done"
      BY <2>1 DEF JvmInv
    <2>2. CASE jvm.pc # "done"
      BY <2>2 DEF JvmFramesAccounted
    <2> QED
      BY <2>1, <2>2
  <1> QED
    BY <1>1, JvmServed, PTL

-----------------------------------------------------------------------------
(* Sorted files *)

SorterFields == {"pc", "job", "inputs", "tasks", "bucket", "metas", "ids", "candidates", "faulty"}

BundlePath(id) == <<Id(id), Word("sourcebundle")>>

Stored(p) == p \in DOMAIN sorter.bucket /\ sorter.bucket[p].complete

\* A task is beyond the place of an object.
Passed(t, place) ==
    \/ place[1] < Task(t).entry
    \/ place[1] = Task(t).entry /\ (place[2] < Task(t).obj \/ Task(t).at = "done")

\* What a task has so far is stored and comes from the entry it is at.
TaskFits(t) ==
    /\ Task(t).entry \in Nat \ {0} /\ Task(t).obj \in Nat \ {0} /\ Task(t).rv \in Seq(Range(Task(t).rv))
    /\ Task(t).at = "create" =>
          /\ HasEntry(t) /\ Entry(t) # Unset /\ Task(t).obj \in 1 .. Len(Entry(t))
          /\ Object(t).kind \in Accepted /\ TargetFilename(Object(t)) # <<>>
          /\ TargetFilename(Object(t)) \in DOMAIN sorter.metas
    /\ \A o \in Range(Task(t).rv) :
          /\ TargetFilename(o) # <<>> /\ Stored(TargetFilename(o))
          /\ HasEntry(t) /\ Entry(t) # Unset /\ o \in Range(Entry(t))
    /\ Task(t).at = "done" => Task(t).rv = <<>> \/ LostIds(t)

\* A stored file comes from an object of its input that has been passed, and
\* its id is listed, or will be, or is lost.
FileFits(p) ==
    LET t == sorter.bucket[p].input IN
    /\ t \in DOMAIN sorter.inputs /\ p \in DOMAIN sorter.metas /\ p # <<>>
    /\ sorter.bucket[p].obj.kind \in Accepted
    /\ \E place \in Places(t, p) :
          Passed(t, place) /\ sorter.bucket[p].obj = Input(t).entries[place[1]][place[2]]
    /\ Stored(p) => \/ p[1][1] \in sorter.ids \/ LostIds(t)
                    \/ \E o \in Range(Task(t).rv) : UnifiedId(o) = p[1][1]

\* A path is described by an input with an object for it, if no write failed.
Described(p) ==
    sorter.metas[p] \in Rivals(p) \/ (sorter.metas[p] = Torn /\ Rivals(p) \cap sorter.faulty # {})

\* The file of a candidate has a debug file, hence no PE file.
CandidateFits(id) ==
    LET t == sorter.candidates[id] IN
    IF t = NoBundle THEN BundlePath(id) \in DOMAIN sorter.bucket
    ELSE /\ t \in DOMAIN sorter.inputs /\ ~Input(t).zip /\ id # Unset
         /\ Input(t).entries[1] # Unset /\ \E o \in Range(Input(t).entries[1]) : o.kind = "debug"

Waiting(t) == Task(t).entry = 1 /\ Task(t).obj = 1 /\ Task(t).at \in {"object", "create"}

IsBundleOf(input, id) ==
    \E b : /\ input.zip = FALSE /\ input.entries = <<<<b>>>> /\ <<b>> # Unset
           /\ b.kind = "sources" /\ TargetFilename(b) = BundlePath(id)

\* A source bundle is stored unless its task has just begun.
BundleFits(id) ==
    /\ <<"bundle", id>> \in DOMAIN sorter.inputs /\ IsBundleOf(Input(<<"bundle", id>>), id)
    /\ Waiting(<<"bundle", id>>) \/ BundlePath(id) \in DOMAIN sorter.bucket

SorterInv ==
    /\ sorter = [x \in SorterFields |-> sorter[x]]
    /\ sorter.pc \in {"sort", "bundles", "done", "failed"}
    /\ sorter.pc # "failed" =>
          /\ \A t \in DOMAIN sorter.inputs : IsInput(Input(t))
          /\ DOMAIN sorter.tasks = DOMAIN sorter.inputs
          /\ \A t \in DOMAIN sorter.tasks : TaskFits(t)
          /\ \A p \in DOMAIN sorter.bucket : FileFits(p)
          /\ \A p \in DOMAIN sorter.metas : Described(p)
          /\ \A id \in sorter.ids : \E p \in DOMAIN sorter.bucket : Stored(p) /\ p[1] = Id(id)
          /\ \A id \in DOMAIN sorter.candidates : CandidateFits(id)
    /\ sorter.pc = "sort" => \A t \in DOMAIN sorter.inputs : t = <<"file", t[2]>>
    /\ sorter.pc \in {"bundles", "done"} => \A id \in Bundled : BundleFits(id)
    /\ sorter.pc = "done" => AllDone

LEMMA FilenameIs ==
    ASSUME NEW o, TargetFilename(o) # <<>>
    PROVE  /\ UnifiedId(o) # Unset /\ TargetSuffix(o) # "none"
           /\ TargetFilename(o) = <<Id(UnifiedId(o)), Word(TargetSuffix(o))>>
           /\ TargetFilename(o)[1] = Id(UnifiedId(o)) /\ TargetFilename(o)[1][1] = UnifiedId(o)
           /\ TargetFilename(o)[2] = Word(TargetSuffix(o))
  <1>1. /\ UnifiedId(o) # Unset /\ TargetSuffix(o) # "none"
        /\ TargetFilename(o) = <<Id(UnifiedId(o)), Word(TargetSuffix(o))>>
    BY DEF TargetFilename
  <1> QED
    BY <1>1 DEF Id

\* An object lies at a place.
LEMMA PlaceIs ==
    ASSUME NEW t, NEW p, NEW e, NEW o
    PROVE  <<e, o>> \in Places(t, p) <=>
              /\ e \in DOMAIN Input(t).entries /\ Input(t).entries[e] # Unset
              /\ o \in DOMAIN Input(t).entries[e] /\ TargetFilename(Input(t).entries[e][o]) = p
  <1> DEFINE entries == sorter.inputs[t].entries
             Whole == {f \in DOMAIN entries : entries[f] # Unset}
             Matching(f) == {x \in DOMAIN entries[f] : TargetFilename(entries[f][x]) = p}
  <1>1. Places(t, p) = UNION {{<<f, x>> : x \in Matching(f)} : f \in Whole}
    BY DEF Places
  <1>2. <<e, o>> \in Places(t, p) <=> e \in Whole /\ o \in Matching(e)
    <2> HIDE DEF Whole, Matching
    <2>1. ASSUME <<e, o>> \in Places(t, p) PROVE e \in Whole /\ o \in Matching(e)
      <3>1. PICK f \in Whole : <<e, o>> \in {<<f, x>> : x \in Matching(f)}
        BY <1>1, <2>1
      <3>2. PICK x \in Matching(f) : <<e, o>> = <<f, x>>
        BY <3>1
      <3> QED
        BY <3>2
    <2> QED
      BY <1>1, <2>1
  <1> QED
    BY <1>2 DEF Input

LEMMA PlacesAre ==
    ASSUME NEW t, NEW p, NEW place \in Places(t, p)
    PROVE  place = <<place[1], place[2]>>
  <1> DEFINE entries == sorter.inputs[t].entries
             Whole == {f \in DOMAIN entries : entries[f] # Unset}
             Matching(f) == {x \in DOMAIN entries[f] : TargetFilename(entries[f][x]) = p}
  <1>1. Places(t, p) = UNION {{<<f, x>> : x \in Matching(f)} : f \in Whole}
    BY DEF Places
  <1>2. PICK f, x : place = <<f, x>>
    BY <1>1, Zenon
  <1> QED
    BY <1>2

\* The object a task is at
LEMMA AtPlace ==
    ASSUME NEW t, IsInput(Input(t)), Task(t).entry \in Nat \ {0},
           HasEntry(t), Entry(t) # Unset, Task(t).obj \in 1 .. Len(Entry(t))
    PROVE  /\ Entry(t) \in Range(Input(t).entries) /\ Entry(t) \in Seq(Range(Entry(t)))
           /\ Object(t) \in Range(Entry(t)) /\ IsObject(Object(t))
           /\ <<Task(t).entry, Task(t).obj>> \in Places(t, TargetFilename(Object(t)))
  <1>1. Task(t).entry \in 1 .. Len(Input(t).entries) /\ 1 .. Len(Input(t).entries) = DOMAIN Input(t).entries
    BY DEF IsInput, HasEntry
  <1>2. Entry(t) \in Range(Input(t).entries)
    BY <1>1 DEF Entry, Range
  <1>3. Entry(t) \in Seq(Range(Entry(t))) /\ \A o \in Range(Entry(t)) : IsObject(o)
    BY <1>2 DEF IsInput
  <1>4. Task(t).obj \in DOMAIN Entry(t)
    BY <1>3
  <1>5. Object(t) \in Range(Entry(t))
    BY <1>4 DEF Object, Range
  <1> QED
    BY <1>1, <1>2, <1>3, <1>4, <1>5, PlaceIs DEF Object, Entry

-----------------------------------------------------------------------------
(* What a step of a task leaves as it is *)

Grows ==
    /\ sorter'.inputs = sorter.inputs
    /\ \A p \in DOMAIN sorter.bucket : p \in DOMAIN sorter'.bucket /\ sorter'.bucket[p] = sorter.bucket[p]
    /\ sorter.ids \subseteq sorter'.ids /\ DOMAIN sorter.metas \subseteq DOMAIN sorter'.metas
    /\ sorter.faulty \subseteq sorter'.faulty

LEMMA SamePlaces ==
    ASSUME sorter'.inputs = sorter.inputs, NEW t
    PROVE  /\ Input(t)' = Input(t)
           /\ \A p : Places(t, p)' = Places(t, p) /\ Rivals(p)' = Rivals(p)
  BY DEF Input, Places, Rivals

LEMMA LostKept ==
    ASSUME Grows, NEW t, LostIds(t)
    PROVE  LostIds(t)'
  <1>1. CASE t \in sorter.faulty
    BY <1>1 DEF LostIds, Grows
  <1>2. CASE \E p \in DOMAIN sorter.bucket :
                t \in Rivals(p) /\ (sorter.bucket[p].input # t \/ \E a, b \in Places(t, p) : a # b)
    <2>1. PICK p \in DOMAIN sorter.bucket :
             t \in Rivals(p) /\ (sorter.bucket[p].input # t \/ \E a, b \in Places(t, p) : a # b)
      BY <1>2
    <2>2. p \in DOMAIN sorter'.bucket /\ sorter'.bucket[p] = sorter.bucket[p]
      BY DEF Grows
    <2>3. Rivals(p)' = Rivals(p) /\ Places(t, p)' = Places(t, p)
      BY SamePlaces DEF Grows
    <2> QED
      BY <2>1, <2>2, <2>3 DEF LostIds
  <1> QED
    BY <1>1, <1>2 DEF LostIds

LEMMA DescribedKept ==
    ASSUME Grows, NEW p, Described(p), sorter'.metas[p] = sorter.metas[p]
    PROVE  Described(p)'
  <1>1. Rivals(p)' = Rivals(p)
    BY SamePlaces DEF Grows
  <1> QED
    BY <1>1 DEF Described, Grows

\* The other tasks go on from where they are.
LEMMA OtherTaskFits ==
    ASSUME Grows, NEW t, TaskFits(t), sorter'.tasks[t] = sorter.tasks[t]
    PROVE  TaskFits(t)'
  <1>1. Task(t)' = Task(t) /\ Input(t)' = Input(t)
    BY SamePlaces DEF Grows, Task
  <1>2. /\ HasEntry(t)' <=> HasEntry(t)
        /\ Entry(t)' = Entry(t) /\ Object(t)' = Object(t)
    BY <1>1 DEF HasEntry, Entry, Object
  <1>3. \A p : Stored(p) => Stored(p)'
    BY DEF Stored, Grows
  <1>4. LostIds(t) => LostIds(t)'
    BY LostKept
  <1>5. DOMAIN sorter.metas \subseteq DOMAIN sorter'.metas
    BY DEF Grows
  <1> QED
    BY <1>1, <1>2, <1>3, <1>4, <1>5 DEF TaskFits

\* Only the task that makes a step changes.
Steps(t) ==
    /\ sorter'.pc = sorter.pc /\ sorter' = [x \in SorterFields |-> sorter'[x]]
    /\ Grows /\ DOMAIN sorter'.tasks = DOMAIN sorter.tasks
    /\ \A u \in DOMAIN sorter.tasks : u # t => sorter'.tasks[u] = sorter.tasks[u]

\* A task passes objects, and it keeps what it has, lists it or loses it.
Proceeds(t) ==
    /\ Task(t).at # "done" /\ TaskFits(t)'
    /\ \/ Task(t)'.entry = Task(t).entry /\ Task(t)'.obj >= Task(t).obj
       \/ Task(t)'.entry = Task(t).entry + 1
    /\ \A o \in Range(Task(t).rv) : UnifiedId(o) \in sorter'.ids \/ o \in Range(Task(t)'.rv) \/ LostIds(t)'

LEMMA FileKept ==
    ASSUME SorterInv, sorter.pc # "failed", NEW t \in DOMAIN sorter.tasks, Steps(t), Proceeds(t),
           NEW p \in DOMAIN sorter.bucket, NEW u, u = sorter.bucket[p].input
    PROVE  FileFits(p)'
  <1>1. /\ p \in DOMAIN sorter'.bucket /\ sorter'.bucket[p] = sorter.bucket[p] /\ Input(u)' = Input(u)
        /\ sorter'.inputs = sorter.inputs /\ sorter.ids \subseteq sorter'.ids /\ DOMAIN sorter.metas \subseteq DOMAIN sorter'.metas
    BY SamePlaces DEF Steps, Grows
  <1>2. FileFits(p) /\ TaskFits(t) /\ DOMAIN sorter.tasks = DOMAIN sorter.inputs
    BY DEF SorterInv
  <1>3. u \in DOMAIN sorter.inputs /\ (u # t => Task(u)' = Task(u))
    BY <1>2 DEF FileFits, Steps, Task
  <1>4. PICK place \in Places(u, p) :
          Passed(u, place) /\ sorter.bucket[p].obj = Input(u).entries[place[1]][place[2]]
    BY <1>2 DEF FileFits
  <1>5. place[1] \in Nat /\ place[2] \in Nat
    <2>1. IsInput(Input(u))
      BY <1>3 DEF SorterInv
    <2>2. <<place[1], place[2]>> \in Places(u, p)
      BY <1>4, PlacesAre
    <2>3. /\ place[1] \in DOMAIN Input(u).entries /\ Input(u).entries[place[1]] # Unset
          /\ place[2] \in DOMAIN Input(u).entries[place[1]]
      BY <2>2, PlaceIs
    <2>4. Input(u).entries[place[1]] \in Range(Input(u).entries) \ {Unset}
      BY <2>3 DEF Range
    <2>5. Input(u).entries[place[1]] \in Seq(Range(Input(u).entries[place[1]]))
      BY <2>1, <2>4 DEF IsInput
    <2> QED
      BY <2>1, <2>3, <2>5 DEF IsInput
  <1>6. Passed(u, place)'
    <2>1. CASE u # t
      BY <1>3, <1>4, <2>1 DEF Passed
    <2>2. CASE u = t
      <3>1. Task(t).entry \in Nat /\ Task(t).obj \in Nat /\ Task(t)'.obj \in Nat /\ Task(t)'.entry \in Nat
        BY <1>2 DEF TaskFits, Proceeds
      <3> QED
        BY <1>4, <1>5, <2>2, <3>1 DEF Passed, Proceeds
    <2> QED
      BY <2>1, <2>2
  <1>7. place \in Places(u, p)'
    BY <1>1, <1>4, SamePlaces
  <1>8. ASSUME Stored(p)'
        PROVE  p[1][1] \in sorter'.ids \/ LostIds(u)' \/ \E o \in Range(Task(u)'.rv) : UnifiedId(o) = p[1][1]
    <2>1. p[1][1] \in sorter.ids \/ LostIds(u) \/ \E o \in Range(Task(u).rv) : UnifiedId(o) = p[1][1]
      BY <1>1, <1>2, <1>8 DEF FileFits, Stored
    <2>2. Grows /\ (LostIds(u) => LostIds(u)')
      BY LostKept DEF Steps
    <2> QED
      BY <1>1, <1>3, <2>1, <2>2 DEF Proceeds
  <1>9. sorter'.bucket[p].input = u /\ sorter'.bucket[p].obj = sorter.bucket[p].obj
    BY <1>1
  <1>10. /\ u \in DOMAIN sorter'.inputs /\ p \in DOMAIN sorter'.metas /\ p # <<>>
         /\ sorter'.bucket[p].obj.kind \in Accepted
    BY <1>1, <1>2, <1>3 DEF FileFits
  <1>11. Input(u)'.entries[place[1]][place[2]] = Input(u).entries[place[1]][place[2]]
    BY <1>1
  <1>12. \E q \in Places(u, p)' : Passed(u, q)' /\ sorter'.bucket[p].obj = Input(u)'.entries[q[1]][q[2]]
    BY <1>4, <1>6, <1>7, <1>9, <1>11
  <1> QED
    BY <1>8, <1>9, <1>10, <1>12 DEF FileFits

LEMMA StepKeeps ==
    ASSUME SorterInv, sorter.pc \in {"sort", "bundles"}, NEW t \in DOMAIN sorter.tasks, Steps(t), Proceeds(t),
           \A p \in DOMAIN sorter'.bucket : p \in DOMAIN sorter.bucket \/ FileFits(p)',
           \A p \in DOMAIN sorter'.metas : Described(p)',
           \A id \in sorter'.ids : id \in sorter.ids \/ \E p \in DOMAIN sorter.bucket : Stored(p) /\ p[1] = Id(id),
           \A id \in DOMAIN sorter'.candidates :
              (id \in DOMAIN sorter.candidates /\ sorter'.candidates[id] = sorter.candidates[id]) \/ CandidateFits(id)',
           sorter.pc = "bundles" => sorter'.candidates = sorter.candidates,
           \A id : t = <<"bundle", id>> /\ IsBundleOf(Input(t), id) /\ Waiting(t)
                   => Waiting(t)' \/ BundlePath(id) \in DOMAIN sorter'.bucket
    PROVE  SorterInv'
  <1>1. /\ Grows /\ sorter'.inputs = sorter.inputs /\ \A u : Input(u)' = Input(u)
        /\ sorter'.pc = sorter.pc /\ sorter' = [x \in SorterFields |-> sorter'[x]]
        /\ DOMAIN sorter'.tasks = DOMAIN sorter.tasks
    BY SamePlaces DEF Steps, Grows
  <1>2. \A p \in DOMAIN sorter.bucket : p \in DOMAIN sorter'.bucket /\ (Stored(p) => Stored(p)')
    BY <1>1 DEF Grows, Stored
  <1>3. \A u \in DOMAIN sorter'.inputs : IsInput(Input(u)')
    BY <1>1 DEF SorterInv
  <1>4. DOMAIN sorter'.tasks = DOMAIN sorter'.inputs
    BY <1>1 DEF SorterInv
  <1>5. ASSUME NEW u \in DOMAIN sorter'.tasks PROVE TaskFits(u)'
    <2>1. CASE u = t
      BY <2>1 DEF Proceeds
    <2>2. CASE u # t
      BY <1>1, <2>2, OtherTaskFits DEF SorterInv, Steps
    <2> QED
      BY <2>1, <2>2
  <1>6. ASSUME NEW p \in DOMAIN sorter'.bucket PROVE FileFits(p)'
    <2>1. \E u : u = sorter.bucket[p].input
      OBVIOUS
    <2> QED
      BY <2>1, FileKept
  <1>7. \A p \in DOMAIN sorter'.metas : Described(p)'
    OBVIOUS
  <1>8. ASSUME NEW id \in sorter'.ids PROVE \E p \in DOMAIN sorter'.bucket : Stored(p)' /\ p[1] = Id(id)
    <2>1. PICK p \in DOMAIN sorter.bucket : Stored(p) /\ p[1] = Id(id)
      BY DEF SorterInv
    <2> QED
      BY <1>2, <2>1
  <1>9. ASSUME NEW id \in DOMAIN sorter'.candidates PROVE CandidateFits(id)'
    <2> SUFFICES ASSUME id \in DOMAIN sorter.candidates, sorter'.candidates[id] = sorter.candidates[id]
                 PROVE  CandidateFits(id)'
      OBVIOUS
    <2>1. CandidateFits(id)
      BY DEF SorterInv
    <2> QED
      BY <1>1, <1>2, <2>1 DEF CandidateFits
  <1>10. sorter'.pc = "sort" => \A u \in DOMAIN sorter'.inputs : u = <<"file", u[2]>>
    BY <1>1 DEF SorterInv
  <1>11. ASSUME sorter'.pc \in {"bundles", "done"}, NEW id \in Bundled' PROVE BundleFits(id)'
    <2> DEFINE b == <<"bundle", id>>
    <2>1. sorter.pc = "bundles" /\ Bundled' = Bundled
      BY <1>1, <1>11 DEF Bundled
    <2>2. /\ b \in DOMAIN sorter.inputs /\ IsBundleOf(Input(b), id)
          /\ Waiting(b) \/ BundlePath(id) \in DOMAIN sorter.bucket
      BY <1>11, <2>1 DEF SorterInv, BundleFits
    <2>3. b \in DOMAIN sorter'.inputs /\ IsBundleOf(Input(b)', id)
      BY <1>1, <2>2
    <2>4. Waiting(b)' \/ BundlePath(id) \in DOMAIN sorter'.bucket
      <3>1. CASE b = t
        BY <1>2, <2>2, <3>1
      <3>2. CASE b # t
        <4>1. Task(b)' = Task(b)
          BY <2>2, <3>2 DEF Steps, Task, SorterInv
        <4> QED
          BY <1>2, <2>2, <4>1 DEF Waiting
      <3> QED
        BY <3>1, <3>2
    <2> QED
      BY <2>3, <2>4 DEF BundleFits
  <1>12. sorter'.pc # "done" /\ sorter'.pc \in {"sort", "bundles", "done", "failed"}
    BY <1>1
  <1> QED
    BY <1>1, <1>3, <1>4, <1>5, <1>6, <1>7, <1>8, <1>9, <1>10, <1>11, <1>12 DEF SorterInv

-----------------------------------------------------------------------------
(* The steps of a task *)

LEMMA WaitingIs ==
    ASSUME NEW t, NEW id, IsBundleOf(Input(t), id), Waiting(t)
    PROVE  /\ HasEntry(t) /\ Entry(t) # Unset /\ Len(Entry(t)) = 1 /\ ~Input(t).zip
           /\ Object(t).kind = "sources" /\ TargetFilename(Object(t)) = BundlePath(id) /\ BundlePath(id) # <<>>
  <1>1. PICK b : /\ Input(t).zip = FALSE /\ Input(t).entries = <<<<b>>>> /\ <<b>> # Unset
                 /\ b.kind = "sources" /\ TargetFilename(b) = BundlePath(id)
    BY DEF IsBundleOf
  <1>2. Task(t).entry = 1 /\ Task(t).obj = 1
    BY DEF Waiting
  <1>3. Len(<<<<b>>>>) = 1 /\ <<<<b>>>>[1] = <<b>> /\ Len(<<b>>) = 1 /\ <<b>>[1] = b
    OBVIOUS
  <1>4. HasEntry(t) /\ Entry(t) = <<b>> /\ Object(t) = b
    BY <1>1, <1>2, <1>3 DEF HasEntry, Entry, Object
  <1>5. BundlePath(id) # <<>>
    BY DEF BundlePath
  <1> QED
    BY <1>1, <1>3, <1>4, <1>5

\* When the program ends with an error, nothing is claimed.
LEMMA FailedInv ==
    ASSUME sorter' = [x \in SorterFields |-> sorter'[x]], sorter'.pc = "failed"
    PROVE  SorterInv'
  BY DEF SorterInv

LEMMA TaskMoves ==
    ASSUME NEW t \in DOMAIN sorter.tasks, NEW at, NEW obj, NEW rv, sorter'.tasks = Moved(t, at, obj, rv)
    PROVE  /\ DOMAIN sorter'.tasks = DOMAIN sorter.tasks
           /\ \A u \in DOMAIN sorter.tasks : u # t => sorter'.tasks[u] = sorter.tasks[u]
           /\ Task(t)'.entry = Task(t).entry /\ Task(t)'.obj = obj /\ Task(t)'.at = at /\ Task(t)'.rv = rv
  BY DEF Moved, Task

\* What a task has goes on to fit while its input and its entry are the same.
LEMMA RestFits ==
    ASSUME Grows, NEW t, TaskFits(t), Task(t)'.entry = Task(t).entry, Task(t)'.rv = Task(t).rv,
           Task(t)'.obj \in Nat \ {0}, Task(t)'.at \in {"object", "report"}
    PROVE  TaskFits(t)'
  <1>1. Input(t)' = Input(t)
    BY SamePlaces DEF Grows
  <1>2. /\ HasEntry(t)' <=> HasEntry(t)
        /\ Entry(t)' = Entry(t)
    BY <1>1 DEF HasEntry, Entry
  <1>3. \A p : Stored(p) => Stored(p)'
    BY DEF Stored, Grows
  <1> QED
    BY <1>1, <1>2, <1>3 DEF TaskFits

\* A task moves on, and nothing is stored or listed.
LEMMA MovesOn ==
    ASSUME SorterInv, NEW t \in DOMAIN sorter.tasks, Sorting(t), NEW at \in {"object", "report"},
           NEW obj \in Nat \ {0}, obj >= Task(t).obj,
           sorter' = [sorter EXCEPT !.tasks = Moved(t, at, obj, Task(t).rv)],
           \A id : ~ (IsBundleOf(Input(t), id) /\ Waiting(t))
    PROVE  SorterInv'
  <1>1. sorter = [x \in SorterFields |-> sorter[x]] /\ sorter.pc \in {"sort", "bundles"} /\ Task(t).at # "done"
    BY DEF SorterInv, Sorting
  <1>2. /\ sorter' = [x \in SorterFields |-> sorter'[x]] /\ sorter'.pc = sorter.pc
        /\ sorter'.inputs = sorter.inputs /\ sorter'.bucket = sorter.bucket /\ sorter'.metas = sorter.metas
        /\ sorter'.ids = sorter.ids /\ sorter'.candidates = sorter.candidates /\ sorter'.faulty = sorter.faulty
        /\ sorter'.tasks = Moved(t, at, obj, Task(t).rv)
    BY <1>1 DEF SorterFields
  <1>3. Grows
    BY <1>2 DEF Grows
  <1>4. /\ DOMAIN sorter'.tasks = DOMAIN sorter.tasks
        /\ \A u \in DOMAIN sorter.tasks : u # t => sorter'.tasks[u] = sorter.tasks[u]
        /\ Task(t)'.entry = Task(t).entry /\ Task(t)'.obj = obj /\ Task(t)'.at = at /\ Task(t)'.rv = Task(t).rv
    BY <1>2, TaskMoves
  <1>5. TaskFits(t)
    BY <1>1 DEF SorterInv
  <1>6. TaskFits(t)'
    BY <1>3, <1>4, <1>5, RestFits
  <1>7. Steps(t) /\ Proceeds(t)
    BY <1>1, <1>2, <1>3, <1>4, <1>6 DEF Steps, Proceeds
  <1>8. \A p \in DOMAIN sorter'.metas : Described(p)'
    BY <1>1, <1>2, <1>3, DescribedKept DEF SorterInv
  <1> QED
    BY <1>1, <1>2, <1>7, <1>8, StepKeeps

LEMMA ErredInv ==
    ASSUME SorterInv, NEW t \in DOMAIN sorter.tasks, Sorting(t), sorter' = Erred(t),
           \A id : ~ (IsBundleOf(Input(t), id) /\ Waiting(t))
    PROVE  SorterInv'
  <1>1. sorter = [x \in SorterFields |-> sorter[x]] /\ TaskFits(t)
    BY DEF SorterInv, Sorting
  <1>2. CASE sorter.job.ignore_errors
    <2>1. sorter' = [sorter EXCEPT !.tasks = Moved(t, "report", Task(t).obj, Task(t).rv)]
      BY <1>2 DEF Erred
    <2>2. Task(t).obj \in Nat \ {0} /\ Task(t).obj >= Task(t).obj
      BY <1>1 DEF TaskFits
    <2> QED
      BY <2>1, <2>2, MovesOn
  <1>3. CASE ~sorter.job.ignore_errors
    <2>1. sorter' = [sorter EXCEPT !.pc = "failed"]
      BY <1>3 DEF Erred
    <2>2. sorter' = [x \in SorterFields |-> sorter'[x]] /\ sorter'.pc = "failed"
      BY <1>1, <2>1 DEF SorterFields
    <2> QED
      BY <2>2, FailedInv
  <1> QED
    BY <1>2, <1>3

LEMMA ParseFailsInv ==
    ASSUME SorterInv, NEW t \in DOMAIN sorter.tasks, ParseFails(t)
    PROVE  SorterInv'
  <1>1. \A id : ~ (IsBundleOf(Input(t), id) /\ Waiting(t))
    BY WaitingIs DEF ParseFails
  <1> QED
    BY <1>1, ErredInv DEF ParseFails

LEMMA EndOfFileInv ==
    ASSUME SorterInv, NEW t \in DOMAIN sorter.tasks, EndOfFile(t)
    PROVE  SorterInv'
  <1>1. /\ sorter = [x \in SorterFields |-> sorter[x]] /\ sorter.pc \in {"sort", "bundles"} /\ Task(t).at # "done"
        /\ ~HasEntry(t)
    BY DEF SorterInv, Sorting, EndOfFile
  <1>2. /\ sorter' = [x \in SorterFields |-> sorter'[x]] /\ sorter'.pc = sorter.pc
        /\ sorter'.inputs = sorter.inputs /\ sorter'.bucket = sorter.bucket /\ sorter'.metas = sorter.metas
        /\ sorter'.ids = sorter.ids /\ sorter'.candidates = sorter.candidates /\ sorter'.faulty = sorter.faulty
        /\ sorter'.tasks = Moved(t, "done", Task(t).obj, Task(t).rv)
    BY <1>1 DEF SorterFields, EndOfFile
  <1>3. Grows
    BY <1>2 DEF Grows
  <1>4. /\ DOMAIN sorter'.tasks = DOMAIN sorter.tasks
        /\ \A u \in DOMAIN sorter.tasks : u # t => sorter'.tasks[u] = sorter.tasks[u]
        /\ Task(t)'.entry = Task(t).entry /\ Task(t)'.obj = Task(t).obj
        /\ Task(t)'.at = "done" /\ Task(t)'.rv = Task(t).rv
    BY <1>2, TaskMoves
  <1>5. TaskFits(t)
    BY <1>1 DEF SorterInv
  <1>6. Task(t).rv = <<>>
    <2>1. Range(Task(t).rv) = {} /\ Task(t).rv \in Seq(Range(Task(t).rv))
      BY <1>1, <1>5 DEF TaskFits
    <2>2. ASSUME Len(Task(t).rv) # 0 PROVE FALSE
      <3>1. 1 \in DOMAIN Task(t).rv
        BY <2>1, <2>2
      <3> QED
        BY <2>1, <3>1 DEF Range
    <2> QED
      BY <2>1, <2>2
  <1>7. TaskFits(t)'
    <2>1. Range(Task(t)'.rv) = {} /\ <<>> \in Seq(Range(Task(t)'.rv))
      BY <1>4, <1>6 DEF Range
    <2> QED
      BY <1>4, <1>5, <1>6, <2>1 DEF TaskFits
  <1>8. Steps(t) /\ Proceeds(t)
    <2>1. Task(t).obj \in Nat
      BY <1>5 DEF TaskFits
    <2> QED
      BY <1>1, <1>2, <1>3, <1>4, <1>7, <2>1 DEF Steps, Proceeds
  <1>9. \A p \in DOMAIN sorter'.metas : Described(p)'
    BY <1>1, <1>2, <1>3, DescribedKept DEF SorterInv
  <1>10. \A id : ~ (IsBundleOf(Input(t), id) /\ Waiting(t))
    BY <1>1, WaitingIs
  <1> QED
    BY <1>1, <1>2, <1>8, <1>9, <1>10, StepKeeps

LEMMA WriteMetaInv ==
    ASSUME SorterInv, NEW t \in DOMAIN sorter.tasks, WriteMeta(t)
    PROVE  SorterInv'
  <1> DEFINE path == TargetFilename(Object(t))
  <1>1. /\ sorter = [x \in SorterFields |-> sorter[x]] /\ sorter.pc \in {"sort", "bundles"} /\ Task(t).at = "object"
        /\ HasEntry(t) /\ Entry(t) # Unset /\ Task(t).obj <= Len(Entry(t))
        /\ TaskFits(t) /\ IsInput(Input(t)) /\ DOMAIN sorter.tasks = DOMAIN sorter.inputs /\ Sorting(t)
    BY DEF SorterInv, Sorting, WriteMeta, AtObject
  <1>2. Task(t).entry \in Nat \ {0} /\ Task(t).obj \in Nat \ {0}
    BY <1>1 DEF TaskFits
  <1>3. CASE Object(t).kind \notin Accepted
    <2>1. \A id : ~ (IsBundleOf(Input(t), id) /\ Waiting(t))
      BY <1>3, WaitingIs DEF Accepted
    <2>2. sorter' = [sorter EXCEPT !.tasks = Moved(t, "object", Task(t).obj + 1, Task(t).rv)]
      BY <1>3 DEF WriteMeta
    <2>3. Task(t).obj + 1 \in Nat \ {0} /\ Task(t).obj + 1 >= Task(t).obj
      BY <1>2
    <2> QED
      BY <1>1, <2>1, <2>2, <2>3, MovesOn
  <1>4. CASE Object(t).kind \in Accepted /\ path = <<>>
    <2>1. \A id : ~ (IsBundleOf(Input(t), id) /\ Waiting(t))
      BY <1>4, WaitingIs
    <2>2. sorter' = Erred(t)
      BY <1>4 DEF WriteMeta
    <2> QED
      BY <1>1, <2>1, <2>2, ErredInv
  <1>5. CASE Object(t).kind \in Accepted /\ path # <<>>
    <2>1. /\ sorter' = [sorter EXCEPT !.tasks = Moved(t, "create", Task(t).obj, Task(t).rv),
                                      !.metas = Put(sorter.metas, TargetFilename(Object(t)), t)]
      BY <1>5 DEF WriteMeta
    <2>2. /\ sorter' = [x \in SorterFields |-> sorter'[x]] /\ sorter'.pc = sorter.pc
          /\ sorter'.inputs = sorter.inputs /\ sorter'.bucket = sorter.bucket
          /\ sorter'.metas = Put(sorter.metas, TargetFilename(Object(t)), t)
          /\ sorter'.ids = sorter.ids /\ sorter'.candidates = sorter.candidates /\ sorter'.faulty = sorter.faulty
          /\ sorter'.tasks = Moved(t, "create", Task(t).obj, Task(t).rv)
      BY <1>1, <2>1 DEF SorterFields
    <2>3. /\ DOMAIN sorter'.metas = DOMAIN sorter.metas \cup {TargetFilename(Object(t))}
          /\ \A p \in DOMAIN sorter'.metas :
                sorter'.metas[p] = IF p = TargetFilename(Object(t)) THEN t ELSE sorter.metas[p]
      BY <2>2 DEF Put
    <2>4. Grows
      BY <2>2, <2>3 DEF Grows
    <2>5. /\ DOMAIN sorter'.tasks = DOMAIN sorter.tasks
          /\ \A u \in DOMAIN sorter.tasks : u # t => sorter'.tasks[u] = sorter.tasks[u]
          /\ Task(t)'.entry = Task(t).entry /\ Task(t)'.obj = Task(t).obj
          /\ Task(t)'.at = "create" /\ Task(t)'.rv = Task(t).rv
      BY <2>2, TaskMoves
    <2>6. /\ Input(t)' = Input(t)
          /\ HasEntry(t)' <=> HasEntry(t)
          /\ Entry(t)' = Entry(t) /\ Object(t)' = Object(t)
      BY <2>4, <2>5, SamePlaces DEF Grows, HasEntry, Entry, Object
    <2>7. Len(Entry(t)) \in Nat /\ <<Task(t).entry, Task(t).obj>> \in Places(t, TargetFilename(Object(t)))
      <3>1. Task(t).entry \in 1 .. Len(Input(t).entries)
        BY <1>1, <1>2 DEF HasEntry, IsInput
      <3>2. Entry(t) \in Range(Input(t).entries) \ {Unset}
        BY <1>1, <3>1 DEF Entry, Range, IsInput
      <3>3. Len(Entry(t)) \in Nat
        BY <1>1, <3>2 DEF IsInput
      <3>4. Task(t).obj \in 1 .. Len(Entry(t))
        BY <1>1, <1>2, <3>3
      <3> QED
        BY <1>1, <1>2, <3>3, <3>4, AtPlace
    <2>8. ASSUME NEW p \in DOMAIN sorter'.metas PROVE Described(p)'
      <3>1. CASE p = TargetFilename(Object(t))
        <4>1. t \in Rivals(p) /\ Rivals(p)' = Rivals(p)
          BY <1>1, <2>2, <2>7, <3>1, SamePlaces DEF Rivals
        <4> QED
          BY <2>3, <3>1, <4>1 DEF Described
      <3>2. CASE p # TargetFilename(Object(t))
        BY <1>1, <2>3, <2>4, <3>2, DescribedKept DEF SorterInv
      <3> QED
        BY <3>1, <3>2
    <2>9. TaskFits(t)'
      <3>1. \A p : Stored(p)' <=> Stored(p)
        BY <2>2 DEF Stored
      <3>2. Task(t).obj \in 1 .. Len(Entry(t))
        BY <1>1, <1>2, <2>7
      <3> QED
        BY <1>1, <1>5, <2>3, <2>5, <2>6, <3>1, <3>2 DEF TaskFits
    <2>10. Steps(t) /\ Proceeds(t)
      <3>1. Steps(t)
        BY <2>2, <2>4, <2>5 DEF Steps
      <3>2. Proceeds(t)
        BY <1>1, <1>2, <2>5, <2>9 DEF Proceeds
      <3> QED
        BY <3>1, <3>2
    <2>11. Waiting(t) => Waiting(t)'
      BY <2>5 DEF Waiting
    <2> QED
      BY <1>1, <2>2, <2>8, <2>10, <2>11, StepKeeps
  <1> QED
    BY <1>3, <1>4, <1>5

LEMMA DuplicateInv ==
    ASSUME SorterInv, NEW t \in DOMAIN sorter.tasks, Duplicate(t)
    PROVE  SorterInv'
  <1>1. /\ sorter = [x \in SorterFields |-> sorter[x]] /\ sorter.pc \in {"sort", "bundles"} /\ Task(t).at = "create"
        /\ TargetFilename(Object(t)) \in DOMAIN sorter.bucket
        /\ TaskFits(t) /\ IsInput(Input(t)) /\ DOMAIN sorter.tasks = DOMAIN sorter.inputs
    BY DEF SorterInv, Sorting, Duplicate
  <1>2. /\ HasEntry(t) /\ Entry(t) # Unset /\ Task(t).obj \in 1 .. Len(Entry(t))
        /\ Task(t).entry \in Nat \ {0} /\ Task(t).obj \in Nat \ {0}
    BY <1>1 DEF TaskFits
  <1>3. /\ sorter' = [x \in SorterFields |-> sorter'[x]] /\ sorter'.pc = sorter.pc
        /\ sorter'.inputs = sorter.inputs /\ sorter'.bucket = sorter.bucket /\ sorter'.metas = sorter.metas
        /\ sorter'.ids = sorter.ids /\ sorter'.candidates = sorter.candidates /\ sorter'.faulty = sorter.faulty
        /\ sorter'.tasks = Moved(t, "report", Task(t).obj, <<>>)
    BY <1>1 DEF SorterFields, Duplicate
  <1>4. Grows
    BY <1>3 DEF Grows
  <1>5. /\ DOMAIN sorter'.tasks = DOMAIN sorter.tasks
        /\ \A u \in DOMAIN sorter.tasks : u # t => sorter'.tasks[u] = sorter.tasks[u]
        /\ Task(t)'.entry = Task(t).entry /\ Task(t)'.obj = Task(t).obj
        /\ Task(t)'.at = "report" /\ Task(t)'.rv = <<>>
    BY <1>3, TaskMoves
  <1>6. LostIds(t)
    <2> DEFINE q == TargetFilename(Object(t))
    <2>1. <<Task(t).entry, Task(t).obj>> \in Places(t, q)
      BY <1>1, <1>2, AtPlace
    <2>2. t \in Rivals(q)
      BY <1>1, <2>1 DEF Rivals
    <2>3. ASSUME sorter.bucket[q].input = t PROVE \E a, b \in Places(t, q) : a # b
      <3>1. FileFits(q)
        BY <1>1 DEF SorterInv
      <3>2. PICK place \in Places(t, q) : Passed(t, place)
        BY <2>3, <3>1 DEF FileFits
      <3>3. place # <<Task(t).entry, Task(t).obj>>
        BY <1>1, <1>2, <3>2 DEF Passed
      <3> QED
        BY <2>1, <3>3
    <2> HIDE DEF q
    <2>4. q \in DOMAIN sorter.bucket
      BY <1>1 DEF q
    <2> QED
      BY <2>2, <2>3, <2>4 DEF LostIds
  <1>7. LostIds(t)'
    BY <1>4, <1>6, LostKept
  <1>8. TaskFits(t)'
    <2>1. Range(<<>>) = {} /\ <<>> \in Seq(Range(<<>>))
      BY DEF Range
    <2> QED
      BY <1>2, <1>5, <2>1 DEF TaskFits
  <1>9. Steps(t) /\ Proceeds(t)
    BY <1>1, <1>2, <1>3, <1>4, <1>5, <1>7, <1>8 DEF Steps, Proceeds
  <1>10. \A p \in DOMAIN sorter'.metas : Described(p)'
    BY <1>1, <1>3, <1>4, DescribedKept DEF SorterInv
  <1>11. \A id : IsBundleOf(Input(t), id) /\ Waiting(t) => BundlePath(id) \in DOMAIN sorter'.bucket
    BY <1>1, <1>3, WaitingIs
  <1> QED
    BY <1>1, <1>3, <1>9, <1>10, <1>11, StepKeeps

LEMMA AppendRange ==
    ASSUME NEW s, s \in Seq(Range(s)), NEW x
    PROVE  Append(s, x) \in Seq(Range(Append(s, x))) /\ Range(Append(s, x)) = Range(s) \cup {x}
  <1> DEFINE S == Range(s) \cup {x}
  <1>1. s \in Seq(S)
    BY SeqMonotonic
  <1>2. /\ Append(s, x) \in Seq(S) /\ DOMAIN Append(s, x) = 1 .. Len(s) + 1 /\ DOMAIN s = 1 .. Len(s) /\ Len(s) \in Nat
        /\ \A i \in 1 .. Len(s) : Append(s, x)[i] = s[i]
        /\ Append(s, x)[Len(s) + 1] = x
    <2> HIDE DEF S
    <2>1. x \in S
      BY DEF S
    <2> QED
      BY <1>1, <2>1
  <1>3. Range(Append(s, x)) = S
    <2>1. Range(Append(s, x)) = {Append(s, x)[i] : i \in DOMAIN Append(s, x)} /\ Range(s) = {s[i] : i \in DOMAIN s}
      BY DEF Range
    <2>2. \A i \in 1 .. Len(s) + 1 : i \in 1 .. Len(s) \/ i = Len(s) + 1
      BY <1>2
    <2>3. \A i \in 1 .. Len(s) : i \in 1 .. Len(s) + 1
      BY <1>2
    <2>4. Len(s) + 1 \in 1 .. Len(s) + 1
      BY <1>2
    <2> QED
      BY <1>2, <2>1, <2>2, <2>3, <2>4
  <1> QED
    BY <1>2, <1>3

\* A task is beyond the object it was at.
LEMMA PassedBy ==
    ASSUME NEW t, Task(t).entry \in Nat, Task(t).obj \in Nat, Task(t)'.entry = Task(t).entry,
           Task(t)'.obj = Task(t).obj + 1 \/ (Task(t)'.obj = Task(t).obj /\ Task(t)'.at = "done"),
           NEW q, q[1] = Task(t).entry, q[2] = Task(t).obj
    PROVE  Passed(t, q)'
  BY DEF Passed

LEMMA StoreObjectInv ==
    ASSUME SorterInv, NEW t \in DOMAIN sorter.tasks, StoreObject(t)
    PROVE  SorterInv'
  <1>1. /\ sorter = [x \in SorterFields |-> sorter[x]] /\ sorter.pc \in {"sort", "bundles"} /\ Task(t).at = "create"
        /\ TargetFilename(Object(t)) \notin DOMAIN sorter.bucket
        /\ TaskFits(t) /\ IsInput(Input(t)) /\ DOMAIN sorter.tasks = DOMAIN sorter.inputs
    BY DEF SorterInv, Sorting, StoreObject, AtNewFile
  <1>2. /\ HasEntry(t) /\ Entry(t) # Unset /\ Task(t).obj \in 1 .. Len(Entry(t))
        /\ Task(t).entry \in Nat \ {0} /\ Task(t).obj \in Nat \ {0} /\ Object(t).kind \in Accepted
        /\ Task(t).rv \in Seq(Range(Task(t).rv))
    BY <1>1 DEF TaskFits
  <1>3. PICK path, obj, stored : /\ path = TargetFilename(Object(t)) /\ obj = Object(t)
                                 /\ stored = [obj |-> Object(t), input |-> t, complete |-> TRUE]
    OBVIOUS
  <1>4. /\ path # <<>> /\ path \in DOMAIN sorter.metas /\ path \notin DOMAIN sorter.bucket
        /\ stored.obj = obj /\ stored.input = t /\ stored.complete
    BY <1>1, <1>3 DEF TaskFits
  <1>5. /\ sorter' = [x \in SorterFields |-> sorter'[x]] /\ sorter'.pc = sorter.pc
        /\ sorter'.inputs = sorter.inputs /\ sorter'.metas = sorter.metas
        /\ sorter'.ids = sorter.ids /\ sorter'.candidates = sorter.candidates /\ sorter'.faulty = sorter.faulty
        /\ sorter'.bucket = Put(sorter.bucket, path, stored)
        /\ sorter'.tasks = Moved(t, "object", Task(t).obj + 1, Append(Task(t).rv, obj))
    <2>1. sorter' = [sorter EXCEPT !.bucket = Put(sorter.bucket, path, stored),
                        !.tasks = Moved(t, "object", Task(t).obj + 1, Append(Task(t).rv, obj))]
      BY <1>3 DEF StoreObject, WithObject
    <2> QED
      BY <1>1, <2>1 DEF SorterFields
  <1>6. /\ DOMAIN sorter'.bucket = DOMAIN sorter.bucket \cup {path} /\ sorter'.bucket[path] = stored
        /\ \A p \in DOMAIN sorter.bucket : sorter'.bucket[p] = sorter.bucket[p]
    BY <1>4, <1>5 DEF Put
  <1>7. Grows
    BY <1>5, <1>6 DEF Grows
  <1>8. /\ DOMAIN sorter'.tasks = DOMAIN sorter.tasks
        /\ \A u \in DOMAIN sorter.tasks : u # t => sorter'.tasks[u] = sorter.tasks[u]
        /\ Task(t)'.entry = Task(t).entry /\ Task(t)'.obj = Task(t).obj + 1
        /\ Task(t)'.at = "object" /\ Task(t)'.rv = Append(Task(t).rv, obj)
    <2>1. PICK next, rv : next = Task(t).obj + 1 /\ rv = Append(Task(t).rv, obj)
      OBVIOUS
    <2>2. sorter'.tasks = Moved(t, "object", next, rv)
      BY <1>5, <2>1
    <2>3. /\ DOMAIN sorter'.tasks = DOMAIN sorter.tasks
          /\ \A u \in DOMAIN sorter.tasks : u # t => sorter'.tasks[u] = sorter.tasks[u]
          /\ Task(t)'.entry = Task(t).entry /\ Task(t)'.obj = next
          /\ Task(t)'.at = "object" /\ Task(t)'.rv = rv
      BY <2>2, TaskMoves
    <2> QED
      BY <2>1, <2>3
  <1>9. /\ Input(t)' = Input(t)
        /\ HasEntry(t)' <=> HasEntry(t)
        /\ Entry(t)' = Entry(t)
    BY <1>7, <1>8, SamePlaces DEF Grows, HasEntry, Entry
  <1>10. /\ <<Task(t).entry, Task(t).obj>> \in Places(t, path) /\ obj \in Range(Entry(t))
         /\ \A p : Places(t, p)' = Places(t, p)
    <2>1. <<Task(t).entry, Task(t).obj>> \in Places(t, path) /\ obj \in Range(Entry(t))
      BY <1>1, <1>2, <1>3, AtPlace
    <2> QED
      BY <1>5, <2>1, SamePlaces
  <1>11. Task(t)'.rv \in Seq(Range(Task(t)'.rv)) /\ Range(Task(t)'.rv) = Range(Task(t).rv) \cup {obj}
    BY <1>2, <1>8, AppendRange
  <1>12. \A p : Stored(p) => Stored(p)'
    BY <1>7 DEF Stored, Grows
  <1>13. TaskFits(t)'
    <2>1. ASSUME NEW o \in Range(Task(t)'.rv)
          PROVE  /\ TargetFilename(o) # <<>> /\ Stored(TargetFilename(o))'
                 /\ HasEntry(t)' /\ Entry(t)' # Unset /\ o \in Range(Entry(t)')
      <3>1. CASE o \in Range(Task(t).rv)
        BY <1>1, <1>9, <1>12, <3>1 DEF TaskFits
      <3>2. CASE o = obj
        <4>1. Stored(path)'
          BY <1>4, <1>6 DEF Stored
        <4> QED
          BY <1>2, <1>3, <1>4, <1>9, <1>10, <3>2, <4>1
      <3> QED
        BY <1>11, <3>1, <3>2
    <2>2. Task(t)'.entry \in Nat \ {0} /\ Task(t)'.obj \in Nat \ {0} /\ Task(t)'.at \notin {"create", "done"}
      BY <1>2, <1>8
    <2> QED
      BY <1>11, <2>1, <2>2 DEF TaskFits
  <1>14. FileFits(path)'
    <2>1. \E place \in Places(t, path)' :
             Passed(t, place)' /\ sorter'.bucket[path].obj = Input(t)'.entries[place[1]][place[2]]
      <3>1. PICK place : place = <<Task(t).entry, Task(t).obj>>
        OBVIOUS
      <3>2. place[1] = Task(t).entry /\ place[2] = Task(t).obj /\ place \in Places(t, path)'
        BY <1>10, <3>1
      <3>3. Passed(t, place)'
        BY <1>2, <1>8, <3>2, PassedBy
      <3>4. sorter'.bucket[path].obj = Input(t)'.entries[place[1]][place[2]]
        BY <1>3, <1>4, <1>6, <1>9, <3>2 DEF Object, Entry
      <3> QED
        BY <3>2, <3>3, <3>4
    <2>2. \E o \in Range(Task(t)'.rv) : UnifiedId(o) = path[1][1]
      <3>1. UnifiedId(obj) = path[1][1]
        BY <1>3, <1>4, FilenameIs
      <3> QED
        BY <1>11, <3>1
    <2>3. /\ sorter'.bucket[path].input = t /\ t \in DOMAIN sorter'.inputs /\ path \in DOMAIN sorter'.metas
          /\ path # <<>> /\ sorter'.bucket[path].obj.kind \in Accepted
      BY <1>1, <1>2, <1>3, <1>4, <1>5, <1>6
    <2> QED
      BY <2>1, <2>2, <2>3 DEF FileFits
  <1>15. Steps(t) /\ Proceeds(t)
    <2>1. Steps(t)
      BY <1>5, <1>7, <1>8 DEF Steps
    <2>2. Proceeds(t)
      BY <1>1, <1>2, <1>8, <1>11, <1>13 DEF Proceeds
    <2> QED
      BY <2>1, <2>2
  <1>16. \A p \in DOMAIN sorter'.metas : Described(p)'
    BY <1>1, <1>5, <1>7, DescribedKept DEF SorterInv
  <1>17. \A id : IsBundleOf(Input(t), id) /\ Waiting(t) => BundlePath(id) \in DOMAIN sorter'.bucket
    BY <1>3, <1>6, WaitingIs
  <1>18. \A p \in DOMAIN sorter'.bucket : p \in DOMAIN sorter.bucket \/ FileFits(p)'
    BY <1>6, <1>14
  <1> QED
    BY <1>1, <1>5, <1>15, <1>16, <1>17, <1>18, StepKeeps

-----------------------------------------------------------------------------
(* The writes that fail *)

\* An archive that ignores a failed write ends with what it has, which is lost.
LEMMA AbandonedInv ==
    ASSUME SorterInv, NEW t \in DOMAIN sorter.tasks, Sorting(t),
           HasEntry(t), Entry(t) # Unset, Task(t).obj \in 1 .. Len(Entry(t)), Object(t).kind \in Accepted,
           NEW bucket, NEW metas, sorter' = Abandoned(t, bucket, metas),
           \A p \in DOMAIN sorter.bucket : p \in DOMAIN bucket /\ bucket[p] = sorter.bucket[p],
           DOMAIN sorter.metas \subseteq DOMAIN metas,
           \A p \in DOMAIN bucket : \/ p \in DOMAIN sorter.bucket
                                    \/ /\ p = TargetFilename(Object(t)) /\ p # <<>> /\ p \in DOMAIN metas
                                       /\ bucket[p] = [obj |-> Object(t), input |-> t, complete |-> FALSE],
           \A p \in DOMAIN metas : \/ p \in DOMAIN sorter.metas /\ metas[p] = sorter.metas[p]
                                   \/ p = TargetFilename(Object(t)) /\ metas[p] = Torn
    PROVE  SorterInv'
  <1>1. /\ sorter = [x \in SorterFields |-> sorter[x]] /\ sorter.pc \in {"sort", "bundles"} /\ Task(t).at # "done"
        /\ TaskFits(t) /\ IsInput(Input(t)) /\ DOMAIN sorter.tasks = DOMAIN sorter.inputs
    BY DEF SorterInv, Sorting
  <1>2. /\ Task(t).entry \in Nat \ {0} /\ Task(t).obj \in Nat \ {0} /\ Task(t).rv \in Seq(Range(Task(t).rv))
    BY <1>1 DEF TaskFits
  <1>3. CASE ~(Input(t).zip /\ sorter.job.ignore_errors)
    <2>1. sorter' = [sorter EXCEPT !.bucket = bucket, !.metas = metas, !.faulty = sorter.faulty \cup {t},
                        !.pc = "failed", !.tasks = sorter.tasks]
      BY <1>3 DEF Abandoned
    <2>2. sorter' = [x \in SorterFields |-> sorter'[x]] /\ sorter'.pc = "failed"
      BY <1>1, <2>1 DEF SorterFields
    <2> QED
      BY <2>2, FailedInv
  <1>4. CASE Input(t).zip /\ sorter.job.ignore_errors
    <2>1. /\ sorter' = [x \in SorterFields |-> sorter'[x]] /\ sorter'.pc = sorter.pc
          /\ sorter'.inputs = sorter.inputs /\ sorter'.bucket = bucket /\ sorter'.metas = metas
          /\ sorter'.ids = sorter.ids /\ sorter'.candidates = sorter.candidates
          /\ sorter'.faulty = sorter.faulty \cup {t}
          /\ sorter'.tasks = Moved(t, "done", Task(t).obj, Task(t).rv)
      <3>1. sorter' = [sorter EXCEPT !.bucket = bucket, !.metas = metas, !.faulty = sorter.faulty \cup {t},
                          !.pc = sorter.pc, !.tasks = Moved(t, "done", Task(t).obj, Task(t).rv)]
        BY <1>4 DEF Abandoned
      <3> QED
        BY <1>1, <3>1 DEF SorterFields
    <2>2. Grows
      BY <2>1 DEF Grows
    <2>3. /\ DOMAIN sorter'.tasks = DOMAIN sorter.tasks
          /\ \A u \in DOMAIN sorter.tasks : u # t => sorter'.tasks[u] = sorter.tasks[u]
          /\ Task(t)'.entry = Task(t).entry /\ Task(t)'.obj = Task(t).obj
          /\ Task(t)'.at = "done" /\ Task(t)'.rv = Task(t).rv
      BY <2>1, TaskMoves
    <2>4. /\ Input(t)' = Input(t)
          /\ HasEntry(t)' <=> HasEntry(t)
          /\ Entry(t)' = Entry(t)
      BY <2>2, <2>3, SamePlaces DEF Grows, HasEntry, Entry
    <2>5. LostIds(t)'
      BY <2>1 DEF LostIds
    <2>6. TaskFits(t)'
      <3>1. \A p : Stored(p) => Stored(p)'
        BY <2>2 DEF Stored, Grows
      <3> QED
        BY <1>1, <2>3, <2>4, <2>5, <3>1 DEF TaskFits
    <2>7. PICK path : path = TargetFilename(Object(t))
      OBVIOUS
    <2>8. /\ <<Task(t).entry, Task(t).obj>> \in Places(t, path) /\ t \in Rivals(path)
          /\ Places(t, path)' = Places(t, path) /\ Rivals(path)' = Rivals(path)
      <3>1. <<Task(t).entry, Task(t).obj>> \in Places(t, path)
        BY <1>1, <1>2, <2>7, AtPlace
      <3> QED
        BY <1>1, <2>1, <3>1, SamePlaces DEF Rivals
    <2>9. ASSUME NEW p \in DOMAIN bucket, p \notin DOMAIN sorter.bucket PROVE FileFits(p)'
      <3>1. /\ p = path /\ p # <<>> /\ p \in DOMAIN metas
            /\ bucket[p].obj = Object(t) /\ bucket[p].input = t /\ bucket[p].complete = FALSE
        BY <2>7, <2>9
      <3>2. \E place \in Places(t, p)' :
               Passed(t, place)' /\ sorter'.bucket[p].obj = Input(t)'.entries[place[1]][place[2]]
        <4>1. PICK place : place = <<Task(t).entry, Task(t).obj>>
          OBVIOUS
        <4>2. place[1] = Task(t).entry /\ place[2] = Task(t).obj /\ place \in Places(t, p)'
          BY <2>8, <3>1, <4>1
        <4>3. Passed(t, place)'
          BY <1>2, <2>3, <4>2, PassedBy
        <4>4. sorter'.bucket[p].obj = Input(t)'.entries[place[1]][place[2]]
          BY <2>1, <2>4, <3>1, <4>2 DEF Object, Entry
        <4> QED
          BY <4>2, <4>3, <4>4
      <3>3. ~Stored(p)'
        BY <2>1, <3>1 DEF Stored
      <3>4. /\ sorter'.bucket[p].input = t /\ t \in DOMAIN sorter'.inputs /\ p \in DOMAIN sorter'.metas
            /\ p # <<>> /\ sorter'.bucket[p].obj.kind \in Accepted
        BY <1>1, <2>1, <3>1
      <3> QED
        BY <3>2, <3>3, <3>4 DEF FileFits
    <2>10. ASSUME NEW p \in DOMAIN sorter'.metas PROVE Described(p)'
      <3>1. CASE p \in DOMAIN sorter.metas /\ metas[p] = sorter.metas[p]
        BY <1>1, <2>1, <2>2, <3>1, DescribedKept DEF SorterInv
      <3>2. CASE p = path /\ metas[p] = Torn
        BY <2>1, <2>8, <3>2 DEF Described
      <3> QED
        BY <2>1, <2>7, <3>1, <3>2
    <2>11. Steps(t) /\ Proceeds(t)
      BY <1>1, <1>2, <2>1, <2>2, <2>3, <2>6 DEF Steps, Proceeds
    <2>12. \A id : ~ (IsBundleOf(Input(t), id) /\ Waiting(t))
      BY <1>4, WaitingIs
    <2> QED
      BY <1>1, <2>1, <2>9, <2>10, <2>11, <2>12, StepKeeps
  <1> QED
    BY <1>3, <1>4

LEMMA MetaFailsInv ==
    ASSUME SorterInv, NEW t \in DOMAIN sorter.tasks, MetaFails(t)
    PROVE  SorterInv'
  <1> DEFINE path == TargetFilename(Object(t))
  <1>1. /\ Sorting(t) /\ HasEntry(t) /\ Entry(t) # Unset /\ Task(t).obj <= Len(Entry(t)) /\ Object(t).kind \in Accepted
        /\ sorter.pc # "failed" /\ TaskFits(t) /\ IsInput(Input(t))
    BY DEF SorterInv, Sorting, MetaFails, AtObject
  <1>2. PICK metas \in {sorter.metas, Put(sorter.metas, path, Torn)} : sorter' = Abandoned(t, sorter.bucket, metas)
    BY DEF MetaFails
  <1>3. /\ DOMAIN sorter.metas \subseteq DOMAIN metas
        /\ \A p \in DOMAIN metas : (p \in DOMAIN sorter.metas /\ metas[p] = sorter.metas[p]) \/ (p = path /\ metas[p] = Torn)
    BY <1>2 DEF Put
  <1>4. Task(t).obj \in 1 .. Len(Entry(t))
    <2>1. Task(t).entry \in Nat \ {0} /\ Task(t).obj \in Nat \ {0}
      BY <1>1 DEF TaskFits
    <2>2. Entry(t) \in Range(Input(t).entries) \ {Unset}
      BY <1>1, <2>1 DEF HasEntry, Entry, Range, IsInput
    <2>3. Len(Entry(t)) \in Nat
      BY <1>1, <2>2 DEF IsInput
    <2> QED
      BY <1>1, <2>1, <2>3
  <1> QED
    BY <1>1, <1>2, <1>3, <1>4, AbandonedInv

LEMMA StoreFailsInv ==
    ASSUME SorterInv, NEW t \in DOMAIN sorter.tasks, StoreFails(t)
    PROVE  SorterInv'
  <1>1. /\ Sorting(t) /\ Task(t).at = "create" /\ TaskFits(t)
        /\ TargetFilename(Object(t)) \notin DOMAIN sorter.bucket
    BY DEF SorterInv, Sorting, StoreFails, AtNewFile
  <1>2. /\ HasEntry(t) /\ Entry(t) # Unset /\ Task(t).obj \in 1 .. Len(Entry(t)) /\ Object(t).kind \in Accepted
        /\ TargetFilename(Object(t)) # <<>> /\ TargetFilename(Object(t)) \in DOMAIN sorter.metas
    BY <1>1 DEF TaskFits
  <1>3. PICK bucket \in {sorter.bucket, WithObject(t, FALSE)} : sorter' = Abandoned(t, bucket, sorter.metas)
    BY DEF StoreFails
  <1>4. /\ \A p \in DOMAIN sorter.bucket : p \in DOMAIN bucket /\ bucket[p] = sorter.bucket[p]
        /\ \A p \in DOMAIN bucket : \/ p \in DOMAIN sorter.bucket
                                    \/ /\ p = TargetFilename(Object(t))
                                       /\ bucket[p] = [obj |-> Object(t), input |-> t, complete |-> FALSE]
    BY <1>1, <1>3 DEF WithObject, Put
  <1>5. \A p \in DOMAIN bucket : \/ p \in DOMAIN sorter.bucket
                                 \/ /\ p = TargetFilename(Object(t)) /\ p # <<>> /\ p \in DOMAIN sorter.metas
                                    /\ bucket[p] = [obj |-> Object(t), input |-> t, complete |-> FALSE]
    BY <1>2, <1>4
  <1> QED
    BY <1>1, <1>2, <1>3, <1>4, <1>5, AbandonedInv

LEMMA CandidatesOf ==
    ASSUME SorterInv, sorter.pc # "failed", NEW t \in DOMAIN sorter.tasks, HasEntry(t),
           sorter'.inputs = sorter.inputs, sorter'.bucket = sorter.bucket, sorter'.candidates = Candidates(t),
           NEW id \in DOMAIN sorter'.candidates,
           ~ (id \in DOMAIN sorter.candidates /\ sorter'.candidates[id] = sorter.candidates[id])
    PROVE  sorter.pc = "sort" /\ CandidateFits(id)'
  <1> DEFINE ids(kinds) == {UnifiedId(o) : o \in {x \in Range(Task(t).rv) : x.kind \in kinds}}
  <1>1. /\ TaskFits(t) /\ DOMAIN sorter.tasks = DOMAIN sorter.inputs
        /\ \A u : Input(u)' = Input(u)
    BY SamePlaces DEF SorterInv
  <1>2. /\ sorter.pc = "sort" /\ ~Input(t).zip
        /\ sorter'.candidates = [x \in DOMAIN sorter.candidates \cup ids({"sources", "debug"}) |->
              IF x \in ids({"sources"}) THEN NoBundle
              ELSE IF x \in DOMAIN sorter.candidates THEN sorter.candidates[x] ELSE t]
    BY DEF Candidates
  <1>3. t = <<"file", t[2]>>
    BY <1>1, <1>2 DEF SorterInv
  <1>4. t # NoBundle
    <2>1. PICK x : t = <<"file", x>>
      BY <1>3
    <2>2. Len(<<"file", x>>) = 2 /\ Len(<<>>) = 0
      OBVIOUS
    <2> QED
      BY <2>1, <2>2 DEF NoBundle
  <1>5. CASE id \in ids({"sources"})
    <2>1. PICK o \in Range(Task(t).rv) : o.kind = "sources" /\ UnifiedId(o) = id
      BY <1>5
    <2>2. sorter'.candidates[id] = NoBundle
      BY <1>2, <1>5
    <2>3. TargetFilename(o) # <<>> /\ TargetFilename(o) \in DOMAIN sorter.bucket
      BY <1>1 DEF TaskFits, Stored
    <2>4. TargetSuffix(o) = "sourcebundle"
      BY <2>1, <2>3, FilenameIs DEF TargetSuffix
    <2>5. TargetFilename(o) = BundlePath(id)
      BY <2>1, <2>3, <2>4, FilenameIs DEF BundlePath
    <2> QED
      BY <1>2, <2>2, <2>3, <2>5 DEF CandidateFits
  <1>6. CASE id \notin ids({"sources"})
    <2>1. id \in ids({"sources", "debug"}) /\ id \notin DOMAIN sorter.candidates /\ sorter'.candidates[id] = t
      BY <1>2, <1>6
    <2>2. PICK o \in Range(Task(t).rv) : o.kind \in {"sources", "debug"} /\ UnifiedId(o) = id
      BY <2>1
    <2>3. o.kind = "debug"
      BY <1>6, <2>2
    <2>4. TargetFilename(o) # <<>> /\ Entry(t) # Unset /\ o \in Range(Entry(t))
      BY <1>1 DEF TaskFits
    <2>5. id # Unset
      BY <2>2, <2>4, FilenameIs
    <2>6. Entry(t) = Input(t).entries[1]
      <3>1. Task(t).entry \in Nat \ {0} /\ Task(t).entry <= Len(Input(t).entries)
        BY <1>1 DEF TaskFits, HasEntry
      <3>2. Len(Input(t).entries) = 1
        BY <1>1, <1>2 DEF SorterInv, IsInput
      <3>3. Task(t).entry = 1
        BY <3>1, <3>2
      <3> QED
        BY <3>3 DEF Entry
    <2> QED
      BY <1>1, <1>2, <1>4, <2>1, <2>3, <2>4, <2>5, <2>6 DEF CandidateFits
  <1> QED
    BY <1>5, <1>6

LEMMA ReportInv ==
    ASSUME SorterInv, NEW t \in DOMAIN sorter.tasks, Report(t)
    PROVE  SorterInv'
  <1>1. /\ sorter = [x \in SorterFields |-> sorter[x]] /\ sorter.pc \in {"sort", "bundles"} /\ HasEntry(t)
        /\ TaskFits(t) /\ Task(t).at # "done"
        /\ Task(t).at = "report" \/ (Task(t).at = "object" /\ Task(t).obj > Len(Entry(t)))
    BY DEF SorterInv, Sorting, Report
  <1>2. Task(t).entry \in Nat \ {0} /\ Task(t).obj \in Nat \ {0}
    BY <1>1 DEF TaskFits
  <1>3. /\ sorter' = [x \in SorterFields |-> sorter'[x]] /\ sorter'.pc = sorter.pc
        /\ sorter'.inputs = sorter.inputs /\ sorter'.bucket = sorter.bucket /\ sorter'.metas = sorter.metas
        /\ sorter'.ids = sorter.ids \cup {UnifiedId(o) : o \in Range(Task(t).rv)}
        /\ sorter'.candidates = Candidates(t) /\ sorter'.faulty = sorter.faulty
        /\ sorter'.tasks = [sorter.tasks EXCEPT ![t] = [NewTask EXCEPT !.entry = Task(t).entry + 1]]
    BY <1>1 DEF SorterFields, Report
  <1>4. Grows
    BY <1>3 DEF Grows
  <1>5. /\ DOMAIN sorter'.tasks = DOMAIN sorter.tasks
        /\ \A u \in DOMAIN sorter.tasks : u # t => sorter'.tasks[u] = sorter.tasks[u]
        /\ Task(t)'.entry = Task(t).entry + 1 /\ Task(t)'.obj = 1 /\ Task(t)'.at = "object" /\ Task(t)'.rv = <<>>
    BY <1>3 DEF NewTask, Task
  <1>6. TaskFits(t)'
    <2>1. Range(<<>>) = {} /\ <<>> \in Seq(Range(<<>>))
      BY DEF Range
    <2> QED
      BY <1>2, <1>5, <2>1 DEF TaskFits
  <1>7. Steps(t) /\ Proceeds(t)
    BY <1>1, <1>2, <1>3, <1>4, <1>5, <1>6 DEF Steps, Proceeds
  <1>8. \A p \in DOMAIN sorter'.metas : Described(p)'
    BY <1>1, <1>3, <1>4, DescribedKept DEF SorterInv
  <1>9. ASSUME NEW id \in sorter'.ids, id \notin sorter.ids
        PROVE  \E p \in DOMAIN sorter.bucket : Stored(p) /\ p[1] = Id(id)
    <2>1. PICK o \in Range(Task(t).rv) : UnifiedId(o) = id
      BY <1>3, <1>9
    <2>2. TargetFilename(o) # <<>> /\ Stored(TargetFilename(o))
      BY <1>1 DEF TaskFits
    <2> QED
      BY <2>1, <2>2, FilenameIs DEF Stored
  <1>10. \A id \in DOMAIN sorter'.candidates :
            (id \in DOMAIN sorter.candidates /\ sorter'.candidates[id] = sorter.candidates[id]) \/ CandidateFits(id)'
    BY <1>1, <1>3, CandidatesOf
  <1>11. sorter.pc = "bundles" => sorter'.candidates = sorter.candidates
    BY <1>3 DEF Candidates
  <1>12. ASSUME NEW id, IsBundleOf(Input(t), id), Waiting(t) PROVE FALSE
    <2>1. Len(Entry(t)) = 1 /\ Task(t).obj = 1 /\ Task(t).at = "object"
      BY <1>1, <1>12, WaitingIs DEF Waiting
    <2> QED
      BY <1>1, <2>1
  <1> QED
    BY <1>1, <1>3, <1>7, <1>8, <1>9, <1>10, <1>11, <1>12, StepKeeps

-----------------------------------------------------------------------------
(* The source bundles *)

LEMMA SelectedIs ==
    ASSUME NEW s, s \in Seq(Range(s)), NEW S \in SUBSET (1 .. Len(s)), S # {}
    PROVE  Min(S) \in 1 .. Len(s) /\ Min(S) \in S /\ s[Min(S)] \in Range(s)
  <1>1. S \in SUBSET Nat
    OBVIOUS
  <1>2. PICK m \in S : \A k \in S : m <= k
    BY <1>1, LeastNat
  <1>3. Min(S) \in S
    BY <1>2 DEF Min
  <1>4. Min(S) \in 1 .. Len(s)
    <2> HIDE DEF Min
    <2> QED
      BY <1>3
  <1>5. DOMAIN s = 1 .. Len(s)
    OBVIOUS
  <1> QED
    BY <1>3, <1>4, <1>5 DEF Range

LEMMA BundleMade ==
    ASSUME NEW input, IsInput(input), ~input.zip, input.entries[1] # Unset,
           \E o \in Range(input.entries[1]) : o.kind = "debug",
           NEW id, id # Unset, HasSources(id, input)
    PROVE  IsInput(CreateSourceBundle(id, input)) /\ IsBundleOf(CreateSourceBundle(id, input), id)
  <1> DEFINE objs == input.entries[1]
             S == {i \in 1 .. Len(objs) : UnifiedId(objs[i]) = id /\ objs[i].sources}
             b == SourceBundleOf(objs[Min(S)])
             made == [zip |-> FALSE, entries |-> <<<<b>>>>]
  <1>1. /\ objs \in Seq(Range(objs)) /\ objs # Unset
        /\ \A o \in Range(objs) : IsObject(o) /\ (o.format = "pe" => Len(objs) = 1) /\ <<SourceBundleOf(o)>> # Unset
    <2>1. Len(input.entries) = 1 /\ input.entries \in Seq(Range(input.entries))
      BY DEF IsInput
    <2>2. 1 \in DOMAIN input.entries
      BY <2>1
    <2>3. objs \in Range(input.entries) \ {Unset}
      BY <2>2 DEF Range
    <2> QED
      BY <2>3 DEF IsInput
  <1>2. S # {}
    BY <1>1 DEF HasSources, Range
  <1>3. CreateSourceBundle(id, input) = made
    BY <1>2 DEF CreateSourceBundle, SelectInSeq
  <1>4. PICK o \in Range(objs) : o = objs[Min(S)] /\ UnifiedId(o) = id
    <2>1. S \in SUBSET (1 .. Len(objs))
      OBVIOUS
    <2>2. Min(S) \in S /\ objs[Min(S)] \in Range(objs)
      <3> HIDE DEF S, objs
      <3> QED
        BY <1>1, <1>2, <2>1, SelectedIs
    <2>3. UnifiedId(objs[Min(S)]) = id
      BY <2>2
    <2> QED
      BY <2>2, <2>3
  <1>5. b = SourceBundleOf(o) /\ <<b>> # Unset /\ IsObject(o)
    BY <1>1, <1>4
  <1> HIDE DEF objs, S, b
  <1>6. o.format # "pe"
    <2> SUFFICES ASSUME o.format = "pe" PROVE FALSE
      OBVIOUS
    <2>1. PICK d \in Range(objs) : d.kind = "debug"
      BY DEF objs
    <2>2. Len(objs) = 1 /\ DOMAIN objs = 1 .. Len(objs)
      BY <1>1
    <2>3. d = o
      BY <2>2 DEF Range
    <2> QED
      BY <1>5, <2>1, <2>3 DEF IsObject
  <1>7. /\ b.format = "sourcebundle" /\ b.type = o.type /\ b.kind = "sources" /\ b.code_id = o.code_id
        /\ b.debug_id = o.debug_id /\ SourceBundleOf(b) = b
    BY <1>5 DEF SourceBundleOf
  <1>8. UnifiedId(b) = id
    BY <1>4, <1>6, <1>7 DEF UnifiedId
  <1>9. TargetFilename(b) = BundlePath(id)
    <2>1. TargetSuffix(b) = "sourcebundle"
      BY <1>7 DEF TargetSuffix
    <2> QED
      BY <1>8, <2>1 DEF TargetFilename, BundlePath
  <1>10. IsObject(b)
    BY <1>5, <1>7 DEF IsObject
  <1>11. made.zip = FALSE /\ made.entries = <<<<b>>>>
    OBVIOUS
  <1>12. IsInput(made)
    <2>1. /\ Range(<<<<b>>>>) = {<<b>>} /\ <<<<b>>>> \in Seq({<<b>>}) /\ Len(<<<<b>>>>) = 1
          /\ Range(<<b>>) = {b} /\ <<b>> \in Seq({b})
      BY DEF Range
    <2> QED
      BY <1>5, <1>7, <1>10, <1>11, <2>1 DEF IsInput
  <1> QED
    BY <1>3, <1>5, <1>7, <1>9, <1>11, <1>12 DEF IsBundleOf

LEMMA CreateSourceBundlesInv ==
    ASSUME SorterInv, CreateSourceBundles
    PROVE  SorterInv'
  <1> DEFINE olds == DOMAIN sorter.inputs
             news == {<<"bundle", id>> : id \in Bundled}
             Bundle(t) == CreateSourceBundle(t[2], sorter.inputs[sorter.candidates[t[2]]])
  <1>1. sorter = [x \in SorterFields |-> sorter[x]] /\ sorter.pc = "sort" /\ AllDone /\ DOMAIN sorter.tasks = olds
    BY DEF SorterInv, CreateSourceBundles
  <1>2. /\ sorter' = [x \in SorterFields |-> sorter'[x]] /\ sorter'.pc = "bundles"
        /\ sorter'.inputs = [t \in olds \cup news |-> IF t \in olds THEN sorter.inputs[t] ELSE Bundle(t)]
        /\ sorter'.tasks = [t \in olds \cup news |-> IF t \in olds THEN sorter.tasks[t] ELSE NewTask]
        /\ sorter'.bucket = sorter.bucket /\ sorter'.metas = sorter.metas
        /\ sorter'.ids = sorter.ids /\ sorter'.candidates = sorter.candidates /\ sorter'.faulty = sorter.faulty
    BY <1>1 DEF SorterFields, CreateSourceBundles
  <1>3. PICK old, new : old = olds /\ new = news
    OBVIOUS
  <1>4. /\ DOMAIN sorter'.inputs = old \cup new /\ DOMAIN sorter'.tasks = old \cup new
        /\ \A t \in old : Input(t)' = Input(t) /\ Task(t)' = Task(t)
        /\ \A t \in new : t \notin old => Input(t)' = Bundle(t) /\ Task(t)' = NewTask
    BY <1>2, <1>3 DEF Input, Task
  <1>5. ASSUME NEW t \in old, NEW p PROVE Places(t, p)' = Places(t, p)
    BY <1>4 DEF Places, Input
  <1>6. \A p : Rivals(p) \subseteq Rivals(p)'
    BY <1>3, <1>4, <1>5 DEF Rivals
  <1>7. ASSUME NEW t \in old, LostIds(t) PROVE LostIds(t)'
    <2>1. CASE t \in sorter.faulty
      BY <1>2, <2>1 DEF LostIds
    <2>2. ASSUME NEW p \in DOMAIN sorter.bucket, t \in Rivals(p),
                 sorter.bucket[p].input # t \/ \E a, b \in Places(t, p) : a # b
          PROVE  LostIds(t)'
      BY <1>2, <1>5, <1>6, <2>2 DEF LostIds
    <2> QED
      BY <1>7, <2>1, <2>2 DEF LostIds
  <1>8. ASSUME NEW id \in Bundled
        PROVE  /\ <<"bundle", id>> \in new /\ <<"bundle", id>> \notin old
               /\ Input(<<"bundle", id>>)' = CreateSourceBundle(id, sorter.inputs[sorter.candidates[id]])
               /\ IsInput(Input(<<"bundle", id>>)') /\ IsBundleOf(Input(<<"bundle", id>>)', id)
    <2>1. <<"bundle", id>> \in new
      BY <1>3
    <2>2. <<"bundle", id>> \notin old
      <3>1. ASSUME NEW x, <<"bundle", id>> = <<"file", x>> PROVE FALSE
        BY <3>1
      <3> QED
        BY <1>1, <1>3, <3>1 DEF SorterInv
    <2>3. Input(<<"bundle", id>>)' = CreateSourceBundle(id, sorter.inputs[sorter.candidates[id]])
      BY <1>4, <2>1, <2>2
    <2>4. CandidateFits(id) /\ sorter.candidates[id] # NoBundle /\ HasSources(id, sorter.inputs[sorter.candidates[id]])
      BY <1>1 DEF SorterInv, Bundled
    <2>5. /\ sorter.candidates[id] \in DOMAIN sorter.inputs /\ ~Input(sorter.candidates[id]).zip /\ id # Unset
          /\ Input(sorter.candidates[id]).entries[1] # Unset
          /\ \E o \in Range(Input(sorter.candidates[id]).entries[1]) : o.kind = "debug"
      BY <2>4 DEF CandidateFits
    <2>6. IsInput(sorter.inputs[sorter.candidates[id]])
      BY <1>1, <2>5 DEF SorterInv, Input
    <2> QED
      BY <2>1, <2>2, <2>3, <2>4, <2>5, <2>6, BundleMade DEF Input
  <1>9. \A t \in new : \E id \in Bundled : t = <<"bundle", id>>
    BY <1>3
  <1>10. ASSUME NEW t \in old \cup new PROVE IsInput(Input(t)')
    BY <1>1, <1>3, <1>4, <1>8, <1>9 DEF SorterInv
  <1>11. ASSUME NEW t \in old \cup new PROVE TaskFits(t)'
    <2>1. CASE t \in old
      <3>1. TaskFits(t)
        BY <1>1, <1>3, <2>1 DEF SorterInv
      <3>2. \A p : Stored(p)' <=> Stored(p)
        BY <1>2 DEF Stored
      <3>3. /\ HasEntry(t)' <=> HasEntry(t)
            /\ Entry(t)' = Entry(t) /\ Object(t)' = Object(t)
        BY <1>4, <2>1 DEF HasEntry, Entry, Object
      <3> QED
        BY <1>2, <1>4, <1>7, <2>1, <3>1, <3>2, <3>3 DEF TaskFits
    <2>2. CASE t \notin old
      <3>1. Task(t)' = NewTask
        BY <1>4, <2>2
      <3>2. Range(<<>>) = {} /\ <<>> \in Seq(Range(<<>>))
        BY DEF Range
      <3> QED
        BY <3>1, <3>2 DEF TaskFits, NewTask
    <2> QED
      BY <2>1, <2>2
  <1>12. ASSUME NEW p \in DOMAIN sorter.bucket PROVE FileFits(p)'
    <2>1. PICK t : t = sorter.bucket[p].input
      OBVIOUS
    <2>2. FileFits(p)
      BY <1>1 DEF SorterInv
    <2>3. t \in old /\ sorter'.bucket[p].input = t
      BY <1>2, <1>3, <2>1, <2>2 DEF FileFits
    <2>4. PICK place \in Places(t, p) : Passed(t, place) /\ sorter.bucket[p].obj = Input(t).entries[place[1]][place[2]]
      BY <2>1, <2>2 DEF FileFits
    <2>5. place \in Places(t, p)' /\ Passed(t, place)' /\ sorter'.bucket[p].obj = Input(t)'.entries[place[1]][place[2]]
      BY <1>2, <1>4, <1>5, <2>3, <2>4 DEF Passed
    <2>6. Stored(p)' => p[1][1] \in sorter'.ids \/ LostIds(t)' \/ \E o \in Range(Task(t)'.rv) : UnifiedId(o) = p[1][1]
      BY <1>2, <1>4, <1>7, <2>1, <2>2, <2>3 DEF FileFits, Stored
    <2>7. t \in DOMAIN sorter'.inputs /\ p \in DOMAIN sorter'.metas /\ p # <<>> /\ sorter'.bucket[p].obj.kind \in Accepted
      BY <1>2, <1>4, <2>2, <2>3 DEF FileFits
    <2> QED
      BY <2>3, <2>5, <2>6, <2>7 DEF FileFits
  <1>13. \A p \in DOMAIN sorter'.metas : Described(p)'
    BY <1>1, <1>2, <1>6 DEF SorterInv, Described
  <1>14. \A id \in sorter'.ids : \E p \in DOMAIN sorter'.bucket : Stored(p)' /\ p[1] = Id(id)
    BY <1>1, <1>2 DEF SorterInv, Stored
  <1>15. ASSUME NEW id \in DOMAIN sorter'.candidates PROVE CandidateFits(id)'
    <2>1. CandidateFits(id) /\ (sorter.candidates[id] \in old => Input(sorter.candidates[id])' = Input(sorter.candidates[id]))
      <3>1. PICK t : t = sorter.candidates[id]
        OBVIOUS
      <3> QED
        BY <1>1, <1>2, <1>4, <3>1 DEF SorterInv, Input
    <2> QED
      BY <1>2, <1>3, <1>4, <2>1 DEF CandidateFits, Input
  <1>16. ASSUME NEW id \in Bundled' PROVE BundleFits(id)'
    <2>1. id \in DOMAIN sorter.candidates /\ sorter.candidates[id] # NoBundle /\ HasSources(id, sorter'.inputs[sorter.candidates[id]])
      BY <1>2 DEF Bundled
    <2>2. sorter.candidates[id] \in old
      BY <1>1, <1>3, <2>1 DEF SorterInv, CandidateFits
    <2>3. id \in Bundled
      BY <1>2, <1>3, <2>1, <2>2 DEF Bundled
    <2>4. Task(<<"bundle", id>>)' = NewTask
      BY <1>4, <1>8, <2>3
    <2>5. Waiting(<<"bundle", id>>)'
      BY <2>4 DEF Waiting, NewTask
    <2> QED
      BY <1>4, <1>8, <2>3, <2>5 DEF BundleFits
  <1> HIDE DEF olds, news, Bundle
  <1> QED
    BY <1>2, <1>4, <1>10, <1>11, <1>12, <1>13, <1>14, <1>15, <1>16 DEF SorterInv

LEMMA WriteBundleMetaInv ==
    ASSUME SorterInv, WriteBundleMeta
    PROVE  SorterInv'
  <1>1. sorter = [x \in SorterFields |-> sorter[x]] /\ sorter.pc = "bundles" /\ AllDone
    BY DEF SorterInv, WriteBundleMeta
  <1>2. /\ sorter' = [x \in SorterFields |-> sorter'[x]] /\ sorter'.pc = "done"
        /\ sorter'.inputs = sorter.inputs /\ sorter'.bucket = sorter.bucket /\ sorter'.metas = sorter.metas
        /\ sorter'.ids = sorter.ids /\ sorter'.candidates = sorter.candidates /\ sorter'.tasks = sorter.tasks
        /\ sorter'.faulty = sorter.faulty
    BY <1>1 DEF SorterFields, WriteBundleMeta
  <1>3. /\ \A t : Input(t)' = Input(t) /\ Task(t)' = Task(t)
        /\ \A p : Rivals(p)' = Rivals(p) /\ Stored(p)' = Stored(p)
        /\ \A t, p : Places(t, p)' = Places(t, p)
    BY <1>2 DEF Input, Task, Rivals, Places, Stored
  <1>4. \A t : LostIds(t)' <=> LostIds(t)
    BY <1>2, <1>3 DEF LostIds
  <1>5. \A t : /\ HasEntry(t)' <=> HasEntry(t)
               /\ Entry(t)' = Entry(t) /\ Object(t)' = Object(t)
    BY <1>2 DEF HasEntry, Entry, Object, Input, Task
  <1>6. ASSUME NEW t \in DOMAIN sorter.tasks PROVE TaskFits(t)'
    <2>1. TaskFits(t)
      BY <1>1 DEF SorterInv
    <2> QED
      BY <1>2, <1>3, <1>4, <1>5, <2>1 DEF TaskFits
  <1>7. ASSUME NEW p \in DOMAIN sorter.bucket PROVE FileFits(p)'
    <2>1. FileFits(p)
      BY <1>1 DEF SorterInv
    <2>2. PICK t : t = sorter.bucket[p].input
      OBVIOUS
    <2>3. \A place : Passed(t, place)' <=> Passed(t, place)
      BY <1>3 DEF Passed
    <2> QED
      BY <1>2, <1>3, <1>4, <2>1, <2>2, <2>3 DEF FileFits
  <1>8. ASSUME NEW id \in DOMAIN sorter.candidates PROVE CandidateFits(id)'
    <2>1. CandidateFits(id)
      BY <1>1 DEF SorterInv
    <2> QED
      BY <1>2, <2>1 DEF CandidateFits, Input
  <1>9. ASSUME NEW id \in Bundled' PROVE BundleFits(id)'
    <2>1. BundleFits(id)
      BY <1>1, <1>2 DEF SorterInv, Bundled
    <2> QED
      BY <1>2, <1>3, <2>1 DEF BundleFits, Waiting
  <1>10. AllDone'
    BY <1>1, <1>2, <1>3 DEF AllDone
  <1>11. /\ \A t \in DOMAIN sorter'.inputs : IsInput(Input(t)')
         /\ DOMAIN sorter'.tasks = DOMAIN sorter'.inputs
         /\ \A p \in DOMAIN sorter'.metas : Described(p)'
         /\ \A id \in sorter'.ids : \E p \in DOMAIN sorter'.bucket : Stored(p)' /\ p[1] = Id(id)
    BY <1>1, <1>2, <1>3 DEF SorterInv, Described
  <1> QED
    BY <1>2, <1>6, <1>7, <1>8, <1>9, <1>10, <1>11 DEF SorterInv

LEMMA EndFailsInv ==
    ASSUME SorterInv, EndFails
    PROVE  SorterInv'
  <1>1. sorter' = [x \in SorterFields |-> sorter'[x]] /\ sorter'.pc = "failed"
    BY DEF SorterInv, EndFails, SorterFields
  <1> QED
    BY <1>1, FailedInv

LEMMA SorterInitInv ==
    ASSUME SorterInit
    PROVE  SorterInv
  <1>1. PICK job \in SortJobs : sorter = SortStarted(job)
    BY DEF SorterInit
  <1> DEFINE files == {<<"file", i>> : i \in DOMAIN job.inputs}
  <1>2. /\ sorter = [x \in SorterFields |-> sorter[x]] /\ sorter.pc = "sort"
        /\ sorter.inputs = [f \in files |-> job.inputs[f[2]]] /\ sorter.tasks = [f \in files |-> NewTask]
        /\ DOMAIN sorter.bucket = {} /\ DOMAIN sorter.metas = {} /\ sorter.ids = {} /\ DOMAIN sorter.candidates = {}
    <2>1. /\ sorter = [x \in SorterFields |-> sorter[x]] /\ sorter.pc = "sort"
          /\ sorter.inputs = [f \in files |-> job.inputs[f[2]]] /\ sorter.tasks = [f \in files |-> NewTask]
          /\ sorter.bucket = <<>> /\ sorter.metas = <<>> /\ sorter.ids = {} /\ sorter.candidates = <<>>
      <3> HIDE DEF NewTask
      <3>1. PICK inputs, tasks : inputs = [f \in files |-> job.inputs[f[2]]] /\ tasks = [f \in files |-> NewTask]
        OBVIOUS
      <3>2. sorter = [pc |-> "sort", job |-> job, inputs |-> inputs, tasks |-> tasks,
                      bucket |-> <<>>, metas |-> <<>>, ids |-> {}, candidates |-> <<>>, faulty |-> {}]
        BY <1>1, <3>1 DEF SortStarted
      <3> HIDE DEF files
      <3> QED
        BY <3>1, <3>2 DEF SorterFields
    <2>2. DOMAIN <<>> = {}
      OBVIOUS
    <2> QED
      BY <2>1, <2>2
  <1>3. ASSUME NEW t \in files PROVE IsInput(Input(t)) /\ t = <<"file", t[2]>> /\ TaskFits(t)
    <2>1. PICK i \in DOMAIN job.inputs : t = <<"file", i>>
      OBVIOUS
    <2>2. t[2] = i /\ Input(t) = job.inputs[i]
      BY <1>2, <2>1 DEF Input
    <2>3. IsInput(Input(t))
      BY <2>2, SortJobsAssumption
    <2>4. Task(t) = NewTask
      BY <1>2 DEF Task
    <2>5. Range(<<>>) = {} /\ <<>> \in Seq(Range(<<>>))
      BY DEF Range
    <2>6. TaskFits(t)
      BY <2>4, <2>5 DEF TaskFits, NewTask
    <2> QED
      BY <2>1, <2>2, <2>3, <2>6
  <1> HIDE DEF files
  <1> QED
    BY <1>2, <1>3 DEF SorterInv

LEMMA SorterStutter ==
    ASSUME SorterInv, UNCHANGED sorter
    PROVE  SorterInv'
  <1>1. sorter' = sorter
    OBVIOUS
  <1>2. /\ \A t : Input(t)' = Input(t) /\ Task(t)' = Task(t)
        /\ \A p : Rivals(p)' = Rivals(p) /\ Stored(p)' = Stored(p)
        /\ \A t, p : Places(t, p)' = Places(t, p)
        /\ Bundled' = Bundled
    BY <1>1 DEF Input, Task, Rivals, Places, Stored, Bundled
  <1>3. \A t : LostIds(t)' <=> LostIds(t)
    BY <1>1, <1>2 DEF LostIds
  <1>4. \A t : /\ HasEntry(t)' <=> HasEntry(t)
               /\ Entry(t)' = Entry(t) /\ Object(t)' = Object(t)
    BY <1>2 DEF HasEntry, Entry, Object
  <1>5. \A t : TaskFits(t) => TaskFits(t)'
    BY <1>1, <1>2, <1>3, <1>4 DEF TaskFits
  <1>6. ASSUME NEW p, FileFits(p) PROVE FileFits(p)'
    <2>1. PICK t : t = sorter.bucket[p].input
      OBVIOUS
    <2>2. \A place : Passed(t, place)' <=> Passed(t, place)
      BY <1>2 DEF Passed
    <2> QED
      BY <1>1, <1>2, <1>3, <1>6, <2>1, <2>2 DEF FileFits
  <1>7. \A id : CandidateFits(id) => CandidateFits(id)'
    BY <1>1, <1>2 DEF CandidateFits
  <1>8. \A id : BundleFits(id) => BundleFits(id)'
    BY <1>1, <1>2 DEF BundleFits, Waiting
  <1>9. AllDone => AllDone'
    BY <1>1, <1>2 DEF AllDone
  <1>10. \A p : Described(p) => Described(p)'
    BY <1>1, <1>2 DEF Described
  <1> QED
    BY <1>1, <1>2, <1>5, <1>6, <1>7, <1>8, <1>9, <1>10 DEF SorterInv

LEMMA Sorted == SorterSpec => []SorterInv
  <1>1. SorterInit => SorterInv
    BY SorterInitInv
  <1>2. SorterInv /\ [SorterNext]_sorter => SorterInv'
    <2> SUFFICES ASSUME SorterInv, SorterNext PROVE SorterInv'
      BY SorterStutter
    <2>1. ASSUME NEW t \in DOMAIN sorter.tasks, TaskStep(t) PROVE SorterInv'
      BY <2>1, ParseFailsInv, WriteMetaInv, MetaFailsInv, DuplicateInv, StoreObjectInv, StoreFailsInv, ReportInv,
         EndOfFileInv DEF TaskStep
    <2> QED
      BY <2>1, CreateSourceBundlesInv, WriteBundleMetaInv, EndFailsInv DEF SorterNext
  <1> QED
    BY <1>1, <1>2, PTL DEF SorterSpec

-----------------------------------------------------------------------------
(* Where an object is looked up *)

LEMMA FlattenIs ==
    ASSUME NEW S, NEW seqs \in Seq(Seq(S))
    PROVE  /\ FlattenSeq(seqs) \in Seq(S)
           /\ \A x : x \in Range(FlattenSeq(seqs)) <=> \E i \in 1 .. Len(seqs) : x \in Range(seqs[i])
  <1> DEFINE n == Len(seqs)
             Flattens(h) == h = [i \in 1 .. n |-> IF i = 1 THEN seqs[i] ELSE h[i - 1] \o seqs[i]]
             flat == CHOOSE h : Flattens(h)
  <1>1. n \in Nat /\ \A i \in 1 .. n : seqs[i] \in Seq(S)
    OBVIOUS
  <1>2. FlattenSeq(seqs) = IF n = 0 THEN seqs ELSE flat[n]
    BY DEF FlattenSeq
  <1>3. CASE n = 0
    <2>1. seqs = <<>> /\ Range(<<>>) = {} /\ <<>> \in Seq(S)
      BY <1>3 DEF Range
    <2> QED
      BY <1>2, <1>3, <2>1
  <1>4. CASE n # 0
    <2> DEFINE F == [x \in Seq(S) \X (1 .. n) |-> x[1] \o seqs[x[2]]]
    <2>1. F \in [Seq(S) \X (1 .. n) -> Seq(S)] /\ <<>> \in Seq(S)
      BY <1>1
    <2>2. PICK f \in [0 .. n -> Seq(S)] : Rounds(f, F, <<>>, n)
      <3> HIDE DEF F
      <3> QED
        BY <1>1, <2>1, RoundsStay
    <2>3. f[0] = <<>> /\ \A i \in 1 .. n : f[i - 1] \in Seq(S) /\ f[i] = f[i - 1] \o seqs[i]
      <3> DEFINE R == [i \in 0 .. n |-> IF i = 0 THEN <<>> ELSE F[<<f[i - 1], i>>]]
      <3>1. f = R
        BY <2>2 DEF Rounds
      <3>2. f[0] = <<>>
        <4>1. R[0] = <<>>
          BY <1>1
        <4> HIDE DEF R
        <4> QED
          BY <3>1, <4>1
      <3>3. ASSUME NEW i \in 1 .. n PROVE f[i - 1] \in Seq(S) /\ f[i] = f[i - 1] \o seqs[i]
        <4>1. i \in 0 .. n /\ i # 0 /\ i - 1 \in 0 .. n
          BY <1>1
        <4>2. R[i] = F[<<f[i - 1], i>>]
          BY <4>1
        <4>3. f[i - 1] \in Seq(S)
          BY <4>1
        <4>4. F[<<f[i - 1], i>>] = f[i - 1] \o seqs[i]
          BY <4>3
        <4> HIDE DEF R, F
        <4> QED
          BY <3>1, <4>2, <4>3, <4>4
      <3> QED
        BY <3>2, <3>3
    <2>4. \E h : Flattens(h)
      <3> DEFINE h == [i \in 1 .. n |-> f[i]]
      <3>1. ASSUME NEW i \in 1 .. n
            PROVE  h[i] = IF i = 1 THEN seqs[i] ELSE h[i - 1] \o seqs[i]
        <4>1. h[i] = f[i - 1] \o seqs[i]
          BY <2>3
        <4>2. CASE i = 1
          <5>1. f[i - 1] = <<>> /\ seqs[i] \in Seq(S)
            BY <1>1, <2>3, <4>2
          <5>2. <<>> \o seqs[i] = seqs[i]
            BY <5>1
          <5> QED
            BY <4>1, <4>2, <5>1, <5>2
        <4>3. CASE i # 1
          <5>1. i - 1 \in 1 .. n
            BY <1>1, <4>3
          <5>2. h[i - 1] = f[i - 1]
            BY <5>1
          <5> QED
            BY <4>1, <4>3, <5>2
        <4> QED
          BY <4>2, <4>3
      <3>2. h = [i \in 1 .. n |-> h[i]]
        OBVIOUS
      <3> HIDE DEF h, n
      <3>3. Flattens(h)
        BY <3>1, <3>2
      <3> QED
        BY <3>3
    <2>5. Flattens(flat)
      <3> HIDE DEF Flattens
      <3> QED
        BY <2>4
    <2>6. \A i \in 1 .. n : flat[i] = IF i = 1 THEN seqs[i] ELSE flat[i - 1] \o seqs[i]
      <3> HIDE DEF flat
      <3> QED
        BY <2>5
    <2> DEFINE P(k) == /\ flat[k] \in Seq(S)
                       /\ \A x : x \in Range(flat[k]) <=> \E j \in 1 .. k : x \in Range(seqs[j])
               T == {i \in Nat : i < n => P(i + 1)}
    <2> HIDE DEF flat
    <2>7. 0 \in T
      <3>1. 1 \in 1 .. n /\ 1 .. 0 + 1 = {1}
        BY <1>1, <1>4
      <3>2. flat[0 + 1] = seqs[1]
        BY <2>6, <3>1
      <3> QED
        BY <1>1, <3>1, <3>2
    <2>8. ASSUME NEW i \in T PROVE i + 1 \in T
      <3> SUFFICES ASSUME i + 1 < n PROVE P(i + 2)
        <4>1. i \in Nat /\ i + 1 \in Nat /\ (i + 1) + 1 = i + 2
          OBVIOUS
        <4> HIDE DEF P
        <4> QED
          BY <4>1
      <3>1. /\ i \in Nat /\ i < n /\ i + 2 \in 1 .. n /\ i + 2 # 1 /\ (i + 2) - 1 = i + 1
            /\ flat[i + 1] \in Seq(S)
            /\ \A x : x \in Range(flat[i + 1]) <=> \E j \in 1 .. i + 1 : x \in Range(seqs[j])
        BY <1>1
      <3>2. flat[i + 2] = flat[i + 1] \o seqs[i + 2] /\ seqs[i + 2] \in Seq(S)
        BY <1>1, <2>6, <3>1
      <3>3. Range(flat[i + 2]) = Range(flat[i + 1]) \cup Range(seqs[i + 2])
        <4>1. PICK a, b : a = flat[i + 1] /\ b = seqs[i + 2]
          OBVIOUS
        <4>2. a \in Seq(S) /\ b \in Seq(S)
          BY <3>1, <3>2, <4>1
        <4>3. Range(a \o b) = Range(a) \cup Range(b)
          BY <4>2, RangeConcatenation
        <4> QED
          BY <3>2, <4>1, <4>3
      <3>4. \A j : j \in 1 .. i + 2 <=> j \in 1 .. i + 1 \/ j = i + 2
        BY <3>1
      <3> QED
        BY <3>1, <3>2, <3>3, <3>4
    <2> HIDE DEF T
    <2>9. n - 1 \in T
      <3>1. Nat \subseteq T
        BY <2>7, <2>8, SetInduction
      <3> QED
        BY <1>1, <1>4, <3>1
    <2>10. (n - 1) + 1 = n /\ n - 1 < n
      BY <1>1
    <2> QED
      BY <1>2, <1>4, <2>9, <2>10 DEF T
  <1> QED
    BY <1>3, <1>4

\* The paths in a directory of the Unified layout
Directory(filetype, id) == DirectoryPaths("unified", "default", filetype, id)

LEMMA DirectoryIs ==
    ASSUME NEW filetype, NEW id, NEW paths, paths = UnifiedPaths(filetype, id)
    PROVE  /\ paths = <<>> => Directory(filetype, id) \in Seq({}) /\ Range(Directory(filetype, id)) = {}
           /\ \A p : paths = <<p>> => /\ Directory(filetype, id) \in Seq({p, Compressed(p)})
                                      /\ p \in Range(Directory(filetype, id))
  <1> DEFINE cased == [i \in DOMAIN paths |-> Cased(paths[i], "default")]
             both == [i \in DOMAIN cased |-> <<Compressed(cased[i]), cased[i]>>]
  <1>1. Directory(filetype, id) = IF filetype \notin {"Pdb", "Pe"} THEN cased ELSE FlattenSeq(both)
    BY DEF Directory, DirectoryPaths, LayoutPaths
  <1>2. ASSUME paths = <<>> PROVE Directory(filetype, id) \in Seq({}) /\ Range(Directory(filetype, id)) = {}
    <2>1. DOMAIN paths = {} /\ cased = <<>> /\ both = <<>>
      BY <1>2
    <2>2. <<>> \in Seq({}) /\ <<>> \in Seq(Seq({})) /\ Range(<<>>) = {} /\ Len(<<>>) = 0
      BY DEF Range
    <2>3. FlattenSeq(<<>>) = <<>>
      BY <2>2 DEF FlattenSeq
    <2> HIDE DEF cased, both
    <2> QED
      BY <1>1, <2>1, <2>2, <2>3
  <1>3. ASSUME NEW p, paths = <<p>>
        PROVE  Directory(filetype, id) \in Seq({p, Compressed(p)}) /\ p \in Range(Directory(filetype, id))
    <2>1. DOMAIN paths = 1 .. 1 /\ paths[1] = p
      BY <1>3
    <2>2. Cased(p, "default") = p
      BY DEF Cased
    <2>3. cased = [i \in 1 .. 1 |-> p]
      BY <2>1, <2>2
    <2>4. both = [i \in 1 .. 1 |-> <<Compressed(p), p>>]
      <3> HIDE DEF cased
      <3> QED
        BY <2>3
    <2> HIDE DEF cased, both
    <2>5. cased \in Seq({p, Compressed(p)}) /\ p \in Range(cased)
      <3>1. cased \in Seq({p, Compressed(p)}) /\ DOMAIN cased = 1 .. 1 /\ cased[1] = p
        BY <2>3
      <3> QED
        BY <3>1 DEF Range
    <2>6. FlattenSeq(both) \in Seq({p, Compressed(p)}) /\ p \in Range(FlattenSeq(both))
      <3>1. PICK c : c = Compressed(p)
        OBVIOUS
      <3>2. <<c, p>> \in Seq({p, c}) /\ p \in Range(<<c, p>>)
        <4>1. <<c, p>> \in Seq({p, c}) /\ DOMAIN <<c, p>> = 1 .. 2 /\ <<c, p>>[2] = p
          OBVIOUS
        <4> QED
          BY <4>1 DEF Range
      <3>3. both \in Seq(Seq({p, c})) /\ Len(both) = 1 /\ both[1] = <<c, p>>
        <4>1. PICK pair : pair = <<c, p>>
          OBVIOUS
        <4>2. both = [i \in 1 .. 1 |-> pair] /\ pair \in Seq({p, c})
          BY <2>4, <3>1, <3>2, <4>1
        <4> QED
          BY <4>1, <4>2
      <3>4. 1 \in 1 .. 1
        OBVIOUS
      <3> QED
        BY <3>1, <3>2, <3>3, <3>4, FlattenIs
    <2> QED
      BY <1>1, <2>5, <2>6
  <1> QED
    BY <1>2, <1>3

\* A path of two parts is looked up for one of the file types.
LEMMA LocationsAre ==
    ASSUME NEW types, types \in Seq(Range(types)), NEW id, NEW a, NEW b
    PROVE  <<a, b>> \in Range(Locations(SourceOf("unified"), types, id))
              <=> \E filetype \in Range(types) :
                     /\ SearchTargetId(filetype, id) # Unset
                     /\ <<a, b>> = <<Id(SearchTargetId(filetype, id)), Word(UnifiedSuffix(filetype))>>
  <1> DEFINE Path(ft) == <<Id(SearchTargetId(ft, id)), Word(UnifiedSuffix(ft))>>
             n == Len(types)
             Some(ft) == {Path(ft), Compressed(Path(ft))}
             S == UNION {Some(types[i]) : i \in 1 .. n}
             seqs == [i \in DOMAIN types |-> Reverse(Directory(types[i], id))]
  <1>1. n \in Nat /\ DOMAIN types = 1 .. n /\ Range(types) = {types[i] : i \in 1 .. n}
    BY DEF Range
  <1>2. Locations(SourceOf("unified"), types, id) = FlattenSeq(seqs)
    BY DEF Locations, SourceOf, AnyFile, IsAllowed, Directory
  <1>3. \A ft : UnifiedPaths(ft, id) = IF SearchTargetId(ft, id) = Unset THEN <<>> ELSE <<Path(ft)>>
    BY DEF UnifiedPaths
  <1>4. ASSUME NEW ft
        PROVE  Len(Path(ft)) = 2 /\ Len(Compressed(Path(ft))) = 3
    <2>1. PICK x, y, z : x = Id(SearchTargetId(ft, id)) /\ y = Word(UnifiedSuffix(ft)) /\ z = Word("_")
      OBVIOUS
    <2>2. Path(ft) = <<x, y>> /\ Compressed(Path(ft)) = Append(<<x, y>>, z)
      BY <2>1 DEF Compressed
    <2>3. Len(<<x, y>>) = 2 /\ Len(Append(<<x, y>>, z)) = 3
      OBVIOUS
    <2> HIDE DEF Path
    <2> QED
      BY <2>2, <2>3
  <1> HIDE DEF Path
  <1>5. ASSUME NEW ft
        PROVE  /\ Directory(ft, id) \in Seq(Some(ft))
               /\ <<a, b>> \in Range(Directory(ft, id)) <=> SearchTargetId(ft, id) # Unset /\ <<a, b>> = Path(ft)
    <2>1. CASE SearchTargetId(ft, id) = Unset
      <3>1. Directory(ft, id) \in Seq({}) /\ Range(Directory(ft, id)) = {}
        BY <1>3, <2>1, DirectoryIs
      <3>2. {} \subseteq Some(ft)
        OBVIOUS
      <3> QED
        BY <2>1, <3>1, <3>2, SeqMonotonic
    <2>2. CASE SearchTargetId(ft, id) # Unset
      <3>1. Directory(ft, id) \in Seq(Some(ft)) /\ Path(ft) \in Range(Directory(ft, id))
        BY <1>3, <2>2, DirectoryIs
      <3>2. Range(Directory(ft, id)) \subseteq Some(ft)
        <4>1. PICK s, X : s = Directory(ft, id) /\ X = Some(ft)
          OBVIOUS
        <4> QED
          BY <3>1, <4>1, RangeOfSeq
      <3>3. Len(<<a, b>>) = 2
        OBVIOUS
      <3>4. <<a, b>> # Compressed(Path(ft))
        <4>1. PICK c, d : c = Compressed(Path(ft)) /\ d = <<a, b>>
          OBVIOUS
        <4>2. Len(c) = 3 /\ Len(d) = 2
          BY <1>4, <3>3, <4>1
        <4>3. c # d
          BY <4>2
        <4> QED
          BY <4>1, <4>3
      <3> QED
        BY <2>2, <3>1, <3>2, <3>4
    <2> QED
      BY <2>1, <2>2
  <1>6. ASSUME NEW i \in 1 .. n
        PROVE  seqs[i] \in Seq(S) /\ Range(seqs[i]) = Range(Directory(types[i], id))
    <2>1. seqs[i] = Reverse(Directory(types[i], id))
      BY <1>1
    <2>2. Some(types[i]) \subseteq S
      OBVIOUS
    <2> HIDE DEF S, seqs, Some
    <2>3. Directory(types[i], id) \in Seq(S)
      BY <1>5, <2>2, SeqMonotonic
    <2> QED
      BY <2>1, <2>3, ReverseIs
  <1>7. seqs \in Seq(Seq(S)) /\ Len(seqs) = n
    <2>1. DOMAIN seqs = 1 .. n /\ seqs = [i \in 1 .. n |-> seqs[i]]
      BY <1>1
    <2> HIDE DEF seqs, S
    <2>2. Len(seqs) = n
      BY <1>1, <2>1, LenProperties, IsASeq, <1>6
    <2> QED
      BY <1>1, <1>6, <2>1, <2>2, IsASeq
  <1>8. <<a, b>> \in Range(FlattenSeq(seqs)) <=> \E i \in 1 .. n : <<a, b>> \in Range(seqs[i])
    <2> HIDE DEF seqs, S
    <2> QED
      BY <1>7, FlattenIs
  <1>9. <<a, b>> \in Range(FlattenSeq(seqs))
           <=> \E i \in 1 .. n : SearchTargetId(types[i], id) # Unset /\ <<a, b>> = Path(types[i])
    <2> HIDE DEF seqs, S, Some, n
    <2>1. ASSUME NEW i \in 1 .. n
          PROVE  <<a, b>> \in Range(seqs[i]) <=> SearchTargetId(types[i], id) # Unset /\ <<a, b>> = Path(types[i])
      <3>1. Range(seqs[i]) = Range(Directory(types[i], id))
        BY <1>6
      <3>2. <<a, b>> \in Range(Directory(types[i], id))
               <=> SearchTargetId(types[i], id) # Unset /\ <<a, b>> = Path(types[i])
        BY <1>5
      <3> QED
        BY <3>1, <3>2
    <2> QED
      BY <1>8, <2>1
  <1> HIDE DEF seqs, S, n
  <1> QED
    BY <1>1, <1>2, <1>9 DEF Path

\* The two ids of an object are told apart.
LEMMA IdsDiffer ==
    ASSUME NEW o, IsObject(o)
    PROVE  /\ o.debug_id # Unset => /\ Breakpad(o.debug_id) # Unset /\ <<"uuid", o.debug_id.uuid>> # Unset
                                    /\ Breakpad(o.debug_id) # <<"uuid", o.debug_id.uuid>>
           /\ o.code_id # Unset => o.code_id # Breakpad(o.debug_id)
  <1>1. PICK u, v : u = o.debug_id.uuid /\ v = o.debug_id.age
    OBVIOUS
  <1>2. Breakpad(o.debug_id) = <<"breakpad", u, v>>
    BY <1>1 DEF Breakpad
  <1>3. <<"breakpad", u, v>>[1] = "breakpad" /\ <<"uuid", u>>[1] = "uuid"
    OBVIOUS
  <1>4. o.debug_id # Unset => /\ Breakpad(o.debug_id) # Unset /\ <<"uuid", o.debug_id.uuid>> # Unset
    BY DEF IsObject
  <1>5. <<"breakpad", u, v>> # <<"uuid", u>>
    BY <1>3
  <1>6. o.code_id # Unset => o.code_id # <<"breakpad", u, v>>
    BY <1>3 DEF IsObject
  <1> QED
    BY <1>1, <1>2, <1>4, <1>5, <1>6

\* The ids by which the file types of an object are looked up
LEMMA TargetsAre ==
    ASSUME NEW o, NEW c, c = o.code_id, NEW d, d = (IF o.debug_id # Unset THEN Breakpad(o.debug_id) ELSE Unset),
           NEW m, m = (IF c # Unset THEN c ELSE IF o.debug_id # Unset THEN <<"uuid", o.debug_id.uuid>> ELSE Unset)
    PROVE  /\ \A ft \in {"Pe", "Pdb", "PortablePdb"} : SearchTargetId(ft, IdentifierOf(o)) = d
           /\ \A ft \in {"MachCode", "MachDebug", "WasmCode", "WasmDebug"} : SearchTargetId(ft, IdentifierOf(o)) = m
           /\ \A ft \in {"ElfCode", "ElfDebug"} : SearchTargetId(ft, IdentifierOf(o)) = c
           /\ o.type = "elf" => SearchTargetId("SourceBundle", IdentifierOf(o)) = c
           /\ o.type \in {"macho", "wasm"} => SearchTargetId("SourceBundle", IdentifierOf(o)) = m
           /\ o.type \in {"pe", "pe_dotnet"} => SearchTargetId("SourceBundle", IdentifierOf(o)) = d
  <1> DEFINE id == IdentifierOf(o)
  <1>1. id.code_id = c /\ id.debug_id = o.debug_id /\ id.type = o.type
    BY DEF IdentifierOf
  <1>2. (Given(id, {"code_id"}) <=> c # Unset) /\ (Given(id, {"debug_id"}) <=> o.debug_id # Unset)
    BY <1>1 DEF Given
  <1> HIDE DEF id
  <1>3. ASSUME NEW ft, NEW target, target = TargetType(ft, id.type)
        PROVE  /\ target \in {"Pe", "Pdb", "PortablePdb"} => SearchTargetId(ft, id) = d
               /\ target \in {"MachCode", "MachDebug", "WasmCode", "WasmDebug"} => SearchTargetId(ft, id) = m
               /\ target \in {"ElfCode", "ElfDebug"} => SearchTargetId(ft, id) = c
    BY <1>1, <1>2, <1>3 DEF SearchTargetId
  <1>4. \A ft \in {"Pe", "Pdb", "PortablePdb", "MachCode", "MachDebug", "WasmCode", "WasmDebug", "ElfCode", "ElfDebug"} :
           TargetType(ft, id.type) = ft
    BY DEF TargetType
  <1>5. /\ o.type = "elf" => TargetType("SourceBundle", id.type) = "ElfCode"
        /\ o.type = "macho" => TargetType("SourceBundle", id.type) = "MachCode"
        /\ o.type = "wasm" => TargetType("SourceBundle", id.type) = "WasmCode"
        /\ o.type = "pe" => TargetType("SourceBundle", id.type) = "Pe"
        /\ o.type = "pe_dotnet" => TargetType("SourceBundle", id.type) = "PortablePdb"
    BY <1>1 DEF TargetType
  <1> QED
    BY <1>3, <1>4, <1>5 DEF id

TypesOf(o) == IF o.kind = "sources" THEN <<"SourceBundle">> ELSE FromObjectType(o.type)

LEMMA TypesAre ==
    ASSUME NEW o, o.type \in ObjectTypes
    PROVE  /\ TypesOf(o) \in Seq(Range(TypesOf(o)))
           /\ o.kind = "sources" => Range(TypesOf(o)) = {"SourceBundle"}
           /\ o.kind # "sources" =>
                 /\ o.type \in {"elf", "macho", "pe"} => Range(TypesOf(o)) =
                       {IF o.type = "macho" THEN "MachCode" ELSE IF o.type = "pe" THEN "Pe" ELSE "ElfCode",
                        "Breakpad", "MachDebug", "Pdb", "ElfDebug"}
                 /\ o.type = "wasm" => Range(TypesOf(o)) = {"WasmCode", "WasmDebug"}
                 /\ o.type = "pe_dotnet" => Range(TypesOf(o)) = {"PortablePdb"}
  <1>1. ASSUME NEW x PROVE Range(<<x>>) = {x} /\ <<x>> \in Seq(Range(<<x>>))
    <2>1. Range(<<x>>) = {x} /\ <<x>> \in Seq({x})
      BY DEF Range
    <2> QED
      BY <2>1
  <1>2. ASSUME NEW x, NEW y PROVE Range(<<x, y>>) = {x, y} /\ <<x, y>> \in Seq(Range(<<x, y>>))
    <2>1. Range(<<x, y>>) = {x, y} /\ <<x, y>> \in Seq({x, y})
      BY DEF Range
    <2> QED
      BY <2>1
  <1>3. ASSUME NEW x, NEW y, NEW z, NEW u, NEW v
        PROVE  Range(<<x, y, z, u, v>>) = {x, y, z, u, v} /\ <<x, y, z, u, v>> \in Seq(Range(<<x, y, z, u, v>>))
    <2>1. <<x, y, z, u, v>> \in Seq({x, y, z, u, v})
      OBVIOUS
    <2>2. Range(<<x, y, z, u, v>>) = {x, y, z, u, v}
      BY DEF Range
    <2> QED
      BY <2>1, <2>2
  <1>4. CASE o.kind = "sources"
    BY <1>1, <1>4 DEF TypesOf
  <1>5. CASE o.kind # "sources" /\ o.type = "wasm"
    BY <1>2, <1>5 DEF TypesOf, FromObjectType
  <1>6. CASE o.kind # "sources" /\ o.type = "pe_dotnet"
    BY <1>1, <1>6 DEF TypesOf, FromObjectType
  <1>7. CASE o.kind # "sources" /\ o.type \in {"elf", "macho", "pe"}
    <2> DEFINE code == IF o.type = "macho" THEN "MachCode" ELSE IF o.type = "pe" THEN "Pe" ELSE "ElfCode"
    <2>1. TypesOf(o) = <<code, "Breakpad", "MachDebug", "Pdb", "ElfDebug">>
      BY <1>7 DEF TypesOf, FromObjectType
    <2> HIDE DEF code
    <2>2. /\ Range(TypesOf(o)) = {code, "Breakpad", "MachDebug", "Pdb", "ElfDebug"}
          /\ TypesOf(o) \in Seq(Range(TypesOf(o)))
      BY <1>3, <2>1
    <2> QED
      BY <1>7, <2>2 DEF code
  <1> QED
    BY <1>4, <1>5, <1>6, <1>7 DEF ObjectTypes

LEMMA FoundWhen ==
    ASSUME NEW o, IsObject(o), o.kind \in Accepted, TargetFilename(o) # <<>>
    PROVE  TargetFilename(o) \in LookedUp(o) <=> ~Unfindable(o)
  <1>1. PICK c, u, suffix, id, types :
           /\ c = o.code_id /\ u = UnifiedId(o) /\ suffix = TargetSuffix(o) /\ id = IdentifierOf(o) /\ types = TypesOf(o)
    OBVIOUS
  <1>2. PICK b, v : b = Breakpad(o.debug_id) /\ v = <<"uuid", o.debug_id.uuid>>
    OBVIOUS
  <1>3. PICK d, m : /\ d = (IF o.debug_id # Unset THEN b ELSE Unset)
                    /\ m = (IF c # Unset THEN c ELSE IF o.debug_id # Unset THEN v ELSE Unset)
    OBVIOUS
  <1>4. /\ u # Unset /\ suffix # "none" /\ TargetFilename(o) = <<Id(u), Word(suffix)>>
    BY <1>1, FilenameIs
  <1>5. LookedUp(o) = Range(Locations(SourceOf("unified"), types, id))
    BY <1>1 DEF LookedUp, TypesOf
  <1>6. o.type \in ObjectTypes
    BY DEF IsObject
  <1>7. TargetFilename(o) \in LookedUp(o)
          <=> \E ft \in Range(types) : SearchTargetId(ft, id) = u /\ UnifiedSuffix(ft) = suffix
    <2>1. types \in Seq(Range(types))
      BY <1>1, <1>6, TypesAre
    <2>2. \A x, y, z, w : <<Id(x), Word(z)>> = <<Id(y), Word(w)>> <=> x = y /\ z = w
      BY DEF Id, Word
    <2>3. PICK p, q : p = Id(u) /\ q = Word(suffix)
      OBVIOUS
    <2>4. <<p, q>> \in Range(Locations(SourceOf("unified"), types, id))
             <=> \E ft \in Range(types) : /\ SearchTargetId(ft, id) # Unset
                                          /\ <<p, q>> = <<Id(SearchTargetId(ft, id)), Word(UnifiedSuffix(ft))>>
      BY <2>1, LocationsAre
    <2> QED
      BY <1>4, <1>5, <2>2, <2>3, <2>4
  <1>8. /\ \A ft \in {"Pe", "Pdb", "PortablePdb"} : SearchTargetId(ft, id) = d
        /\ \A ft \in {"MachCode", "MachDebug", "WasmCode", "WasmDebug"} : SearchTargetId(ft, id) = m
        /\ \A ft \in {"ElfCode", "ElfDebug"} : SearchTargetId(ft, id) = c
        /\ o.type = "elf" => SearchTargetId("SourceBundle", id) = c
        /\ o.type \in {"macho", "wasm"} => SearchTargetId("SourceBundle", id) = m
        /\ o.type \in {"pe", "pe_dotnet"} => SearchTargetId("SourceBundle", id) = d
    BY <1>1, <1>2, <1>3, TargetsAre
  <1>9. /\ \A ft \in {"ElfCode", "MachCode", "Pe", "WasmCode"} : UnifiedSuffix(ft) = "executable"
        /\ \A ft \in {"ElfDebug", "MachDebug", "Pdb", "WasmDebug", "PortablePdb"} : UnifiedSuffix(ft) = "debuginfo"
        /\ UnifiedSuffix("SourceBundle") = "sourcebundle" /\ UnifiedSuffix("Breakpad") = "Breakpad"
    BY DEF UnifiedSuffix
  <1>10. /\ u = IF o.format # "pe" /\ c # Unset THEN c ELSE d
         /\ o.debug_id # Unset => b # Unset /\ v # Unset /\ b # v
         /\ c # Unset => c # b
    BY <1>1, <1>2, <1>3, IdsDiffer DEF UnifiedId
  <1>11. o.format = "pe" => o.type \in {"pe", "pe_dotnet"} /\ o.kind # "debug"
    BY DEF IsObject
  <1>12. Unfindable(o) <=> \/ c = Unset /\ o.type \in {"elf", "macho", "wasm"} /\ (o.kind # "debug" \/ o.type = "wasm")
                           \/ c # Unset /\ o.format # "pe" /\ o.type \in {"pe", "pe_dotnet"}
                              /\ (o.kind # "debug" \/ o.type = "pe_dotnet")
                           \/ o.kind \in {"library", "executable"} /\ o.type = "pe_dotnet"
    BY <1>1 DEF Unfindable
  <1>13. CASE o.kind = "sources"
    <2>1. suffix = "sourcebundle" /\ Range(types) = {"SourceBundle"}
      BY <1>1, <1>4, <1>6, <1>13, TypesAre DEF TargetSuffix
    <2>2. TargetFilename(o) \in LookedUp(o) <=> SearchTargetId("SourceBundle", id) = u
      BY <1>7, <1>9, <2>1
    <2> QED
      BY <1>3, <1>4, <1>6, <1>8, <1>10, <1>11, <1>12, <1>13, <2>2 DEF ObjectTypes
  <1>14. CASE o.kind = "debug"
    <2>1. suffix = "debuginfo"
      BY <1>1, <1>14 DEF TargetSuffix
    <2>2. CASE o.type \in {"elf", "macho", "pe"}
      <3>1. {"MachDebug", "Pdb", "ElfDebug"} \subseteq Range(types)
        BY <1>1, <1>6, <1>14, <2>2, TypesAre
      <3>2. u \in {c, d} /\ (u = c => SearchTargetId("ElfDebug", id) = u) /\ (u = d => SearchTargetId("Pdb", id) = u)
        BY <1>8, <1>10
      <3> QED
        BY <1>7, <1>9, <1>12, <1>14, <2>1, <2>2, <3>1, <3>2
    <2>3. CASE o.type = "wasm"
      <3>1. Range(types) = {"WasmCode", "WasmDebug"}
        BY <1>1, <1>6, <1>14, <2>3, TypesAre
      <3>2. TargetFilename(o) \in LookedUp(o) <=> m = u
        BY <1>7, <1>8, <1>9, <2>1, <3>1
      <3> QED
        BY <1>3, <1>4, <1>10, <1>11, <1>12, <1>14, <2>3, <3>2
    <2>4. CASE o.type = "pe_dotnet"
      <3>1. Range(types) = {"PortablePdb"}
        BY <1>1, <1>6, <1>14, <2>4, TypesAre
      <3>2. TargetFilename(o) \in LookedUp(o) <=> d = u
        BY <1>7, <1>8, <1>9, <2>1, <3>1
      <3> QED
        BY <1>3, <1>4, <1>10, <1>11, <1>12, <1>14, <2>4, <3>2
    <2> QED
      BY <1>6, <2>2, <2>3, <2>4 DEF ObjectTypes
  <1>15. CASE o.kind \in {"library", "executable"}
    <2>1. suffix = "executable"
      BY <1>1, <1>15 DEF TargetSuffix
    <2>2. CASE o.type \in {"elf", "macho", "pe"}
      <3> DEFINE code == IF o.type = "macho" THEN "MachCode" ELSE IF o.type = "pe" THEN "Pe" ELSE "ElfCode"
      <3>1. Range(types) = {code, "Breakpad", "MachDebug", "Pdb", "ElfDebug"} /\ code \in {"ElfCode", "MachCode", "Pe"}
        BY <1>1, <1>6, <1>15, <2>2, TypesAre
      <3>2. SearchTargetId(code, id) = IF o.type = "macho" THEN m ELSE IF o.type = "pe" THEN d ELSE c
        BY <1>8
      <3> HIDE DEF code
      <3>3. TargetFilename(o) \in LookedUp(o) <=> SearchTargetId(code, id) = u
        BY <1>7, <1>9, <2>1, <3>1
      <3> QED
        BY <1>3, <1>4, <1>10, <1>11, <1>12, <1>15, <2>2, <3>2, <3>3
    <2>3. CASE o.type = "wasm"
      <3>1. Range(types) = {"WasmCode", "WasmDebug"}
        BY <1>1, <1>6, <1>15, <2>3, TypesAre
      <3>2. TargetFilename(o) \in LookedUp(o) <=> m = u
        BY <1>7, <1>8, <1>9, <2>1, <3>1
      <3> QED
        BY <1>3, <1>4, <1>10, <1>11, <1>12, <1>15, <2>3, <3>2
    <2>4. CASE o.type = "pe_dotnet"
      <3>1. Range(types) = {"PortablePdb"}
        BY <1>1, <1>6, <1>15, <2>4, TypesAre
      <3>2. TargetFilename(o) \notin LookedUp(o)
        BY <1>7, <1>9, <2>1, <3>1
      <3> QED
        BY <1>12, <1>15, <2>4, <3>2
    <2> QED
      BY <1>6, <2>2, <2>3, <2>4 DEF ObjectTypes
  <1> QED
    BY <1>13, <1>14, <1>15 DEF Accepted

\* symsorter, sort_files: whatever the input paths hold, in whatever order
\* their files are processed and whichever writes fail, the bundle lists
\* ids of complete files, and every complete file is listed, described and
\* found by a lookup unless a known cause prevents it.
THEOREM SortedFilesKept == SorterSpec => []SortedFilesFound
  <1>1. ASSUME SorterInv, sorter.pc = "done" PROVE SortedFilesFound
    <2> DEFINE stored == {p \in DOMAIN sorter.bucket : sorter.bucket[p].complete}
    <2>1. \A p : p \in stored <=> Stored(p)
      BY DEF Stored
    <2>2. \A id \in sorter.ids : \E p \in stored : p[1] = Id(id)
      BY <1>1, <2>1 DEF SorterInv
    <2>3. ASSUME NEW p \in stored
          PROVE  /\ p[1][1] \in sorter.ids \/ LostIds(sorter.bucket[p].input)
                 /\ \/ sorter.metas[p] = sorter.bucket[p].input
                    \/ Rivals(p) # {sorter.bucket[p].input}
                    \/ sorter.metas[p] = Torn /\ sorter.bucket[p].input \in sorter.faulty
                 /\ p \in LookedUp(sorter.bucket[p].obj) <=> ~Unfindable(sorter.bucket[p].obj)
      <3>1. PICK t, o : t = sorter.bucket[p].input /\ o = sorter.bucket[p].obj
        OBVIOUS
      <3>2. FileFits(p) /\ Stored(p) /\ AllDone
        BY <1>1, <2>1 DEF SorterInv
      <3>3. t \in DOMAIN sorter.tasks /\ IsInput(Input(t)) /\ TaskFits(t) /\ Task(t).at = "done"
        BY <1>1, <3>1, <3>2 DEF SorterInv, FileFits, AllDone
      <3>4. p[1][1] \in sorter.ids \/ LostIds(t)
        <4>1. p[1][1] \in sorter.ids \/ LostIds(t) \/ \E x \in Range(Task(t).rv) : UnifiedId(x) = p[1][1]
          BY <3>1, <3>2 DEF FileFits
        <4>2. Task(t).rv = <<>> \/ LostIds(t)
          BY <3>3 DEF TaskFits
        <4>3. Range(<<>>) = {}
          BY DEF Range
        <4> QED
          BY <4>1, <4>2, <4>3
      <3>5. sorter.metas[p] = t \/ Rivals(p) # {t} \/ (sorter.metas[p] = Torn /\ t \in sorter.faulty)
        BY <1>1, <3>2 DEF SorterInv, FileFits, Described
      <3>6. PICK place \in Places(t, p) : o = Input(t).entries[place[1]][place[2]]
        BY <3>1, <3>2 DEF FileFits
      <3>7. /\ place[1] \in DOMAIN Input(t).entries /\ Input(t).entries[place[1]] # Unset
            /\ place[2] \in DOMAIN Input(t).entries[place[1]] /\ TargetFilename(o) = p
        BY <3>6, PlacesAre, PlaceIs
      <3>8. Input(t).entries[place[1]] \in Range(Input(t).entries) \ {Unset}
        BY <3>7 DEF Range
      <3>9. o \in Range(Input(t).entries[place[1]])
        BY <3>6, <3>7 DEF Range
      <3>10. IsObject(o)
        BY <3>3, <3>8, <3>9 DEF IsInput
      <3>11. p \in LookedUp(o) <=> ~Unfindable(o)
        BY <3>1, <3>2, <3>7, <3>10, FoundWhen DEF FileFits
      <3> QED
        BY <3>1, <3>4, <3>5, <3>11
    <2>4. ASSUME NEW id \in DOMAIN sorter.candidates, sorter.candidates[id] = NoBundle \/ id \in Bundled
          PROVE  \E p \in DOMAIN sorter.bucket : p[2] = Word("sourcebundle") /\ p[1] = Id(id)
      <3>1. BundlePath(id) \in DOMAIN sorter.bucket
        <4>1. CASE sorter.candidates[id] = NoBundle
          BY <1>1, <4>1 DEF SorterInv, CandidateFits
        <4>2. CASE id \in Bundled
          <5>1. BundleFits(id) /\ AllDone /\ DOMAIN sorter.tasks = DOMAIN sorter.inputs
            BY <1>1, <4>2 DEF SorterInv
          <5>2. ~Waiting(<<"bundle", id>>)
            BY <5>1 DEF BundleFits, AllDone, Waiting
          <5> QED
            BY <5>1, <5>2 DEF BundleFits
        <4> QED
          BY <2>4, <4>1, <4>2
      <3>2. BundlePath(id)[2] = Word("sourcebundle") /\ BundlePath(id)[1] = Id(id)
        BY DEF BundlePath
      <3> QED
        BY <3>1, <3>2
    <2> HIDE DEF stored
    <2> QED
      BY <2>2, <2>3, <2>4 DEF SortedFilesFound, stored
  <1>2. SorterInv => SortedFilesFound
    BY <1>1 DEF SortedFilesFound
  <1> QED
    BY <1>2, Sorted, PTL
=============================================================================
