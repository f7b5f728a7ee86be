------------------------- MODULE JacobiKernelProofs -------------------------
(***************************************************************************)
(* Proofs about JacobiKernel, for every shape, tile, width of the machine  *)
(* integers, source and cell function: the checks of Shape2D::new mean     *)
(* what the doc says in unbounded arithmetic, every access lies in the     *)
(* source, and the output is the oracle's, given that tiles partition it.  *)
(* And for every format shaped like those of IEEE: the coefficient that    *)
(* LaplacianParams::new keeps is a positive finite number.                 *)
(***************************************************************************)
EXTENDS
    JacobiKernel, FiniteSetTheorems, FunctionTheorems, WellFoundedInduction, TLAPS

(* Integer arithmetic the provers need by name.                            *)

LEMMA TimesMonotonic ==
    ASSUME NEW a \in Int, NEW b \in Int, NEW k \in Nat, a <= b
    PROVE  a * k <= b * k
BY SMT

LEMMA DivMod ==
    ASSUME NEW n \in Nat, NEW d \in Nat \ {0}
    PROVE  /\ n \div d \in Nat /\ n % d \in 0 .. d - 1
           /\ n = (n \div d) * d + (n % d)
BY SMT

LEMMA DivCeilBounds ==
    ASSUME NEW n \in Nat, NEW d \in Nat \ {0}
    PROVE  /\ DivCeil(n, d) \in Nat
           /\ (DivCeil(n, d) - 1) * d < n /\ n <= DivCeil(n, d) * d
<1> DEFINE q == n \div d
           r == n % d
<1>1. q \in Nat /\ r \in 0 .. d - 1 /\ n = q * d + r
    BY DivMod
<1>2. DivCeil(n, d) = IF r = 0 THEN q ELSE q + 1
    BY DEF DivCeil
<1> HIDE DEF q, r
<1>3. (q - 1) * d = q * d - d /\ (q + 1) * d = q * d + d
    BY <1>1
<1>4. q * d \in Int
    BY <1>1
<1> QED BY <1>1, <1>2, <1>3, <1>4

(* Row and column are determined by the flat index.                        *)
LEMMA FlatIndexUnique ==
    ASSUME NEW w \in Nat, NEW a \in Nat, NEW b \in 0 .. w - 1,
           NEW c \in Nat, NEW d \in 0 .. w - 1, a * w + b = c * w + d
    PROVE  a = c /\ b = d
<1>1. ASSUME NEW x \in Nat, NEW y \in Nat, x < y PROVE x * w + w <= y * w
    <2>1. (x + 1) * w <= y * w
        BY <1>1, TimesMonotonic
    <2>2. (x + 1) * w = x * w + w
        BY <1>1
    <2> QED BY <2>1, <2>2
<1>2. a * w \in Int /\ c * w \in Int
    OBVIOUS
<1>3. ~(a < c)
    BY <1>1, <1>2
<1>4. ~(c < a)
    BY <1>1, <1>2
<1> QED BY <1>2, <1>3, <1>4

-----------------------------------------------------------------------------
(* The arithmetic of an extent, and what Metadata is of two of them.       *)
LEMMA HaloedLen ==
    ASSUME NEW h \in Nat, NEW w \in Nat
    PROVE  /\ h * w \in Nat /\ (h + 2) * (w + 2) \in Nat
           /\ (h + 2) * (w + 2) = h * w + 2 * h + 2 * w + 4
           /\ h # 0 /\ w # 0 => h * w >= h /\ h * w >= w
<1>1. h # 0 => 1 * w <= h * w
    BY TimesMonotonic
<1>2. w # 0 => 1 * h <= w * h
    BY TimesMonotonic
<1>3. (h + 2) * (w + 2) = h * (w + 2) + 2 * (w + 2) /\ h * (w + 2) = h * w + 2 * h
    OBVIOUS
<1>4. h * w \in Nat /\ w * h = h * w
    OBVIOUS
<1> QED BY <1>1, <1>2, <1>3, <1>4

LEMMA Lengths ==
    ASSUME NEW h \in Nat, NEW w \in Nat
    PROVE  LET s == Metadata(h, w) IN
           /\ Counts(s) = {h, w, h + 2, w + 2, h * w, (h + 2) * (w + 2)}
           /\ Arithmetic(s) = {h + 2, w + 2, h * w, (h + 2) * (w + 2),
                                h * w * ElementBytes, Bytes(h, w)}
           /\ s.interior_bytes = h * w * ElementBytes /\ s.haloed_bytes = Bytes(h, w)
           /\ s.haloed_len = (h + 2) * (w + 2)
           /\ s.interior = <<h, w>> /\ s.grid = <<DivCeil(h, Tile), DivCeil(w, Tile)>>
BY DEF Metadata, Counts, Arithmetic, HaloAxis, Bytes

(* The haloed length bounds all other counts, its bytes all byte counts.   *)
LEMMA HaloBounds ==
    ASSUME NEW h \in Nat, NEW w \in Nat
    PROVE  /\ \A n \in Counts(Metadata(h, w)) : n \in Nat /\ n <= (h + 2) * (w + 2)
           /\ \A n \in Arithmetic(Metadata(h, w)) : n \in Nat /\ n <= Bytes(h, w)
           /\ (h + 2) * (w + 2) \in Counts(Metadata(h, w))
           /\ Bytes(h, w) \in Arithmetic(Metadata(h, w))
           /\ h * w * ElementBytes \in Nat /\ h * w * ElementBytes <= Bytes(h, w)
           /\ (h + 2) * (w + 2) <= Bytes(h, w)
<1> DEFINE i == h * w
           n == (h + 2) * (w + 2)
<1>1. i \in Nat /\ n \in Nat /\ n = i + 2 * h + 2 * w + 4
    BY HaloedLen
<1>2. ElementBytes \in Nat /\ 1 <= ElementBytes
    BY ShapeAssumption
<1>3. Bytes(h, w) = n * ElementBytes /\ h * w * ElementBytes = i * ElementBytes
    BY DEF Bytes
<1>4. /\ Counts(Metadata(h, w)) = {h, w, h + 2, w + 2, i, n}
      /\ Arithmetic(Metadata(h, w)) =
             {h + 2, w + 2, i, n, h * w * ElementBytes, Bytes(h, w)}
    BY Lengths
<1> HIDE DEF i, n
<1>5. i * ElementBytes <= n * ElementBytes
    BY <1>1, <1>2, TimesMonotonic
<1>6. n * ElementBytes \in Nat /\ i * ElementBytes \in Nat /\ n <= n * ElementBytes
    <2>1. 1 * n <= ElementBytes * n
        BY <1>1, <1>2, TimesMonotonic
    <2> QED BY <1>1, <1>2, <2>1
<1>7. \A k \in {h, w, h + 2, w + 2, i, n} : k \in Nat /\ k <= n
    BY <1>1
<1>8. \A k \in Arithmetic(Metadata(h, w)) : k \in Nat /\ k <= Bytes(h, w)
    BY <1>1, <1>3, <1>4, <1>5, <1>6, <1>7
<1> USE DEF n
<1> QED BY <1>1, <1>3, <1>4, <1>5, <1>6, <1>7, <1>8

(* One axis has as many tiles as cover it, so the limit on tiles is one on *)
(* the extent.                                                             *)
LEMMA GridBounds ==
    ASSUME NEW n \in Nat \ {0}
    PROVE  /\ DivCeil(n, Tile) \in Nat \ {0}
           /\ (DivCeil(n, Tile) - 1) * Tile < n /\ n <= DivCeil(n, Tile) * Tile
           /\ DivCeil(n, Tile) > MaxBlocks <=> n > MaxBlocks * Tile
<1> DEFINE k == DivCeil(n, Tile)
<1>1. Tile \in Nat \ {0} /\ MaxBlocks \in Nat
    BY ShapeAssumption
<1>2. k \in Nat /\ (k - 1) * Tile < n /\ n <= k * Tile
    BY <1>1, DivCeilBounds
<1> HIDE DEF k
<1>3. k # 0
    BY <1>1, <1>2
<1>4. k > MaxBlocks => MaxBlocks * Tile <= (k - 1) * Tile
    BY <1>1, <1>2, TimesMonotonic
<1>5. ~(k > MaxBlocks) => k * Tile <= MaxBlocks * Tile
    BY <1>1, <1>2, TimesMonotonic
<1>6. k * Tile \in Int /\ (k - 1) * Tile \in Int /\ MaxBlocks * Tile \in Int
    BY <1>1, <1>2
<1> USE DEF k
<1> QED BY <1>2, <1>3, <1>4, <1>5, <1>6

(* What the checks of New amount to.                                       *)
LEMMA NewCases ==
    ASSUME NEW h \in Nat, NEW w \in Nat
    PROVE  LET n == (h + 2) * (w + 2) IN
           New(h, w) =
               IF h = 0 \/ w = 0 THEN "empty"
               ELSE IF Bytes(h, w) > MaxUsize THEN "overflow"
               ELSE IF Bytes(h, w) > MaxIsize THEN "bytes"
               ELSE IF n > MaxI32 THEN "counts"
               ELSE IF h > MaxBlocks * Tile \/ w > MaxBlocks * Tile THEN "blocks"
               ELSE "ok"
<1> DEFINE s == Metadata(h, w)
           n == (h + 2) * (w + 2)
           B == Bytes(h, w)
           i == h * w * ElementBytes
           C == Counts(s)
           A == Arithmetic(s)
<1>1. /\ MaxI32 \in Nat /\ MaxIsize \in Nat /\ MaxUsize \in Nat
      /\ MaxI32 <= MaxIsize /\ MaxIsize <= MaxUsize
    BY ShapeAssumption
<1>2. n \in Nat
    BY HaloedLen
<1>3. /\ \A k \in C : k \in Nat /\ k <= n
      /\ \A k \in A : k \in Nat /\ k <= B
      /\ n \in C /\ B \in A /\ i \in Nat /\ i <= B /\ n <= B
    BY HaloBounds
<1>4. /\ s.interior_bytes = i /\ s.haloed_bytes = B
      /\ s.grid[1] = DivCeil(h, Tile) /\ s.grid[2] = DivCeil(w, Tile)
    BY DEF Metadata, HaloAxis, Bytes
<1>5. h # 0 => (DivCeil(h, Tile) > MaxBlocks <=> h > MaxBlocks * Tile)
    BY GridBounds
<1>6. w # 0 => (DivCeil(w, Tile) > MaxBlocks <=> w > MaxBlocks * Tile)
    BY GridBounds
<1>7. New(h, w) =
          IF h = 0 \/ w = 0 THEN "empty"
          ELSE IF \E k \in A : k > MaxUsize THEN "overflow"
          ELSE IF s.interior_bytes > MaxIsize \/ s.haloed_bytes > MaxIsize THEN "bytes"
          ELSE IF \E k \in C : k > MaxI32 THEN "counts"
          ELSE IF s.grid[1] > MaxBlocks \/ s.grid[2] > MaxBlocks THEN "blocks"
          ELSE "ok"
    <2>1. (\E k \in 1..2 : s.grid[k] > MaxBlocks)
              <=> s.grid[1] > MaxBlocks \/ s.grid[2] > MaxBlocks
        OBVIOUS
    <2> HIDE DEF s
    <2> QED BY <2>1 DEF New, s
<1> HIDE DEF s, n, B, i, C, A
<1>8. B \in Nat
    BY <1>3
<1>9. (\E k \in A : k > MaxUsize) <=> B > MaxUsize
    BY <1>1, <1>3
<1>10. (\E k \in C : k > MaxI32) <=> n > MaxI32
    BY <1>1, <1>2, <1>3
<1>11. s.interior_bytes > MaxIsize \/ s.haloed_bytes > MaxIsize <=> B > MaxIsize
    BY <1>1, <1>3, <1>4
<1>12. New(h, w) =
          IF h = 0 \/ w = 0 THEN "empty"
          ELSE IF B > MaxUsize THEN "overflow"
          ELSE IF B > MaxIsize THEN "bytes"
          ELSE IF n > MaxI32 THEN "counts"
          ELSE IF h > MaxBlocks * Tile \/ w > MaxBlocks * Tile THEN "blocks"
          ELSE "ok"
    BY <1>4, <1>5, <1>6, <1>7, <1>9, <1>10, <1>11
<1> QED BY <1>12 DEF n, B

LEMMA AcceptedShape ==
    ASSUME NEW h \in Nat, NEW w \in Nat, New(h, w) = "ok"
    PROVE  /\ h # 0 /\ w # 0 /\ Bytes(h, w) <= MaxIsize
           /\ (h + 2) * (w + 2) <= MaxI32
           /\ h <= MaxBlocks * Tile /\ w <= MaxBlocks * Tile
<1>1. /\ MaxI32 \in Nat /\ MaxIsize \in Nat
      /\ MaxBlocks \in Nat /\ Tile \in Nat
    BY ShapeAssumption
<1>2. (h + 2) * (w + 2) \in Nat /\ Bytes(h, w) \in Nat
    BY HaloedLen, HaloBounds
<1>3. MaxBlocks * Tile \in Nat
    BY <1>1
<1> DEFINE m == MaxBlocks * Tile
           n == (h + 2) * (w + 2)
<1>4. New(h, w) =
          IF h = 0 \/ w = 0 THEN "empty"
          ELSE IF Bytes(h, w) > MaxUsize THEN "overflow"
          ELSE IF Bytes(h, w) > MaxIsize THEN "bytes"
          ELSE IF n > MaxI32 THEN "counts"
          ELSE IF h > m \/ w > m THEN "blocks"
          ELSE "ok"
    BY NewCases
<1>5. n \in Nat /\ m \in Nat
    BY <1>2, <1>3
<1> HIDE DEF m, n
<1>6. /\ h # 0 /\ w # 0 /\ Bytes(h, w) <= MaxIsize /\ n <= MaxI32 /\ h <= m /\ w <= m
    BY <1>1, <1>2, <1>4, <1>5
<1> QED BY <1>6 DEF m, n

LEMMA NewIsRight ==
    ASSUME height \in Nat, width \in Nat, result = New(height, width)
    PROVE  ShapesValidated
<1> DEFINE h == height
           w == width
           s == Metadata(h, w)
           n == (h + 2) * (w + 2)
           B == Bytes(h, w)
           m == MaxBlocks * Tile
           l == h * w
<1>1. /\ MaxI32 \in Nat /\ MaxIsize \in Nat /\ MaxUsize \in Nat
      /\ MaxI32 <= MaxIsize /\ MaxIsize <= MaxUsize
      /\ MaxBlocks \in Nat /\ Tile \in Nat
    BY ShapeAssumption
<1>2. n \in Nat /\ l \in Nat /\ (h # 0 /\ w # 0 => l >= h /\ l >= w)
    BY HaloedLen
<1>3. B \in Nat /\ n <= B
    BY HaloBounds
<1>4. m \in Nat
    BY <1>1
<1>5. result = IF h = 0 \/ w = 0 THEN "empty"
               ELSE IF B > MaxUsize THEN "overflow"
               ELSE IF B > MaxIsize THEN "bytes"
               ELSE IF n > MaxI32 THEN "counts"
               ELSE IF h > m \/ w > m THEN "blocks"
               ELSE "ok"
    BY NewCases
<1>6. h = 0 \/ w = 0 => l = 0
    OBVIOUS
<1>7. RejectedInOrder
    <2>1. /\ result = "empty" => l = 0
          /\ result = "overflow" => l > 0 /\ B > MaxUsize
          /\ result = "bytes" => B \in MaxIsize + 1 .. MaxUsize
          /\ result = "counts" => B <= MaxIsize /\ n > MaxI32
          /\ result = "blocks" => n <= MaxI32 /\ (h > m \/ w > m)
          /\ result = "ok" => h <= m /\ w <= m
        <3> HIDE DEF l, B, n, m
        <3> QED BY <1>1, <1>2, <1>3, <1>4, <1>5, <1>6
    <2> QED BY <2>1 DEF RejectedInOrder
<1>8. AcceptedIsRepresentable
    <2> SUFFICES ASSUME result = "ok"
                 PROVE  /\ \A k \in Counts(s) : k \in 1..MaxI32
                        /\ s.interior_bytes \in 1..MaxIsize
                        /\ s.haloed_bytes \in 1..MaxIsize
                        /\ \A i \in 1..2 :
                              /\ s.grid[i] \in 1..MaxBlocks
                              /\ (s.grid[i] - 1) * Tile < s.interior[i]
                              /\ s.interior[i] <= s.grid[i] * Tile
        BY DEF AcceptedIsRepresentable
    <2>1. h # 0 /\ w # 0 /\ B <= MaxIsize /\ n <= MaxI32 /\ h <= m /\ w <= m
        BY AcceptedShape
    <2>2. \A k \in Counts(s) : k \in 1..MaxI32
        <3>1. Counts(s) = {h, w, h + 2, w + 2, l, n}
            BY Lengths
        <3>2. \A k \in Counts(s) : k \in Nat /\ k <= n
            BY HaloBounds
        <3> HIDE DEF s, l, n, m, B
        <3>3. \A k \in {h, w, h + 2, w + 2, l, n} : k \in Nat /\ k <= n => k <= MaxI32
            BY <1>1, <1>2, <2>1
        <3>4. \A k \in Counts(s) : k # 0
            BY <1>2, <1>3, <2>1, <3>1, <3>2
        <3> QED BY <1>1, <3>1, <3>2, <3>3, <3>4
    <2>3. s.interior_bytes \in 1..MaxIsize /\ s.haloed_bytes \in 1..MaxIsize
        <3>1. s.interior_bytes = l * ElementBytes /\ s.haloed_bytes = B
            BY DEF Metadata, HaloAxis, Bytes
        <3>2. l * ElementBytes \in Nat /\ l * ElementBytes <= B
            BY HaloBounds
        <3>3. ElementBytes \in Nat /\ 1 <= ElementBytes
            BY ShapeAssumption
        <3> HIDE DEF s, l, n, m, B
        <3>4. 1 <= l
            BY <1>2, <2>1
        <3>5. 1 * ElementBytes <= l * ElementBytes
            BY <1>2, <3>3, <3>4, TimesMonotonic
        <3> QED BY <1>1, <1>3, <2>1, <3>1, <3>2, <3>3, <3>5
    <2>4. ASSUME NEW k \in Nat \ {0}, k <= m
          PROVE  /\ DivCeil(k, Tile) \in 1..MaxBlocks
                 /\ (DivCeil(k, Tile) - 1) * Tile < k /\ k <= DivCeil(k, Tile) * Tile
        BY <1>1, <2>4, GridBounds
    <2>5. /\ s.grid[1] = DivCeil(h, Tile) /\ s.grid[2] = DivCeil(w, Tile)
          /\ s.interior[1] = h /\ s.interior[2] = w
        BY DEF Metadata
    <2> HIDE DEF s, l, n, m, B
    <2>6. \A i \in 1..2 :
              /\ s.grid[i] \in 1..MaxBlocks
              /\ (s.grid[i] - 1) * Tile < s.interior[i]
              /\ s.interior[i] <= s.grid[i] * Tile
        BY <2>1, <2>4, <2>5
    <2> QED BY <2>2, <2>3, <2>6
<1> QED BY <1>7, <1>8 DEF ShapesValidated

-----------------------------------------------------------------------------
(* The cells of a tile.                                                    *)
LEMMA FlatInBounds ==
    ASSUME NEW h \in Nat, NEW w \in Nat, NEW r \in 0 .. h - 1, NEW c \in 0 .. w - 1
    PROVE  r * w + c \in 0 .. h * w - 1
<1>1. (r + 1) * w <= h * w
    BY TimesMonotonic
<1>2. (r + 1) * w = r * w + w /\ r * w \in Nat /\ h * w \in Nat
    OBVIOUS
<1> QED BY <1>1, <1>2

LEMMA TileOfUnique ==
    ASSUME NEW x \in Nat, NEW a \in Nat, NEW b \in Nat,
           a * Tile <= x, x < (a + 1) * Tile, b * Tile <= x, x < (b + 1) * Tile
    PROVE  a = b
<1>1. Tile \in Nat
    BY ShapeAssumption
<1>2. ASSUME NEW y \in Nat, NEW z \in Nat, y < z PROVE (y + 1) * Tile <= z * Tile
    BY <1>1, <1>2, TimesMonotonic
<1>3. \A y \in Nat : y * Tile \in Int /\ (y + 1) * Tile \in Int
    BY <1>1
<1> QED BY <1>2, <1>3

LEMMA CellIndex ==
    ASSUME NEW h \in Nat, NEW w \in Nat, NEW b, NEW c \in TileCells(h, w, b)
    PROVE  /\ c[1] \in 0 .. h - 1 /\ c[2] \in 0 .. w - 1 /\ c = <<c[1], c[2]>>
           /\ FieldIndex(w, c) \in 0 .. h * w - 1
           /\ b[1] * Tile <= c[1] /\ c[1] < (b[1] + 1) * Tile
           /\ b[2] * Tile <= c[2] /\ c[2] < (b[2] + 1) * Tile
<1>1. c[1] \in 0 .. h - 1 /\ c[2] \in 0 .. w - 1 /\ c = <<c[1], c[2]>>
    BY DEF TileCells
<1>2. c[1] * w + c[2] \in 0 .. h * w - 1
    BY <1>1, FlatInBounds
<1> QED BY <1>1, <1>2 DEF TileCells, FieldIndex

LEMMA CellUnique ==
    ASSUME NEW h \in Nat, NEW w \in Nat,
           NEW b \in Nat \X Nat, NEW d \in Nat \X Nat,
           NEW c \in TileCells(h, w, b), NEW e \in TileCells(h, w, d),
           FieldIndex(w, c) = FieldIndex(w, e)
    PROVE  c = e /\ b = d
<1>1. /\ c[1] \in Nat /\ c[2] \in 0 .. w - 1 /\ c = <<c[1], c[2]>>
      /\ e[1] \in Nat /\ e[2] \in 0 .. w - 1 /\ e = <<e[1], e[2]>>
    BY CellIndex
<1>2. c[1] = e[1] /\ c[2] = e[2]
    BY <1>1, FlatIndexUnique DEF FieldIndex
<1>3. b[1] = d[1]
    BY <1>1, <1>2, CellIndex, TileOfUnique
<1>4. b[2] = d[2]
    BY <1>1, <1>2, CellIndex, TileOfUnique
<1> QED BY <1>1, <1>2, <1>3, <1>4

(* The grid covers the output.                                             *)
LEMMA CellHasBlock ==
    ASSUME NEW h \in Nat, NEW w \in Nat, NEW r \in 0 .. h - 1, NEW c \in 0 .. w - 1
    PROVE  \E b \in Blocks(h, w) : <<r, c>> \in TileCells(h, w, b)
<1>1. Tile \in Nat \ {0}
    BY ShapeAssumption
<1>2. ASSUME NEW n \in Nat, NEW x \in 0 .. n - 1
      PROVE  \E k \in 0 .. DivCeil(n, Tile) - 1 : k * Tile <= x /\ x < (k + 1) * Tile
    <2> DEFINE k == x \div Tile
               g == DivCeil(n, Tile)
    <2>9. x \in Nat
        OBVIOUS
    <2>1. k \in Nat /\ x = k * Tile + (x % Tile) /\ x % Tile \in 0 .. Tile - 1
        <3> HIDE DEF g
        <3> QED BY <1>1, <2>9, DivMod
    <2>2. g \in Nat /\ n <= g * Tile
        BY <1>1, DivCeilBounds
    <2> HIDE DEF k, g
    <2>3. k * Tile \in Int /\ (k + 1) * Tile = k * Tile + Tile /\ g * Tile \in Int
        BY <1>1, <2>1, <2>2
    <2>4. ~(g <= k)
        <3>1. g <= k => g * Tile <= k * Tile
            BY <1>1, <2>1, <2>2, TimesMonotonic
        <3> QED BY <1>1, <2>1, <2>2, <2>3, <3>1
    <2>5. k \in 0 .. g - 1 /\ k * Tile <= x /\ x < (k + 1) * Tile
        BY <1>1, <2>1, <2>2, <2>3, <2>4
    <2> QED BY <2>5 DEF g
<1>3. PICK i \in 0 .. DivCeil(h, Tile) - 1 : i * Tile <= r /\ r < (i + 1) * Tile
    BY <1>2
<1>4. PICK j \in 0 .. DivCeil(w, Tile) - 1 : j * Tile <= c /\ c < (j + 1) * Tile
    BY <1>2
<1>5. Blocks(h, w) = (0 .. DivCeil(h, Tile) - 1) \X (0 .. DivCeil(w, Tile) - 1)
    BY DEF Blocks, Metadata
<1>6. <<i, j>> \in Blocks(h, w) /\ <<r, c>> \in TileCells(h, w, <<i, j>>)
    BY <1>3, <1>4, <1>5 DEF TileCells
<1> QED BY <1>6

LEMMA BlocksAreNumbers ==
    ASSUME NEW h \in Nat, NEW w \in Nat
    PROVE  Blocks(h, w) \subseteq Nat \X Nat
<1>1. Blocks(h, w) = (0 .. DivCeil(h, Tile) - 1) \X (0 .. DivCeil(w, Tile) - 1)
    BY DEF Blocks, Metadata
<1>2. DivCeil(h, Tile) \in Nat /\ DivCeil(w, Tile) \in Nat
    BY ShapeAssumption, DivCeilBounds
<1> QED BY <1>1, <1>2

LEMMA ViewsLemma ==
    ASSUME NEW h \in Nat, NEW w \in Nat, NEW b, NEW c \in TileCells(h, w, b),
           NEW view \in DOMAIN ViewStart
    PROVE  ViewIndex(w, view, c) \in 0 .. SourceLen(h, w) - 1
<1>1. c[1] \in 0 .. h - 1 /\ c[2] \in 0 .. w - 1
    BY CellIndex
<1>2. ViewStart[view][1] \in 0..2 /\ ViewStart[view][2] \in 0..2
    BY DEF ViewStart
<1> DEFINE r == ViewStart[view][1] + c[1]
           k == ViewStart[view][2] + c[2]
<1>3. r \in 0 .. (h + 2) - 1 /\ k \in 0 .. (w + 2) - 1
    BY <1>1, <1>2
<1>4. r * (w + 2) + k \in 0 .. (h + 2) * (w + 2) - 1
    <2> HIDE DEF r, k
    <2> QED BY <1>3, FlatInBounds
<1>5. ViewIndex(w, view, c) = r * (w + 2) + k
    BY <1>1, <1>2, <1>3 DEF ViewIndex, HaloAxis
<1>6. SourceLen(h, w) = (h + 2) * (w + 2)
    BY DEF SourceLen, Metadata, HaloAxis
<1> QED BY <1>4, <1>5, <1>6

(* A tile's value is the oracle's: the five views read the five cells.     *)
LEMMA TileValueIsReference ==
    ASSUME NEW h \in Nat, NEW w \in Nat, NEW r \in 0 .. h - 1, NEW c \in 0 .. w - 1
    PROVE  TileValue(w, <<r, c>>) = ReferenceCell(h, w, r, c)
<1> DEFINE x == <<r, c>>
           k == (r + 1) * (w + 2) + c + 1
<1>1. /\ (1 + r) * (w + 2) = r * (w + 2) + (w + 2)
      /\ (r + 1) * (w + 2) = r * (w + 2) + (w + 2)
      /\ (0 + r) * (w + 2) = r * (w + 2)
      /\ (2 + r) * (w + 2) = r * (w + 2) + (w + 2) + (w + 2)
      /\ r * (w + 2) \in Int
    OBVIOUS
<1>2. /\ ViewIndex(w, "center", x) = (1 + r) * (w + 2) + 1 + c
      /\ ViewIndex(w, "north", x) = (0 + r) * (w + 2) + 1 + c
      /\ ViewIndex(w, "south", x) = (2 + r) * (w + 2) + 1 + c
      /\ ViewIndex(w, "east", x) = (1 + r) * (w + 2) + 2 + c
      /\ ViewIndex(w, "west", x) = (1 + r) * (w + 2) + 0 + c
    BY DEF ViewIndex, ViewStart, HaloAxis
<1>3. /\ ViewIndex(w, "center", x) = k
      /\ ViewIndex(w, "north", x) = k - (w + 2)
      /\ ViewIndex(w, "south", x) = k + (w + 2)
      /\ ViewIndex(w, "east", x) = k + 1
      /\ ViewIndex(w, "west", x) = k - 1
    BY <1>1, <1>2
<1>4. FieldIndex(w, x) = r * w + c
    BY DEF FieldIndex
<1>5. ReferenceCell(h, w, r, c) =
          Relax(Source(k), Source(k - (w + 2)), Source(k + (w + 2)),
                Source(k + 1), Source(k - 1), Rhs(r * w + c))
    BY DEF ReferenceCell
<1> HIDE DEF x, k
<1>6. TileValue(w, x) =
          Relax(Source(k), Source(k - (w + 2)), Source(k + (w + 2)),
                Source(k + 1), Source(k - 1), Rhs(r * w + c))
    BY <1>3, <1>4 DEF TileValue, Load
<1> QED BY <1>5, <1>6 DEF x

-----------------------------------------------------------------------------
(* What a run of the module keeps: the shape is the one validated, the     *)
(* blocks are those of its grid, a loaded tile and the cells a stored tile *)
(* wrote hold the values of its cells.                                     *)
ShapeInv ==
    /\ height \in Nat /\ width \in Nat
    /\ result = "none" \/ result = New(height, width)

BlocksInv ==
    /\ DOMAIN block \subseteq Blocks(height, width)
    /\ DOMAIN block # {} => /\ DOMAIN block = Blocks(height, width)
                            /\ DOMAIN output = 0 .. height * width - 1
                            /\ result # "none"
    /\ block = [b \in DOMAIN block |-> block[b]]
    /\ loaded = [b \in DOMAIN block |-> loaded[b]]

ValuesInv ==
    \A b \in DOMAIN block :
        /\ block[b] = "loaded" =>
              loaded[b] = [c \in TileCells(height, width, b) |-> TileValue(width, c)]
        /\ block[b] = "stored" =>
              \A c \in TileCells(height, width, b) :
                  output[FieldIndex(width, c)] = TileValue(width, c)

IInv == ShapeInv /\ BlocksInv /\ ValuesInv

LEMMA InitIInv == Init => IInv
<1> SUFFICES ASSUME Init PROVE IInv
    OBVIOUS
<1>1. height \in Nat /\ width \in Nat /\ result = "none"
    BY ShapeAssumption DEF Init, ShapeInit
<1>2. DOMAIN block = {} /\ block = NoBlocks /\ loaded = NoBlocks
    BY DEF Init, NoBlocks
<1>3. block = [b \in DOMAIN block |-> block[b]] /\ loaded = [b \in DOMAIN block |-> loaded[b]]
    BY <1>2 DEF NoBlocks
<1> QED BY <1>1, <1>2, <1>3 DEF IInv, ShapeInv, BlocksInv, ValuesInv

LEMMA LaunchStep ==
    ASSUME IInv, Launch PROVE IInv'
<1>1. /\ UNCHANGED inputs /\ result = "ok"
      /\ block' = [b \in Blocks(height, width) |-> "todo"]
      /\ loaded' = [b \in Blocks(height, width) |-> [c \in {} |-> Unwritten]]
      /\ output' = [i \in 0 .. height * width - 1 |-> Unwritten]
    BY DEF Launch
<1>2. height' = height /\ width' = width /\ result' = result
    BY <1>1 DEF inputs
<1>3. ShapeInv'
    BY <1>2 DEF IInv, ShapeInv
<1>4. BlocksInv'
    BY <1>1, <1>2 DEF BlocksInv
<1>5. ValuesInv'
    BY <1>1, <1>2 DEF ValuesInv
<1> QED BY <1>3, <1>4, <1>5 DEF IInv

LEMMA LoadStep ==
    ASSUME IInv, NEW b \in DOMAIN block, BlockLoad(b) PROVE IInv'
<1>1. /\ height' = height /\ width' = width /\ result' = result /\ output' = output
      /\ block[b] = "todo"
      /\ block' = [block EXCEPT ![b] = "loaded"]
      /\ loaded' = [loaded EXCEPT ![b] =
             [c \in TileCells(height, width, b) |-> TileValue(width, c)]]
    BY DEF BlockLoad, inputs
<1>2. ShapeInv'
    BY <1>1 DEF IInv, ShapeInv
<1>3. DOMAIN block' = DOMAIN block /\ DOMAIN loaded = DOMAIN block
    BY <1>1 DEF IInv, BlocksInv
<1>4. BlocksInv'
    BY <1>1, <1>3 DEF IInv, BlocksInv
<1>5. ValuesInv'
    <2> SUFFICES ASSUME NEW d \in DOMAIN block
                 PROVE  /\ block'[d] = "loaded" =>
                              loaded'[d] = [c \in TileCells(height, width, d)
                                                 |-> TileValue(width, c)]
                        /\ block'[d] = "stored" =>
                              \A c \in TileCells(height, width, d) :
                                  output[FieldIndex(width, c)] = TileValue(width, c)
        BY <1>1, <1>3 DEF ValuesInv
    <2>1. CASE d = b
        BY <1>1, <1>3, <2>1
    <2>2. CASE d # b
        BY <1>1, <1>3, <2>2 DEF IInv, ValuesInv
    <2> QED BY <2>1, <2>2
<1> QED BY <1>2, <1>4, <1>5 DEF IInv

LEMMA StoreStep ==
    ASSUME IInv, NEW b \in DOMAIN block, BlockStore(b) PROVE IInv'
<1> DEFINE Cells(d) == TileCells(height, width, d)
           Written(i) == \E c \in Cells(b) : FieldIndex(width, c) = i
           Cell(i) == CHOOSE c \in Cells(b) : FieldIndex(width, c) = i
<1>1. /\ height' = height /\ width' = width /\ result' = result
      /\ block[b] = "loaded"
      /\ block' = [block EXCEPT ![b] = "stored"]
      /\ loaded' = [loaded EXCEPT ![b] = [c \in {} |-> Unwritten]]
    BY DEF BlockStore, inputs
<1>2. loaded[b] = [c \in Cells(b) |-> TileValue(width, c)]
    BY <1>1 DEF IInv, ValuesInv
<1>3. output' = [i \in DOMAIN output |->
          IF Written(i) THEN loaded[b][Cell(i)] ELSE output[i]]
    <2>1. DOMAIN loaded[b] = Cells(b)
        BY <1>2
    <2> QED BY <2>1 DEF BlockStore
<1>4. ShapeInv'
    BY <1>1 DEF IInv, ShapeInv
<1>5. /\ DOMAIN block' = DOMAIN block /\ DOMAIN loaded = DOMAIN block
      /\ DOMAIN output' = DOMAIN output
    BY <1>1, <1>3 DEF IInv, BlocksInv
<1>6. BlocksInv'
    BY <1>1, <1>5 DEF IInv, BlocksInv
<1>7. /\ height \in Nat /\ width \in Nat
      /\ DOMAIN block = Blocks(height, width)
      /\ DOMAIN output = 0 .. height * width - 1
    BY DEF IInv, ShapeInv, BlocksInv
<1>8. DOMAIN block \subseteq Nat \X Nat
    BY <1>7, BlocksAreNumbers
<1>9. ASSUME NEW d \in DOMAIN block, NEW c \in Cells(d), d = b \/ block[d] = "stored"
      PROVE  output'[FieldIndex(width, c)] = TileValue(width, c)
    <2> DEFINE i == FieldIndex(width, c)
    <2>1. i \in DOMAIN output
        BY <1>7, CellIndex
    <2>2. output'[i] = IF Written(i) THEN loaded[b][Cell(i)] ELSE output[i]
        BY <1>3, <2>1
    <2>3. ASSUME NEW e \in Cells(b), FieldIndex(width, e) = i PROVE c = e /\ d = b
        BY <1>7, <1>8, <2>3, CellUnique
    <2>4. CASE d = b
        <3>1. c \in Cells(b)
            BY <2>4
        <3>2. Written(i)
            BY <3>1
        <3>3. Cell(i) \in Cells(b) /\ FieldIndex(width, Cell(i)) = i
            BY <3>2
        <3>4. Cell(i) = c
            BY <3>3, <2>3
        <3> QED BY <1>2, <2>2, <3>1, <3>2, <3>4
    <2>5. CASE d # b
        <3>1. ~Written(i)
            BY <2>3, <2>5
        <3>2. output[i] = TileValue(width, c)
            BY <1>9, <2>5 DEF IInv, ValuesInv
        <3> QED BY <2>2, <3>1, <3>2
    <2> QED BY <2>4, <2>5
<1>10. ValuesInv'
    <2> SUFFICES ASSUME NEW d \in DOMAIN block
                 PROVE  /\ block'[d] = "loaded" =>
                              loaded'[d] = [c \in Cells(d) |-> TileValue(width, c)]
                        /\ block'[d] = "stored" =>
                              \A c \in Cells(d) :
                                  output'[FieldIndex(width, c)] = TileValue(width, c)
        BY <1>1, <1>5 DEF ValuesInv
    <2>1. CASE d = b
        BY <1>1, <1>5, <1>9, <2>1
    <2>2. CASE d # b
        <3>1. block'[d] = block[d] /\ loaded'[d] = loaded[d]
            BY <1>1, <1>5, <2>2
        <3> QED BY <1>9, <3>1 DEF IInv, ValuesInv
    <2> QED BY <2>1, <2>2
<1> QED BY <1>4, <1>6, <1>10 DEF IInv

LEMMA NextIInv == IInv /\ [Next]_vars => IInv'
<1> SUFFICES ASSUME IInv, [Next]_vars PROVE IInv'
    OBVIOUS
<1>1. CASE Validate /\ UNCHANGED <<spacing, coefficient, kernel>>
    <2>1. /\ height' = height /\ width' = width /\ result' = New(height, width)
          /\ block' = block /\ loaded' = loaded /\ output' = output /\ result = "none"
        BY <1>1 DEF Validate, kernel
    <2>2. ShapeInv'
        BY <2>1 DEF IInv, ShapeInv
    <2>3. DOMAIN block = {}
        BY <2>1 DEF IInv, BlocksInv
    <2>4. BlocksInv' /\ ValuesInv'
        BY <2>1, <2>3 DEF IInv, BlocksInv, ValuesInv
    <2> QED BY <2>2, <2>4 DEF IInv
<1>2. CASE \/ Construct /\ UNCHANGED <<height, width, result, kernel>>
           \/ UNCHANGED vars
    <2>1. /\ height' = height /\ width' = width /\ result' = result
          /\ block' = block /\ loaded' = loaded /\ output' = output
        BY <1>2 DEF kernel, vars, inputs
    <2> QED BY <2>1 DEF IInv, ShapeInv, BlocksInv, ValuesInv
<1>3. CASE Launch
    BY <1>3, LaunchStep
<1>4. CASE \E b \in DOMAIN block : BlockLoad(b) \/ BlockStore(b)
    BY <1>4, LoadStep, StoreStep
<1> QED BY <1>1, <1>2, <1>3, <1>4 DEF Next

LEMMA SpecIInv == Spec => []IInv
<1> QED BY InitIInv, NextIInv, PTL DEF Spec

(* Every shape that Shape2D::new accepts is usable, and every one that it  *)
(* rejects has the fault of the first documented check that fails.         *)
THEOREM ShapesAreValidated == Spec => []ShapesValidated
<1>1. IInv => ShapesValidated
    <2> SUFFICES ASSUME IInv PROVE ShapesValidated
        OBVIOUS
    <2>1. CASE result = "none"
        BY <2>1 DEF ShapesValidated, AcceptedIsRepresentable, RejectedInOrder
    <2>2. CASE result = New(height, width)
        BY <2>2, NewIsRight DEF IInv, ShapeInv
    <2> QED BY <2>1, <2>2 DEF IInv, ShapeInv
<1> QED BY <1>1, SpecIInv, PTL

(* Every access of a block through one of the directional views lies in    *)
(* the haloed source, whatever the shape and the tile.                     *)
THEOREM ViewsStayInBounds == Spec => []ViewsInBounds
<1>1. IInv => ViewsInBounds
    BY ViewsLemma DEF IInv, ShapeInv, ViewsInBounds
<1> QED BY <1>1, SpecIInv, PTL

(* Once every block has stored its tile the output is what the sequential  *)
(* oracle computes, in whatever order the blocks ran.                      *)
THEOREM KernelIsReference == Spec => []ResultIsReference
<1>1. IInv => ResultIsReference
    <2> SUFFICES ASSUME IInv, Done,
                        NEW row \in 0 .. height - 1, NEW column \in 0 .. width - 1
                 PROVE  output[row * width + column]
                            = ReferenceCell(height, width, row, column)
        BY DEF ResultIsReference
    <2> DEFINE x == <<row, column>>
    <2>1. height \in Nat /\ width \in Nat
        BY DEF IInv, ShapeInv
    <2>2. DOMAIN block = Blocks(height, width)
        <3>1. DOMAIN block # {}
            BY DEF Done, NoBlocks, IInv, BlocksInv
        <3> QED BY <3>1 DEF IInv, BlocksInv
    <2>3. PICK b \in DOMAIN block : x \in TileCells(height, width, b)
        BY <2>1, <2>2, CellHasBlock
    <2>4. output[FieldIndex(width, x)] = TileValue(width, x)
        BY <2>3 DEF IInv, ValuesInv, Done
    <2>5. FieldIndex(width, x) = row * width + column
        BY DEF FieldIndex
    <2> QED BY <2>1, <2>4, <2>5, TileValueIsReference
<1> QED BY <1>1, SpecIInv, PTL
-----------------------------------------------------------------------------
(* Powers of two, counted as the subsets of an interval, and the least     *)
(* number of a set: the arithmetic that a format of any size needs.        *)
NatLess == {p \in Nat \X Nat : p[1] < p[2]}

LEMMA NatLessWellFounded == IsWellFoundedOn(NatLess, Nat)
BY NatLessThanWellFounded DEF NatLess, OpToRel

LEMMA LeastNumber ==
    ASSUME NEW T \in SUBSET Nat, T # {}
    PROVE  \E m \in T : \A n \in T : m <= n
<1>1. PICK m \in T : \A n \in T : <<n, m>> \notin NatLess
    BY NatLessWellFounded, WFMin
<1>2. ASSUME NEW n \in T PROVE m <= n
    <2>1. <<n, m>> \in Nat \X Nat /\ <<n, m>>[1] = n /\ <<n, m>>[2] = m
        OBVIOUS
    <2>2. ~(n < m)
        BY <1>1, <2>1 DEF NatLess
    <2> QED BY <2>2
<1> QED BY <1>2

LEMMA PowerOfInterval ==
    ASSUME NEW n \in Nat
    PROVE  /\ IsFiniteSet(SUBSET (1 .. n)) /\ Cardinality(SUBSET (1 .. n)) = 2^n
           /\ 2^n \in Nat /\ 2^n > 0
<1>1. IsFiniteSet(1 .. n) /\ Cardinality(1 .. n) = n
    BY FS_Interval
<1>2. IsFiniteSet(SUBSET (1 .. n)) /\ Cardinality(SUBSET (1 .. n)) = 2^n
    BY <1>1, FS_SUBSET
<1>3. Cardinality(SUBSET (1 .. n)) \in Nat /\ Cardinality(SUBSET (1 .. n)) # 0
    BY <1>2, FS_CardinalityType, FS_EmptySet
<1> QED BY <1>2, <1>3

LEMMA PowerSum ==
    ASSUME NEW a \in Nat, NEW b \in Nat
    PROVE  2^(a + b) = 2^a * 2^b
<1> DEFINE A == 1 .. a
           B == a + 1 .. a + b
           F == [p \in (SUBSET A) \X (SUBSET B) |-> p[1] \cup p[2]]
<1>1. /\ IsFiniteSet(A) /\ Cardinality(A) = a
      /\ IsFiniteSet(B) /\ Cardinality(B) = b
    <2>1. a + b - (a + 1) + 1 = b
        OBVIOUS
    <2> QED BY <2>1, FS_Interval
<1>2. A \cap B = {} /\ A \cup B = 1 .. a + b
    OBVIOUS
<1>3. /\ IsFiniteSet(SUBSET A) /\ Cardinality(SUBSET A) = 2^a
      /\ IsFiniteSet(SUBSET B) /\ Cardinality(SUBSET B) = 2^b
    BY <1>1, FS_SUBSET
<1>4. /\ IsFiniteSet((SUBSET A) \X (SUBSET B))
      /\ Cardinality((SUBSET A) \X (SUBSET B)) = 2^a * 2^b
    <2> DEFINE P == SUBSET A
               Q == SUBSET B
    <2>1. /\ IsFiniteSet(P) /\ Cardinality(P) = 2^a
          /\ IsFiniteSet(Q) /\ Cardinality(Q) = 2^b
        BY <1>3
    <2> HIDE DEF P, Q
    <2>2. IsFiniteSet(P \X Q) /\ Cardinality(P \X Q) = Cardinality(P) * Cardinality(Q)
        BY <2>1, FS_Product
    <2>3. IsFiniteSet(P \X Q) /\ Cardinality(P \X Q) = 2^a * 2^b
        BY <2>1, <2>2
    <2> QED BY <2>3 DEF P, Q
<1> HIDE DEF A, B
<1>5. F \in Bijection((SUBSET A) \X (SUBSET B), SUBSET (A \cup B))
    <2>1. F \in [(SUBSET A) \X (SUBSET B) -> SUBSET (A \cup B)]
        OBVIOUS
    <2>2. ASSUME NEW p \in (SUBSET A) \X (SUBSET B), NEW q \in (SUBSET A) \X (SUBSET B),
                 F[p] = F[q]
          PROVE  p = q
        <3>1. p[1] \cup p[2] = q[1] \cup q[2]
            BY <2>2
        <3>2. p[1] = q[1] /\ p[2] = q[2]
            BY <1>2, <3>1
        <3> QED BY <3>2
    <2>3. ASSUME NEW s \in SUBSET (A \cup B)
          PROVE  \E p \in (SUBSET A) \X (SUBSET B) : F[p] = s
        <3>1. <<s \cap A, s \cap B>> \in (SUBSET A) \X (SUBSET B)
            OBVIOUS
        <3>2. F[<<s \cap A, s \cap B>>] = s
            BY <3>1
        <3> QED BY <3>1, <3>2
    <2> QED BY <2>1, <2>2, <2>3, Fun_IsBij
<1>6. Cardinality(SUBSET (A \cup B)) = 2^a * 2^b
    BY <1>4, <1>5, FS_Bijection DEF ExistsBijection
<1>7. Cardinality(SUBSET (A \cup B)) = 2^(a + b)
    <2>1. PICK n \in Nat : n = a + b
        OBVIOUS
    <2>2. Cardinality(SUBSET (1 .. n)) = 2^n
        BY PowerOfInterval
    <2> QED BY <1>2, <2>1, <2>2
<1> QED BY <1>6, <1>7

LEMMA SmallPowers == 2^0 = 1 /\ 2^1 = 2
<1>1. SUBSET (1 .. 0) = {{}} 
    OBVIOUS
<1>2. SUBSET (1 .. 1) = {{}, {1}}
    OBVIOUS
<1>3. Cardinality({{}}) = 1 /\ IsFiniteSet({{}})
    BY FS_Singleton
<1>4. Cardinality({{}, {1}}) = 2
    <2>1. {{}, {1}} = {{}} \cup {{1}} /\ {1} \notin {{}}
        OBVIOUS
    <2>2. Cardinality({{}} \cup {{1}}) = Cardinality({{}}) + 1
        BY <1>3, <2>1, FS_AddElement, Zenon
    <2>3. Cardinality({{}} \cup {{1}}) = 2
        <3>1. PICK k \in Nat : k = Cardinality({{}}) /\ k = 1
            BY <1>3
        <3>2. k + 1 = 2
            BY <3>1
        <3> QED BY <2>2, <3>1, <3>2, Zenon
    <2> QED BY <2>1, <2>3, Zenon
<1> QED BY <1>1, <1>2, <1>3, <1>4, PowerOfInterval

LEMMA PowerMonotonic ==
    ASSUME NEW a \in Nat, NEW b \in Nat, a <= b
    PROVE  2^a <= 2^b
<1>1. PICK d \in Nat : b = a + d
    <2>1. b - a \in Nat /\ b = a + (b - a)
        OBVIOUS
    <2> QED BY <2>1
<1>2. 2^b = 2^a * 2^d
    BY <1>1, PowerSum
<1>3. 2^a \in Nat /\ 2^d \in Nat /\ 2^d > 0
    BY PowerOfInterval
<1>4. PICK x \in Nat, y \in Nat : x = 2^a /\ y = 2^d /\ y > 0
    BY <1>3
<1>5. x <= x * y
    <2>1. PICK z \in Nat : y = z + 1
        <3>1. y - 1 \in Nat /\ y = (y - 1) + 1
            BY <1>4
        <3> QED BY <3>1
    <2>2. x * y = x * z + x /\ x * z \in Nat
        BY <2>1
    <2> QED BY <2>2
<1> QED BY <1>2, <1>3, <1>4, <1>5

(* The format: no number is so large that its reciprocal is rounded to     *)
(* zero, and the reciprocal of a normal number is a number.                *)
LEMMA FormatRange ==
    /\ MaxUnits \in Nat /\ One \in Nat /\ One > 0
    /\ 2^(Digits - 1) \in Nat /\ 2^(Exponents - 1) \in Nat
    /\ MaxUnits < 2 * One
    /\ One < 2^(Digits - 1) * (MaxUnits + 2^(Exponents - 1))
<1>1. /\ Digits \in Nat /\ Digits - 1 \in Nat /\ Digits >= 2
      /\ Exponents \in Nat /\ Exponents - 1 \in Nat /\ UnitBits \in Nat
      /\ 2 * UnitBits \in Nat /\ 2 * UnitBits + 1 \in Nat
      /\ Digits + Exponents \in Nat
      /\ Digits + Exponents <= 2 * UnitBits + 1
      /\ (Digits - 1) + (Exponents - 1) \in Nat
      /\ (Digits - 1) + ((Digits - 1) + (Exponents - 1)) = 2 * UnitBits
    BY ParamsAssumption
<1>2. PICK p \in Nat : p = 2^(Digits - 1) /\ p > 0
    BY <1>1, PowerOfInterval
<1>3. PICK e \in Nat : e = 2^(Exponents - 1) /\ e > 0
    BY <1>1, PowerOfInterval
<1>4. One \in Nat /\ One > 0
    BY <1>1, PowerOfInterval DEF One
<1>5. 2^Digits = 2 * p /\ 2^Exponents = 2 * e
    <2>1. 2^((Digits - 1) + 1) = 2^(Digits - 1) * 2^1
        BY <1>1, PowerSum
    <2>2. 2^((Exponents - 1) + 1) = 2^(Exponents - 1) * 2^1
        BY <1>1, PowerSum
    <2>3. (Digits - 1) + 1 = Digits /\ (Exponents - 1) + 1 = Exponents
        BY <1>1
    <2> QED BY <1>2, <1>3, <2>1, <2>2, <2>3, SmallPowers
<1>6. p * (p * e) = One
    <2>1. 2^((Digits - 1) + (Exponents - 1)) = p * e
        BY <1>1, <1>2, <1>3, PowerSum
    <2>2. 2^((Digits - 1) + ((Digits - 1) + (Exponents - 1)))
              = 2^(Digits - 1) * 2^((Digits - 1) + (Exponents - 1))
        BY <1>1, PowerSum
    <2> QED BY <1>1, <1>2, <2>1, <2>2 DEF One
<1>7. (2 * p) * (2 * e) <= 2 * One
    <2>1. 2^(Digits + Exponents) = 2^Digits * 2^Exponents
        BY <1>1, PowerSum
    <2>2. 2^(Digits + Exponents) <= 2^(2 * UnitBits + 1)
        BY <1>1, PowerMonotonic
    <2>3. 2^(2 * UnitBits + 1) = 2^(2 * UnitBits) * 2^1
        BY <1>1, PowerSum
    <2> QED BY <1>4, <1>5, <2>1, <2>2, <2>3, SmallPowers DEF One
<1>8. MaxUnits = (2 * p) * (2 * e) - 2 * e
    BY <1>2, <1>3, <1>5 DEF MaxUnits
<1>9. MaxUnits \in Nat /\ MaxUnits < 2 * One
    <2>1. PICK q \in Nat : p = q + 1
        <3>1. p - 1 \in Nat /\ p = (p - 1) + 1
            BY <1>2
        <3> QED BY <3>1
    <2>2. (2 * p) * (2 * e) = 4 * (q * e) + 4 * e /\ q * e \in Nat
        BY <1>3, <2>1
    <2> QED BY <1>3, <1>4, <1>7, <1>8, <2>2
<1>10. One < p * (MaxUnits + e)
    <2>1. PICK x \in Nat : x = p * e
        BY <1>2, <1>3
    <2>2. MaxUnits + e = 4 * x - e
        BY <1>2, <1>3, <1>8, <2>1
    <2>3. p * (4 * x - e) = 4 * (p * x) - x
        BY <1>2, <1>3, <2>1
    <2>4. x <= p * x
        <3>1. PICK q \in Nat : p = q + 1
            <4>1. p - 1 \in Nat /\ p = (p - 1) + 1
                BY <1>2
            <4> QED BY <4>1
        <3>2. p * x = q * x + x /\ q * x \in Nat
            BY <2>1, <3>1
        <3> QED BY <3>2
    <2>5. p * x = One
        BY <1>6, <2>1
    <2> QED BY <1>4, <2>1, <2>2, <2>3, <2>4, <2>5
<1> QED BY <1>2, <1>3, <1>4, <1>9, <1>10

LEMMA UnitsAreNumbers ==
    /\ Units \in SUBSET Nat /\ 1 \in Units
    /\ \A u \in Units : u <= MaxUnits
<1>1. 2^Digits \in Nat /\ 2^Digits > 1 /\ 2^Exponents \in Nat
    <2>1. Digits \in Nat /\ 1 <= Digits /\ Exponents \in Nat
        BY ParamsAssumption
    <2>2. 2^1 <= 2^Digits
        BY <2>1, PowerMonotonic
    <2>3. 2^Digits \in Nat /\ 2^Exponents \in Nat
        BY <2>1, PowerOfInterval
    <2> QED BY <2>2, <2>3, SmallPowers
<1>2. ASSUME NEW m \in 0 .. 2^Digits - 1, NEW e \in 0 .. Exponents
      PROVE  m * 2^e \in Nat /\ m * 2^e <= MaxUnits
    <2>1. e \in Nat /\ Exponents \in Nat /\ e <= Exponents
        BY ParamsAssumption
    <2>2. 2^e \in Nat /\ 2^e <= 2^Exponents
        BY <2>1, PowerOfInterval, PowerMonotonic
    <2>3. PICK x \in Nat, y \in Nat, k \in Nat :
              x = 2^e /\ y = 2^Exponents /\ k = 2^Digits - 1 /\ m <= k /\ x <= y
        BY <1>1, <2>2
    <2>4. m * x \in Nat /\ m * x <= k * y
        <3>1. PICK a \in Nat, b \in Nat : k = m + a /\ y = x + b
            <4>1. k - m \in Nat /\ k = m + (k - m) /\ y - x \in Nat /\ y = x + (y - x)
                BY <2>3
            <4> QED BY <4>1
        <3>2. k * y = m * x + m * b + a * x + a * b
            BY <2>3, <3>1
        <3>3. m * x \in Nat /\ m * b \in Nat /\ a * x \in Nat /\ a * b \in Nat
            BY <2>3, <3>1
        <3> QED BY <3>2, <3>3
    <2> QED BY <2>3, <2>4 DEF MaxUnits
<1>3. 1 \in Units
    <2>1. 1 \in 0 .. 2^Digits - 1 /\ 0 \in 0 .. Exponents
        BY <1>1, ParamsAssumption
    <2>2. 1 * 2^0 = 1
        BY SmallPowers
    <2>3. \E m \in 0 .. 2^Digits - 1 : \E e \in 0 .. Exponents : 1 = m * 2^e
        BY <2>1, <2>2
    <2> QED BY <2>3 DEF Units
<1> QED BY <1>2, <1>3 DEF Units

(* A unit nearest to the reciprocal exists, and it is not zero.            *)
LEMMA NearestUnit ==
    ASSUME NEW u \in Units, u > 0
    PROVE  LET n == CHOOSE n \in Units : \A k \in Units : Distance(n, u) <= Distance(k, u)
           IN  n \in Units /\ n # 0
<1> DEFINE Nearest(n) == \A k \in Units : Distance(n, u) <= Distance(k, u)
           D == {Distance(n, u) : n \in Units}
           n == CHOOSE n \in Units : Nearest(n)
<1>1. /\ u \in Nat /\ u < 2 * One /\ One \in Nat /\ One > 0
      /\ Units \in SUBSET Nat /\ 1 \in Units
    BY UnitsAreNumbers, FormatRange
<1>2. \A k \in Units : Distance(k, u) \in Nat
    BY <1>1 DEF Distance
<1>3. PICK d \in D : \A c \in D : d <= c
    <2>1. D \in SUBSET Nat /\ D # {}
        BY <1>1, <1>2
    <2> QED BY <2>1, LeastNumber
<1>4. \E k \in Units : Nearest(k)
    BY <1>3
<1>5. n \in Units /\ Nearest(n)
    BY <1>4
<1>6. Distance(0, u) = One /\ Distance(1, u) < One
    BY <1>1 DEF Distance
<1>7. n # 0
    <2>1. Distance(n, u) <= Distance(1, u)
        BY <1>1, <1>5
    <2> HIDE DEF n
    <2>2. ASSUME n = 0 PROVE FALSE
        BY <1>1, <1>2, <1>6, <2>1, <2>2
    <2> QED BY <2>2
<1> QED BY <1>5, <1>7

(* What LaplacianParams::new makes of a positive finite spacing.           *)
LEMMA ReciprocalOfPositive ==
    ASSUME NEW x \in Float, Finite(x), Positive(x)
    PROVE  \/ /\ Reciprocal(x) = Infinity(FALSE)
              /\ x.units < 2^(Digits - 1)
           \/ \E n \in Units : n # 0 /\ Reciprocal(x) = Number(FALSE, n)
<1>1. PICK u \in Units : x = Number(FALSE, u) /\ u # 0
    <2>1. PICK v \in BOOLEAN, u \in Units : x = Number(v, u)
        BY DEF Float, Finite, NaN, Infinity
    <2> QED BY <2>1 DEF Positive, Finite, Number
<1>2. /\ x.kind = "finite" /\ x.negative = FALSE /\ x.units = u /\ x # NaN
      /\ u \in Nat /\ u > 0
    BY <1>1, UnitsAreNumbers DEF Number, NaN
<1>3. CASE u * (MaxUnits + 2^(Exponents - 1)) <= One
    <2>1. Reciprocal(x) = Infinity(FALSE)
        BY <1>2, <1>3 DEF Reciprocal, Finite
    <2>2. PICK p \in Nat, m \in Nat :
              p = 2^(Digits - 1) /\ m = MaxUnits + 2^(Exponents - 1) /\ One < p * m
        BY FormatRange
    <2>3. ASSUME p <= u PROVE FALSE
        <3>1. PICK a \in Nat : u = p + a
            <4>1. u - p \in Nat /\ u = p + (u - p)
                BY <1>2, <2>3
            <4> QED BY <4>1
        <3>2. u * m = p * m + a * m /\ a * m \in Nat /\ p * m \in Nat
            BY <3>1
        <3> QED BY <1>3, <2>2, <3>2, FormatRange
    <2>4. u < p
        BY <1>2, <2>3
    <2>5. x.units < 2^(Digits - 1)
        BY <1>2, <2>2, <2>4
    <2> QED BY <2>1, <2>5
<1>4. CASE ~(u * (MaxUnits + 2^(Exponents - 1)) <= One)
    <2> DEFINE n == CHOOSE n \in Units :
                        \A k \in Units : Distance(n, u) <= Distance(k, u)
    <2>1. n \in Units /\ n # 0
        BY <1>2, NearestUnit
    <2>2. Reciprocal(x) = Number(FALSE, n)
        BY <1>2, <1>4 DEF Reciprocal, Finite
    <2> QED BY <2>1, <2>2
<1> QED BY <1>3, <1>4

LEMMA LaplacianNewIsRight ==
    ASSUME NEW x \in Float
    PROVE  /\ LaplacianNew(x) # NaN =>
                 /\ Finite(x) /\ Positive(x)
                 /\ Finite(LaplacianNew(x)) /\ Positive(LaplacianNew(x))
           /\ LaplacianNew(x) = NaN /\ Finite(x) /\ Positive(x) =>
                 x.units < 2^(Digits - 1)
<1>1. CASE Finite(x) /\ Positive(x)
    <2>1. CASE Reciprocal(x) = Infinity(FALSE) /\ x.units < 2^(Digits - 1)
        BY <1>1, <2>1 DEF LaplacianNew, Finite, Infinity
    <2>2. CASE \E n \in Units : n # 0 /\ Reciprocal(x) = Number(FALSE, n)
        <3>1. PICK n \in Units : n # 0 /\ Reciprocal(x) = Number(FALSE, n)
            BY <2>2
        <3>2. LaplacianNew(x) = Number(FALSE, n)
            BY <1>1, <3>1 DEF LaplacianNew, Finite, Number
        <3> QED BY <1>1, <3>1, <3>2 DEF Finite, Positive, Number, NaN
    <2> QED BY <1>1, <2>1, <2>2, ReciprocalOfPositive
<1>2. CASE ~(Finite(x) /\ Positive(x))
    BY <1>2 DEF LaplacianNew
<1> QED BY <1>1, <1>2

-----------------------------------------------------------------------------
(* What the constructor has made of the spacing, or nothing yet.           *)
PInv == spacing \in Float /\ coefficient \in {Unset, LaplacianNew(spacing)}

LEMMA SpecPInv == Spec => []PInv
<1>1. Init => PInv
    BY DEF Init, ParamsInit, PInv
<1>2. PInv /\ [Next]_vars => PInv'
    <2> SUFFICES ASSUME PInv, [Next]_vars PROVE PInv'
        OBVIOUS
    <2>1. CASE Construct
        BY <2>1 DEF PInv, Construct
    <2>2. CASE spacing' = spacing /\ coefficient' = coefficient
        BY <2>2 DEF PInv
    <2>3. CASE \/ Validate /\ UNCHANGED <<spacing, coefficient, kernel>>
               \/ Launch
               \/ \E b \in DOMAIN block : BlockLoad(b) \/ BlockStore(b)
               \/ UNCHANGED vars
        BY <2>2, <2>3 DEF Launch, BlockLoad, BlockStore, inputs, vars
    <2> QED BY <2>1, <2>3 DEF Next
<1> QED BY <1>1, <1>2, PTL DEF Spec

(* In every format shaped like those of IEEE, and for every spacing, the   *)
(* coefficient that the Laplacian multiplies by is finite and positive,    *)
(* the spacing is one of a Jacobi step as well, and of the positive finite *)
(* spacings only subnormal ones are refused.                               *)
THEOREM CoefficientsAreUsable == Spec => []CoefficientsUsable
<1>1. PInv => CoefficientsUsable
    <2> SUFFICES ASSUME PInv PROVE CoefficientsUsable
        OBVIOUS
    <2>1. CASE coefficient = Unset
        BY <2>1 DEF CoefficientsUsable, Unset, NaN
    <2>2. CASE coefficient = LaplacianNew(spacing)
        <3> DEFINE c == LaplacianNew(spacing)
        <3>1. c # NaN => /\ Finite(spacing) /\ Positive(spacing)
                         /\ Finite(c) /\ Positive(c)
            BY LaplacianNewIsRight DEF PInv
        <3>2. c = NaN /\ Finite(spacing) /\ Positive(spacing) =>
                  spacing.units < 2^(Digits - 1)
            BY LaplacianNewIsRight DEF PInv
        <3>3. ASSUME NEW omega \in Float, Finite(omega),
                     Finite(spacing), Positive(spacing)
              PROVE  JacobiNew(omega, spacing) = "ok"
            BY <3>3 DEF JacobiNew, Negative, Positive
        <3> HIDE DEF c
        <3> QED BY <2>2, <3>1, <3>2, <3>3 DEF CoefficientsUsable, c
    <2> QED BY <2>1, <2>2 DEF PInv
<1> QED BY <1>1, SpecPInv, PTL
=============================================================================
