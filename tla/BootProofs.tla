----------------------------- MODULE BootProofs -----------------------------
(***************************************************************************)
(* Proofs about start-up: that the swap files hold each page of the guest  *)
(* at a place of its own if the size of RAM is a power of two, what of the *)
(* things acquired is released, what mem_init makes of the swap files, and *)
(* that the hart is started with a device tree that is right.              *)
(***************************************************************************)
EXTENDS Boot, TLAPS

-----------------------------------------------------------------------------
\* The powers of two that fit the sizes of RAM, each twice the one before
LEMMA PowerOfTwo == ASSUME NEW i \in 0 .. 30 PROVE 2 ^ i \in Nat \ {0} /\ 2 ^ (i + 1) = 2 * (2 ^ i)
<1>0. CASE i = 0
  BY <1>0, 2 ^ 0 = 1, 2 ^ 1 = 2, i + 1 = 1
<1>1. CASE i = 1
  BY <1>1, 2 ^ 1 = 2, 2 ^ 2 = 4, i + 1 = 2
<1>2. CASE i = 2
  BY <1>2, 2 ^ 2 = 4, 2 ^ 3 = 8, i + 1 = 3
<1>3. CASE i = 3
  BY <1>3, 2 ^ 3 = 8, 2 ^ 4 = 16, i + 1 = 4
<1>4. CASE i = 4
  BY <1>4, 2 ^ 4 = 16, 2 ^ 5 = 32, i + 1 = 5
<1>5. CASE i = 5
  BY <1>5, 2 ^ 5 = 32, 2 ^ 6 = 64, i + 1 = 6
<1>6. CASE i = 6
  BY <1>6, 2 ^ 6 = 64, 2 ^ 7 = 128, i + 1 = 7
<1>7. CASE i = 7
  BY <1>7, 2 ^ 7 = 128, 2 ^ 8 = 256, i + 1 = 8
<1>8. CASE i = 8
  BY <1>8, 2 ^ 8 = 256, 2 ^ 9 = 512, i + 1 = 9
<1>9. CASE i = 9
  BY <1>9, 2 ^ 9 = 512, 2 ^ 10 = 1024, i + 1 = 10
<1>10. CASE i = 10
  BY <1>10, 2 ^ 10 = 1024, 2 ^ 11 = 2048, i + 1 = 11
<1>11. CASE i = 11
  BY <1>11, 2 ^ 11 = 2048, 2 ^ 12 = 4096, i + 1 = 12
<1>12. CASE i = 12
  BY <1>12, 2 ^ 12 = 4096, 2 ^ 13 = 8192, i + 1 = 13
<1>13. CASE i = 13
  BY <1>13, 2 ^ 13 = 8192, 2 ^ 14 = 16384, i + 1 = 14
<1>14. CASE i = 14
  BY <1>14, 2 ^ 14 = 16384, 2 ^ 15 = 32768, i + 1 = 15
<1>15. CASE i = 15
  BY <1>15, 2 ^ 15 = 32768, 2 ^ 16 = 65536, i + 1 = 16
<1>16. CASE i = 16
  BY <1>16, 2 ^ 16 = 65536, 2 ^ 17 = 131072, i + 1 = 17
<1>17. CASE i = 17
  BY <1>17, 2 ^ 17 = 131072, 2 ^ 18 = 262144, i + 1 = 18
<1>18. CASE i = 18
  BY <1>18, 2 ^ 18 = 262144, 2 ^ 19 = 524288, i + 1 = 19
<1>19. CASE i = 19
  BY <1>19, 2 ^ 19 = 524288, 2 ^ 20 = 1048576, i + 1 = 20
<1>20. CASE i = 20
  BY <1>20, 2 ^ 20 = 1048576, 2 ^ 21 = 2097152, i + 1 = 21
<1>21. CASE i = 21
  BY <1>21, 2 ^ 21 = 2097152, 2 ^ 22 = 4194304, i + 1 = 22
<1>22. CASE i = 22
  BY <1>22, 2 ^ 22 = 4194304, 2 ^ 23 = 8388608, i + 1 = 23
<1>23. CASE i = 23
  BY <1>23, 2 ^ 23 = 8388608, 2 ^ 24 = 16777216, i + 1 = 24
<1>24. CASE i = 24
  BY <1>24, 2 ^ 24 = 16777216, 2 ^ 25 = 33554432, i + 1 = 25
<1>25. CASE i = 25
  BY <1>25, 2 ^ 25 = 33554432, 2 ^ 26 = 67108864, i + 1 = 26
<1>26. CASE i = 26
  BY <1>26, 2 ^ 26 = 67108864, 2 ^ 27 = 134217728, i + 1 = 27
<1>27. CASE i = 27
  BY <1>27, 2 ^ 27 = 134217728, 2 ^ 28 = 268435456, i + 1 = 28
<1>28. CASE i = 28
  BY <1>28, 2 ^ 28 = 268435456, 2 ^ 29 = 536870912, i + 1 = 29
<1>29. CASE i = 29
  BY <1>29, 2 ^ 29 = 536870912, 2 ^ 30 = 1073741824, i + 1 = 30
<1>30. CASE i = 30
  BY <1>30, 2 ^ 30 = 1073741824, 2 ^ 31 = 2147483648, i + 1 = 31
<1>. QED
  BY <1>0, <1>1, <1>2, <1>3, <1>4, <1>5, <1>6, <1>7, <1>8, <1>9, <1>10, <1>11, <1>12, <1>13, <1>14, <1>15,
     <1>16, <1>17, <1>18, <1>19, <1>20, <1>21, <1>22, <1>23, <1>24, <1>25, <1>26, <1>27, <1>28, <1>29, <1>30

\* The sizes of RAM for which the shift and the mask fit the files
PowersOfTwo == {2 ^ i : i \in 0 .. 30}

\* A number is put together from a quotient and a remainder in one way only.
LEMMA Quotient ==
  ASSUME NEW d \in Nat \ {0}, NEW q \in Nat, NEW o \in 0 .. d - 1
  PROVE  (q * d + o) \div d = q /\ (q * d + o) % d = o
OBVIOUS

\* Quotient and remainder make up the number.
LEMMA DivMod ==
  ASSUME NEW d \in Nat \ {0}, NEW x \in Nat
  PROVE  /\ x \div d \in Nat /\ x % d \in 0 .. d - 1
         /\ x = (x \div d) * d + (x % d)
OBVIOUS

\* What is a number of pages is not rounded up.
LEMMA AlignedUp ==
  ASSUME NEW f \in Nat PROVE ALIGN_UP(f * MEM_PAGE_SIZE, MEM_PAGE_SIZE) = f * MEM_PAGE_SIZE
<1>1. MEM_PAGE_SIZE \in Nat \ {0} /\ MEM_PAGE_SIZE - 1 \in 0 .. MEM_PAGE_SIZE - 1
  BY SwapAssumption
<1>2. (f * MEM_PAGE_SIZE + (MEM_PAGE_SIZE - 1)) \div MEM_PAGE_SIZE = f
  BY <1>1, Quotient
<1>3. f * MEM_PAGE_SIZE + MEM_PAGE_SIZE - 1 = f * MEM_PAGE_SIZE + (MEM_PAGE_SIZE - 1)
  BY <1>1
<1>. QED
  BY <1>2, <1>3 DEF ALIGN_UP

\* The files are as many pages each as it takes to hold RAM, and no more.
LEMMA FileSizes ==
  ASSUME size \in Sizes, nSwapFiles \in {1, 2, 4, MAX_SWAP_FILES}
  PROVE  /\ nFileSize \in Nat \ {0} /\ nFileSize <= 2 ^ 30
         /\ size = nSwapFiles * nFileSize
         /\ \E f \in Nat \ {0} : nFileSize = f * MEM_PAGE_SIZE
<1>. DEFINE P == MEM_PAGE_SIZE
            q == size \div (8 * P)
<1>1. /\ P \in Nat \ {0} /\ 8 * P \in Nat \ {0}
      /\ size \in Nat \ {0} /\ size % (8 * P) = 0 /\ size <= 1073741824
  BY SwapAssumption, 2 ^ 30 = 1073741824
<1>2. q \in Nat /\ size = q * (8 * P)
  <2>. HIDE DEF P
  <2>. DEFINE d == 8 * P
  <2>1. size \div d \in Nat /\ size = (size \div d) * d + (size % d)
    <3>. HIDE DEF d
    <3>1. d \in Nat \ {0} /\ size \in Nat
      BY <1>1 DEF d
    <3>. QED
      BY <3>1, DivMod
  <2>. DEFINE w == (size \div d) * d
  <2>2. w \in Nat /\ size % d = 0
    BY <1>1, <2>1
  <2>3. size = w
    <3>1. size = w + 0
      BY <2>1, <2>2
    <3>. HIDE DEF w
    <3>. QED
      BY <2>2, <3>1
  <2>. QED
    BY <2>1, <2>3
<1>. DEFINE v == q * P
<1>3. v \in Nat /\ size = 8 * v
  <2>. HIDE DEF q, P
  <2>. QED
    BY <1>1, <1>2
<1>4. \E f \in Nat : size \div nSwapFiles = f * P /\ size = nSwapFiles * (f * P)
  <2>1. CASE nSwapFiles = 1
    <3>1. (8 * q) * P = 8 * v /\ 8 * q \in Nat
      BY <1>1, <1>2
    <3>. HIDE DEF v
    <3>2. size \div 1 = 8 * v /\ size = 1 * (8 * v)
      BY <1>3
    <3>. QED
      BY <2>1, <3>1, <3>2
  <2>2. CASE nSwapFiles = 2
    <3>1. (4 * q) * P = 4 * v /\ 4 * q \in Nat
      BY <1>1, <1>2
    <3>. HIDE DEF v
    <3>2. size \div 2 = 4 * v /\ size = 2 * (4 * v)
      BY <1>3
    <3>. QED
      BY <2>2, <3>1, <3>2
  <2>3. CASE nSwapFiles = 4
    <3>1. (2 * q) * P = 2 * v /\ 2 * q \in Nat
      BY <1>1, <1>2
    <3>. HIDE DEF v
    <3>2. size \div 4 = 2 * v /\ size = 4 * (2 * v)
      BY <1>3
    <3>. QED
      BY <2>3, <3>1, <3>2
  <2>4. CASE nSwapFiles = 8
    <3>1. v = q * P
      OBVIOUS
    <3>. HIDE DEF v
    <3>2. size \div 8 = v /\ size = 8 * v
      BY <1>3
    <3>. QED
      BY <1>2, <2>4, <3>1, <3>2
  <2>. QED
    BY <2>1, <2>2, <2>3, <2>4 DEF MAX_SWAP_FILES
<1>5. PICK f \in Nat : size \div nSwapFiles = f * P /\ size = nSwapFiles * (f * P)
  BY <1>4
<1>6. nFileSize = f * P
  BY <1>5, AlignedUp DEF nFileSize
<1>7. nSwapFiles \in Nat \ {0}
  BY DEF MAX_SWAP_FILES
<1>. DEFINE F == f * P
<1>8. F \in Nat /\ (F # 0 => f # 0)
  BY <1>1, <1>5
<1>9. size = nSwapFiles * F
  BY <1>5
<1>. HIDE DEF F, P
<1>10. F # 0
  <2>1. nSwapFiles * 0 = 0
    BY <1>7
  <2>. QED
    BY <1>1, <1>9, <2>1
<1>11. F <= size
  <2>1. nSwapFiles = 1 \/ nSwapFiles = 2 \/ nSwapFiles = 4 \/ nSwapFiles = 8
    BY DEF MAX_SWAP_FILES
  <2>. QED
    BY <1>8, <1>9, <2>1
<1>12. F <= 2 ^ 30
  BY <1>1, <1>8, <1>11, 2 ^ 30 = 1073741824
<1>. QED
  BY <1>5, <1>6, <1>8, <1>9, <1>10, <1>12 DEF F, P

\* Half a power of two is one, too.
LEMMA Halved == ASSUME NEW x \in Nat, 2 * x \in PowersOfTwo PROVE x \in PowersOfTwo
<1>1. PICK e \in 0 .. 30 : 2 * x = 2 ^ e
  BY DEF PowersOfTwo
<1>2. e # 0
  <2>1. e = 0 => 2 ^ e = 1
    BY 2 ^ 0 = 1
  <2>2. 2 * x # 1
    OBVIOUS
  <2>. QED
    BY <1>1, <2>1, <2>2
<1>3. e - 1 \in 0 .. 30 /\ (e - 1) + 1 = e
  BY <1>2
<1>4. 2 ^ (e - 1) \in Nat /\ 2 ^ e = 2 * (2 ^ (e - 1))
  BY <1>3, PowerOfTwo
<1>. DEFINE h == 2 ^ (e - 1)
<1>5. x = h
  <2>1. h \in Nat /\ 2 * x = 2 * h
    BY <1>1, <1>4
  <2>. HIDE DEF h
  <2>. QED
    BY <2>1
<1>. QED
  BY <1>3, <1>5 DEF PowersOfTwo

\* The only odd power of two is one.
LEMMA OddPower == ASSUME NEW x \in PowersOfTwo, x % 2 # 0 PROVE x = 1
<1>1. PICK e \in 0 .. 30 : x = 2 ^ e
  BY DEF PowersOfTwo
<1>2. CASE e = 0
  BY <1>1, <1>2, 2 ^ 0 = 1
<1>3. CASE e # 0
  <2>1. e - 1 \in 0 .. 30 /\ (e - 1) + 1 = e
    BY <1>3
  <2>2. 2 ^ (e - 1) \in Nat /\ 2 ^ e = 2 * (2 ^ (e - 1))
    BY <2>1, PowerOfTwo
  <2>. DEFINE h == 2 ^ (e - 1)
  <2>3. h \in Nat /\ x = 2 * h
    BY <1>1, <2>2
  <2>. HIDE DEF h
  <2>. QED
    BY <2>3
<1>. QED
  BY <1>2, <1>3

\* What the loop over the bits keeps: the mask has as many bits as the shift counts,
\* what is left of the size and what was taken from it make up the size, and a is a page.
SwapOK ==
  /\ size \in Sizes /\ nSwapFiles \in {1, 2, 4, MAX_SWAP_FILES}
  /\ n \in Nat \ {0} /\ filePosMask \in Nat /\ fileNoShift \in 0 .. 30
  /\ filePosMask + 1 = 2 ^ fileNoShift
  /\ n * (2 ^ fileNoShift) = nFileSize
  /\ Sizes \subseteq PowersOfTwo => n \in PowersOfTwo
  /\ \E p \in 0 .. (size \div MEM_PAGE_SIZE) - 1 : a = p * MEM_PAGE_SIZE

\* The number of pages of RAM.
LEMMA PagesOfRam ==
  ASSUME size \in Sizes, nSwapFiles \in {1, 2, 4, MAX_SWAP_FILES}, NEW f \in Nat \ {0},
         nFileSize = f * MEM_PAGE_SIZE
  PROVE  size \div MEM_PAGE_SIZE = nSwapFiles * f
<1>1. MEM_PAGE_SIZE \in Nat \ {0} /\ nSwapFiles \in Nat \ {0} /\ 0 \in 0 .. MEM_PAGE_SIZE - 1
  BY SwapAssumption DEF MAX_SWAP_FILES
<1>2. size = nSwapFiles * (f * MEM_PAGE_SIZE)
  BY FileSizes
<1>. DEFINE q == nSwapFiles * f
<1>3. q \in Nat /\ size = q * MEM_PAGE_SIZE
  BY <1>1, <1>2
<1>. HIDE DEF q
<1>4. (q * MEM_PAGE_SIZE + 0) \div MEM_PAGE_SIZE = q
  BY <1>1, <1>3, Quotient
<1>5. q * MEM_PAGE_SIZE + 0 = q * MEM_PAGE_SIZE
  BY <1>1, <1>3
<1>. QED
  BY <1>3, <1>4, <1>5 DEF q

\* The loop over the bits begins with none of them.
LEMMA SwapInitOK == ASSUME SwapInit PROVE SwapOK /\ ready = FALSE /\ a = 0 /\ fileNoShift = 0
<1>1. /\ size \in Sizes /\ nSwapFiles \in {1, 2, 4, MAX_SWAP_FILES} /\ n = nFileSize
      /\ filePosMask = 0 /\ fileNoShift = 0 /\ ready = FALSE /\ a = 0
  BY DEF SwapInit
<1>2. /\ nFileSize \in Nat \ {0} /\ size = nSwapFiles * nFileSize
      /\ \E f \in Nat \ {0} : nFileSize = f * MEM_PAGE_SIZE
  BY <1>1, FileSizes
<1>3. 2 ^ fileNoShift = 1 /\ filePosMask + 1 = 1 /\ n * 1 = n
  BY <1>1, <1>2, 2 ^ 0 = 1
<1>4. Sizes \subseteq PowersOfTwo => nFileSize \in PowersOfTwo
  <2>. DEFINE F == nFileSize
  <2>. SUFFICES ASSUME Sizes \subseteq PowersOfTwo PROVE F \in PowersOfTwo
    OBVIOUS
  <2>1. size \in PowersOfTwo /\ size = nSwapFiles * F /\ F \in Nat
    BY <1>1, <1>2
  <2>. HIDE DEF F
  <2>2. CASE nSwapFiles = 1
    <3>1. size = F
      BY <2>1, <2>2
    <3>. QED
      BY <2>1, <3>1
  <2>3. CASE nSwapFiles = 2
    <3>1. size = 2 * F
      BY <2>1, <2>3
    <3>. QED
      BY <2>1, <3>1, Halved
  <2>4. CASE nSwapFiles = 4
    <3>1. size = 2 * (2 * F) /\ 2 * F \in Nat
      BY <2>1, <2>4
    <3>2. 2 * F \in PowersOfTwo
      BY <2>1, <3>1, Halved
    <3>. QED
      BY <2>1, <3>2, Halved
  <2>5. CASE nSwapFiles = 8
    <3>1. size = 2 * (2 * (2 * F)) /\ 2 * F \in Nat /\ 2 * (2 * F) \in Nat
      BY <2>1, <2>5
    <3>2. 2 * (2 * F) \in PowersOfTwo
      BY <2>1, <3>1, Halved
    <3>3. 2 * F \in PowersOfTwo
      BY <3>1, <3>2, Halved
    <3>. QED
      BY <2>1, <3>3, Halved
  <2>. QED
    BY <1>1, <2>2, <2>3, <2>4, <2>5 DEF MAX_SWAP_FILES
<1>5. \E p \in 0 .. (size \div MEM_PAGE_SIZE) - 1 : a = p * MEM_PAGE_SIZE
  <2>1. PICK f \in Nat \ {0} : nFileSize = f * MEM_PAGE_SIZE
    BY <1>2
  <2>2. size \div MEM_PAGE_SIZE = nSwapFiles * f
    BY <1>1, <2>1, PagesOfRam
  <2>3. nSwapFiles * f \in Nat \ {0}
    BY <1>1, <2>1 DEF MAX_SWAP_FILES
  <2>4. 0 \in 0 .. (size \div MEM_PAGE_SIZE) - 1 /\ a = 0 * MEM_PAGE_SIZE
    BY <1>1, <2>2, <2>3, SwapAssumption
  <2>. QED
    BY <2>4
<1>6. /\ n \in Nat \ {0} /\ filePosMask \in Nat /\ fileNoShift \in 0 .. 30
      /\ filePosMask + 1 = 2 ^ fileNoShift /\ n * (2 ^ fileNoShift) = nFileSize
  <2>1. n * (2 ^ fileNoShift) = n * 1
    BY <1>3
  <2>2. n * 1 = nFileSize /\ 0 \in 0 .. 30 /\ 0 \in Nat /\ nFileSize \in Nat \ {0}
    BY <1>1, <1>2, <1>3
  <2>. QED
    BY <1>1, <1>3, <2>1, <2>2
<1>. QED
  BY <1>1, <1>4, <1>5, <1>6 DEF SwapOK

\* A turn of the loop over the bits
LEMMA TrailingZeroOK == ASSUME SwapOK, TrailingZero PROVE SwapOK'
<1>1. /\ n % 2 = 0 /\ n' = n \div 2 /\ filePosMask' = filePosMask * 2 + 1 /\ fileNoShift' = fileNoShift + 1
      /\ UNCHANGED <<size, nSwapFiles, a>>
  BY DEF TrailingZero
<1>2. /\ size \in Sizes /\ nSwapFiles \in {1, 2, 4, MAX_SWAP_FILES}
      /\ n \in Nat \ {0} /\ filePosMask \in Nat /\ fileNoShift \in 0 .. 30
      /\ filePosMask + 1 = 2 ^ fileNoShift /\ n * (2 ^ fileNoShift) = nFileSize
  BY DEF SwapOK
<1>. DEFINE B == 2 ^ fileNoShift
            B1 == 2 ^ (fileNoShift + 1)
            F == nFileSize
            h == n \div 2
<1>3. B \in Nat \ {0} /\ B1 = 2 * B
  BY <1>2, PowerOfTwo
<1>4. F \in Nat \ {0} /\ F <= 1073741824
  BY <1>2, FileSizes, 2 ^ 30 = 1073741824
<1>5. fileNoShift # 30
  <2>1. fileNoShift = 30 => B = 1073741824
    BY 2 ^ 30 = 1073741824
  <2>2. n * B = F
    BY <1>2
  <2>. HIDE DEF B, F
  <2>3. B < 1073741824
    <3>1. n >= 2
      BY <1>1, <1>2
    <3>2. n * B >= 2 * B
      BY <1>2, <1>3, <3>1
    <3>. DEFINE w == n * B
    <3>. HIDE DEF w
    <3>3. w >= 2 * B /\ w = F
      BY <2>2, <3>2 DEF w
    <3>. QED
      BY <1>3, <1>4, <3>3
  <2>. QED
    BY <2>1, <2>3
<1>6. h \in Nat \ {0} /\ n = 2 * h
  BY <1>1, <1>2
<1>7. n' \in Nat \ {0} /\ filePosMask' \in Nat /\ fileNoShift' \in 0 .. 30
  BY <1>1, <1>2, <1>5, <1>6
<1>8. filePosMask' + 1 = 2 ^ fileNoShift'
  <2>1. filePosMask + 1 = B /\ 2 ^ fileNoShift' = B1
    BY <1>1, <1>2
  <2>. HIDE DEF B, B1
  <2>. QED
    BY <1>1, <1>2, <1>3, <2>1
<1>9. n' * (2 ^ fileNoShift') = nFileSize'
  <2>1. n * B = F /\ 2 ^ fileNoShift' = B1 /\ n' = h
    BY <1>1, <1>2
  <2>2. nFileSize' = F
    BY <1>1 DEF nFileSize
  <2>. HIDE DEF B, B1, F, h
  <2>3. h * B1 = n * B
    BY <1>3, <1>6
  <2>. QED
    BY <2>1, <2>2, <2>3
<1>10. Sizes \subseteq PowersOfTwo => n' \in PowersOfTwo
  <2>1. Sizes \subseteq PowersOfTwo => 2 * h \in PowersOfTwo
    BY <1>6 DEF SwapOK
  <2>. QED
    BY <1>1, <1>6, <2>1, Halved
<1>. QED
  BY <1>1, <1>2, <1>7, <1>8, <1>9, <1>10 DEF SwapOK

\* An access leaves the layout alone.
LEMMA AccessOK == ASSUME SwapOK, Access PROVE SwapOK'
<1>1. UNCHANGED <<size, nSwapFiles, n, filePosMask, fileNoShift>>
  BY DEF Access
<1>2. \E p \in 0 .. (size \div MEM_PAGE_SIZE) - 1 : a' = p * MEM_PAGE_SIZE
  BY DEF Access
<1>3. nFileSize' = nFileSize
  BY <1>1 DEF nFileSize
<1>. QED
  BY <1>1, <1>2, <1>3 DEF SwapOK

\* Nothing else comes near it.
LEMMA SwapKept ==
  ASSUME SwapOK, UNCHANGED <<size, nSwapFiles, n, filePosMask, fileNoShift, a>> PROVE SwapOK'
<1>1. nFileSize' = nFileSize
  BY DEF nFileSize
<1>. QED
  BY <1>1 DEF SwapOK

-----------------------------------------------------------------------------
\* The page at a in the files, if shift and mask are those of a file's size
LEMMA Placed ==
  ASSUME SwapOK, 2 ^ fileNoShift = nFileSize
  PROVE  /\ _lookupSwapFile(a) < nSwapFiles
         /\ FilePos(a) + MEM_PAGE_SIZE <= nFileSize
<1>1. /\ size \in Sizes /\ nSwapFiles \in {1, 2, 4, MAX_SWAP_FILES}
      /\ filePosMask + 1 = nFileSize /\ MEM_PAGE_SIZE \in Nat \ {0}
  BY SwapAssumption DEF SwapOK
<1>2. PICK f \in Nat \ {0} : nFileSize = f * MEM_PAGE_SIZE
  BY <1>1, FileSizes
<1>3. size \div MEM_PAGE_SIZE = nSwapFiles * f
  BY <1>1, <1>2, PagesOfRam
<1>4. PICK p \in 0 .. nSwapFiles * f - 1 : a = p * MEM_PAGE_SIZE
  BY <1>3 DEF SwapOK
<1>. DEFINE P == MEM_PAGE_SIZE
            F == nFileSize
            q == p \div f
            r == p % f
<1>5. nSwapFiles * f \in Nat /\ p \in Nat
  BY <1>1, <1>2, <1>4 DEF MAX_SWAP_FILES
<1>6. q \in Nat /\ r \in 0 .. f - 1 /\ p = q * f + r
  BY <1>5, DivMod
<1>7. q < nSwapFiles
  <2>1. q * f < nSwapFiles * f
    <3>. DEFINE w == q * f
    <3>1. w \in Nat /\ p = w + r
      BY <1>6
    <3>. HIDE DEF w, q, r
    <3>2. w < nSwapFiles * f
      BY <1>4, <1>5, <1>6, <3>1
    <3>. QED
      BY <3>2 DEF w
  <2>. HIDE DEF q
  <2>2. nSwapFiles \in Nat
    BY <1>1 DEF MAX_SWAP_FILES
  <2>3. q >= nSwapFiles => q * f >= nSwapFiles * f
    BY <1>6, <2>2
  <2>. QED
    BY <1>5, <1>6, <2>1, <2>2, <2>3
<1>. HIDE DEF q, r
<1>8. a = q * F + r * P /\ r * P \in 0 .. F - 1 /\ r * P + P <= F /\ F \in Nat \ {0}
  <2>1. a = (q * f + r) * P /\ F = f * P
    BY <1>2, <1>4, <1>6
  <2>. HIDE DEF P, F
  <2>2. (q * f + r) * P = q * (f * P) + r * P
    BY <1>1, <1>6 DEF P
  <2>3. (r + 1) * P <= f * P /\ r * P \in Nat /\ (r + 1) * P = r * P + P /\ f * P \in Nat \ {0}
    BY <1>1, <1>6 DEF P
  <2>4. a = q * F + r * P
    BY <2>1, <2>2
  <2>. DEFINE w == r * P
  <2>5. w \in Nat /\ w + P <= F /\ F \in Nat \ {0} /\ P \in Nat \ {0}
    BY <1>1, <2>1, <2>3 DEF P
  <2>. HIDE DEF w
  <2>6. w \in 0 .. F - 1
    BY <2>5
  <2>. QED
    BY <2>4, <2>5, <2>6 DEF w
<1>9. a \div F = q /\ a % F = r * P
  <2>. DEFINE w == r * P
  <2>. HIDE DEF w, F
  <2>1. w \in 0 .. F - 1 /\ a = q * F + w
    BY <1>8 DEF w
  <2>2. (q * F + w) \div F = q /\ (q * F + w) % F = w
    BY <1>6, <1>8, <2>1, Quotient
  <2>. QED
    BY <2>1, <2>2 DEF w
<1>. QED
  BY <1>1, <1>7, <1>8, <1>9 DEF _lookupSwapFile, FilePos

\* When mem_init is through, the bits of a file's size are; only the DOS build has
\* swap files, and the others' layout is that of one page.
LayoutDone == ready => n % 2 # 0 \/ (fileNoShift = 0 /\ a = 0)

\* With RAM a power of two the bits run out at one: shift and mask are those of a file.
LEMMA PageInSwapHolds ==
  ASSUME Sizes \subseteq PowersOfTwo, SwapOK, LayoutDone PROVE PageInSwap
<1>. SUFFICES ASSUME ready PROVE _lookupSwapFile(a) < nSwapFiles /\ FilePos(a) + MEM_PAGE_SIZE <= nFileSize
  BY DEF PageInSwap
<1>1. CASE n % 2 # 0
  <2>1. n = 1
    BY <1>1, OddPower DEF SwapOK
  <2>2. fileNoShift \in 0 .. 30 /\ n * (2 ^ fileNoShift) = nFileSize
    BY DEF SwapOK
  <2>3. 2 ^ fileNoShift = nFileSize
    <3>. DEFINE B == 2 ^ fileNoShift
    <3>1. B \in Nat /\ n * B = nFileSize
      BY <2>2, PowerOfTwo
    <3>. HIDE DEF B
    <3>2. n * B = B
      BY <2>1, <3>1
    <3>. QED
      BY <3>1, <3>2 DEF B
  <2>. QED
    BY <2>3, Placed
<1>2. CASE fileNoShift = 0 /\ a = 0
  <2>1. 2 ^ fileNoShift = 1 /\ filePosMask + 1 = 1
    BY <1>2, 2 ^ 0 = 1 DEF SwapOK
  <2>2. _lookupSwapFile(a) = 0 /\ FilePos(a) = 0
    BY <1>2, <2>1 DEF _lookupSwapFile, FilePos
  <2>3. nSwapFiles \in Nat \ {0} /\ size \in Sizes /\ nSwapFiles \in {1, 2, 4, MAX_SWAP_FILES}
    BY DEF SwapOK, MAX_SWAP_FILES
  <2>4. PICK f \in Nat \ {0} : nFileSize = f * MEM_PAGE_SIZE
    BY <2>3, FileSizes
  <2>5. 0 + MEM_PAGE_SIZE <= f * MEM_PAGE_SIZE
    BY <2>4, SwapAssumption
  <2>. QED
    BY <2>2, <2>3, <2>4, <2>5
<1>. QED
  BY <1>1, <1>2 DEF LayoutDone

\* Whatever the size: what differs in neither file nor position does not differ.
LEMMA PagesApartHolds == ASSUME SwapOK PROVE PagesApart
<1>. SUFFICES ASSUME NEW p \in 0 .. (size \div MEM_PAGE_SIZE) - 1,
                     _lookupSwapFile(p * MEM_PAGE_SIZE) = _lookupSwapFile(a),
                     FilePos(p * MEM_PAGE_SIZE) = FilePos(a)
              PROVE  a = p * MEM_PAGE_SIZE
  BY DEF PagesApart
<1>. DEFINE b == p * MEM_PAGE_SIZE
            B == 2 ^ fileNoShift
<1>1. B \in Nat \ {0} /\ filePosMask + 1 = B
  BY PowerOfTwo DEF SwapOK
<1>2. a \in Nat /\ b \in Nat
  <2>1. PICK r \in 0 .. (size \div MEM_PAGE_SIZE) - 1 : a = r * MEM_PAGE_SIZE
    BY DEF SwapOK
  <2>2. r \in Nat /\ p \in Nat /\ MEM_PAGE_SIZE \in Nat
    BY SwapAssumption
  <2>. QED
    BY <2>1, <2>2
<1>3. b \div B = a \div B /\ b % B = a % B
  BY <1>1 DEF _lookupSwapFile, FilePos
<1>. HIDE DEF b, B
<1>4. b = (b \div B) * B + (b % B) /\ a = (a \div B) * B + (a % B)
  BY <1>1, <1>2, DivMod
<1>. QED
  BY <1>3, <1>4 DEF b

-----------------------------------------------------------------------------
\* Where main is before mem_init has returned true, and from then on
Early == {"start", "args", "data", "frames", "shift", "open", "seek", "grow", "mem_destroy"}
Late == {"devices", "tree", "image", "load", "reset", "run", "aborted"}
Down == {"destroy", "exited"}

StepOK ==
  /\ step \in Early \cup Late \cup Down
  /\ opts.dos \in BOOLEAN /\ ready \in BOOLEAN
  /\ step \in {"frames", "shift", "open", "seek", "grow", "mem_destroy"} => opts.dos
  /\ step = "data" => ~opts.dos
  /\ step \in Early => ~ready
  /\ step \in Late => ready

\* The build without paging opens no file; the other has set every handle when
\* it opens the first.
HandlesOK ==
  /\ frames \in [Frame -> {"null", "live", "freed"}]
  /\ swapFiles \in [File -> {"zero", "none", "open", "closed"}]
  /\ ~opts.dos => \A i \in File : swapFiles[i] = "zero"
  /\ opts.dos /\ (ready \/ step \in {"open", "seek", "grow"}) => \A i \in File : swapFiles[i] # "zero"

\* Nothing is released before main is on its way out, and then, if mem_init
\* returned true, nothing before _vmDestroy.
NoneReleased ==
  (step \notin Down \/ (step = "destroy" /\ ready)) =>
    /\ strays = {}
    /\ \A f \in Frame : frames[f] # "freed"
    /\ \A i \in File : swapFiles[i] # "closed"

\* mem_init looks at the bits before it opens the files; without paging it does neither.
LayoutOK ==
  /\ SwapOK
  /\ opts.dos /\ (ready \/ step \in {"open", "seek", "grow"}) => n % 2 # 0
  /\ ~opts.dos => fileNoShift = 0 /\ a = 0

\* What Released says of mem_init's frames and files
MemReleased ==
  /\ step = "exited" => /\ \A f \in Frame : frames[f] # "live"
                        /\ \A i \in File : swapFiles[i] # "open"
                        /\ terminal = "saved"
  /\ ready => strays = {}

BootInv == StepOK /\ HandlesOK /\ NoneReleased /\ LayoutOK /\ MemReleased

\* _vm is zero when main is entered.
LEMMA BootInitInv == BootInit => BootInv
<1>. SUFFICES ASSUME BootInit PROVE BootInv
  OBVIOUS
<1>1. /\ SwapInit /\ step = "start" /\ strays = {} /\ opts.dos \in BOOLEAN
      /\ frames = [f \in Frame |-> "null"] /\ swapFiles = [i \in File |-> "zero"]
  BY DEF BootInit
<1>2. SwapOK /\ ready = FALSE /\ a = 0 /\ fileNoShift = 0
  BY <1>1, SwapInitOK
<1>3. StepOK /\ HandlesOK /\ NoneReleased /\ MemReleased /\ LayoutOK
  BY <1>1, <1>2 DEF StepOK, Early, Late, Down, HandlesOK, NoneReleased, MemReleased, LayoutOK
<1>. QED
  BY <1>3 DEF BootInv

-----------------------------------------------------------------------------
\* The steps of main that touch neither the memory's parts nor the layout
Moves ==
  /\ \/ step = "start" /\ step' = "args"
     \/ step = "args" /\ step' \in {IF opts.dos THEN "frames" ELSE "data", "destroy"}
     \/ step = "frames" /\ step' = "shift"
     \/ step \in Late /\ step' \in Late \cup {"destroy"}
  /\ UNCHANGED <<swapVars, opts, memVars>>

\* Such a step keeps the invariant.
LEMMA MovesInv == ASSUME BootInv, Moves PROVE BootInv'
<1>1. UNCHANGED <<size, nSwapFiles, n, filePosMask, fileNoShift, ready, a, opts, frames, swapFiles, strays>>
  BY DEF Moves, swapVars, memVars
<1>2. StepOK'
  BY <1>1 DEF Moves, BootInv, StepOK, Early, Late, Down
<1>3. step \notin Down /\ step' \notin {"open", "seek", "grow", "exited"}
  BY DEF Moves, Late, Down
<1>4. HandlesOK' /\ NoneReleased' /\ MemReleased'
  BY <1>1, <1>3 DEF BootInv, HandlesOK, NoneReleased, MemReleased
<1>5. SwapOK'
  BY <1>1, SwapKept DEF BootInv, LayoutOK
<1>6. LayoutOK'
  BY <1>1, <1>3, <1>5 DEF BootInv, LayoutOK
<1>. QED
  BY <1>2, <1>4, <1>6 DEF BootInv

\* Which they are
LEMMA MovingSteps ==
  ASSUME BootInv,
         \/ ui_init \/ _parseArgs \/ FramesDone \/ RegisterDevice \/ _buildDeviceTree \/ dt_initFails
         \/ TreeFails \/ WriteTree \/ NoImageFile \/ NoImageBuffer \/ BadHeader \/ OpenImage
         \/ LoadChunk \/ ImageTooLarge \/ StartHart
  PROVE  Moves
<1>1. CASE ui_init
  BY <1>1 DEF ui_init, Goto, Moves
<1>2. CASE _parseArgs
  BY <1>2 DEF _parseArgs, Fails, Goto, Moves
<1>3. CASE FramesDone
  BY <1>3 DEF FramesDone, Goto, Moves
<1>4. CASE RegisterDevice
  BY <1>4 DEF RegisterDevice, Moves, Late
<1>5. CASE _buildDeviceTree
  <2>1. \/ step = "devices" /\ step' = "tree"
        \/ step = "tree" /\ step' = step
    BY <1>5 DEF _buildDeviceTree, Goto
  <2>2. UNCHANGED <<swapVars, opts, memVars>>
    BY <1>5 DEF _buildDeviceTree
  <2>. QED
    BY <2>1, <2>2 DEF Moves, Late
<1>6. CASE dt_initFails \/ TreeFails
  BY <1>6 DEF dt_initFails, TreeFails, Fails, Goto, Moves, Late
<1>7. CASE WriteTree
  BY <1>7 DEF WriteTree, Goto, Moves, Late
<1>8. CASE NoImageFile \/ NoImageBuffer \/ BadHeader
  BY <1>8 DEF NoImageFile, NoImageBuffer, BadHeader, Fails, Goto, Moves, Late
<1>9. CASE OpenImage
  BY <1>9 DEF OpenImage, Goto, Moves, Late
<1>10. CASE LoadChunk
  BY <1>10 DEF LoadChunk, Moves, Late
<1>11. CASE ImageTooLarge
  BY <1>11 DEF ImageTooLarge, Goto, Moves, Late
<1>12. CASE StartHart
  BY <1>12 DEF StartHart, Goto, Moves, Late
<1>. QED
  BY <1>1, <1>2, <1>3, <1>4, <1>5, <1>6, <1>7, <1>8, <1>9, <1>10, <1>11, <1>12

\* mem_init without paging
LEMMA InitFlatInv == ASSUME BootInv, InitFlat PROVE BootInv'
<1>1. /\ step = "data"
      /\ UNCHANGED <<size, nSwapFiles, n, filePosMask, fileNoShift, a, opts, swapFiles, strays>>
      /\ \/ step' = "devices" /\ frames' = [frames EXCEPT ![1] = "live"] /\ ready' = TRUE
         \/ step' = "destroy" /\ UNCHANGED <<frames, ready>>
  BY DEF InitFlat, Goto, Fails
<1>2. ~opts.dos /\ ~ready
  BY <1>1 DEF BootInv, StepOK, Early
<1>3. StepOK'
  BY <1>1, <1>2 DEF BootInv, StepOK, Early, Late, Down
<1>4. frames' \in [Frame -> {"null", "live", "freed"}] /\ \A f \in Frame : frames'[f] # "freed"
  <2>1. frames \in [Frame -> {"null", "live", "freed"}] /\ \A f \in Frame : frames[f] # "freed"
    BY <1>1 DEF BootInv, HandlesOK, NoneReleased, Down
  <2>. QED
    BY <1>1, <2>1
<1>5. HandlesOK'
  BY <1>1, <1>2, <1>4 DEF BootInv, HandlesOK
<1>6. strays = {} /\ (\A i \in File : swapFiles[i] # "closed")
  BY <1>1 DEF BootInv, NoneReleased, Down
<1>7. NoneReleased' /\ MemReleased'
  BY <1>1, <1>4, <1>6 DEF BootInv, NoneReleased, MemReleased
<1>8. SwapOK'
  BY <1>1, SwapKept DEF BootInv, LayoutOK
<1>9. LayoutOK'
  BY <1>1, <1>2, <1>8 DEF BootInv, LayoutOK
<1>. QED
  BY <1>3, <1>5, <1>7, <1>9 DEF BootInv

\* The frames of the DOS build, one by one
LEMMA AllocFrameInv == ASSUME BootInv, AllocFrame PROVE BootInv'
<1>1. /\ step = "frames"
      /\ UNCHANGED <<size, nSwapFiles, n, filePosMask, fileNoShift, ready, a, opts, swapFiles, strays>>
      /\ \/ step' = "frames" /\ frames' = [frames EXCEPT ![k + 1] = "live"]
         \/ step' = "mem_destroy" /\ UNCHANGED frames
  BY DEF AllocFrame, MemFails, Goto, swapVars
<1>2. StepOK'
  BY <1>1 DEF BootInv, StepOK, Early, Late, Down
<1>3. frames' \in [Frame -> {"null", "live", "freed"}] /\ \A f \in Frame : frames'[f] # "freed"
  <2>1. frames \in [Frame -> {"null", "live", "freed"}] /\ \A f \in Frame : frames[f] # "freed"
    BY <1>1 DEF BootInv, HandlesOK, NoneReleased, Down
  <2>. QED
    BY <1>1, <2>1
<1>4. HandlesOK'
  BY <1>1, <1>3 DEF BootInv, HandlesOK
<1>5. strays = {} /\ (\A i \in File : swapFiles[i] # "closed")
  BY <1>1 DEF BootInv, NoneReleased, Down
<1>6. NoneReleased' /\ MemReleased'
  BY <1>1, <1>3, <1>5 DEF BootInv, NoneReleased, MemReleased
<1>7. SwapOK'
  BY <1>1, SwapKept DEF BootInv, LayoutOK
<1>8. LayoutOK'
  BY <1>1, <1>7 DEF BootInv, LayoutOK
<1>. QED
  BY <1>2, <1>4, <1>6, <1>8 DEF BootInv

\* The loop over the bits
LEMMA ShiftInv == ASSUME BootInv, Shift PROVE BootInv'
<1>1. /\ step = "shift" /\ TrailingZero
      /\ UNCHANGED <<size, nSwapFiles, ready, a, opts, step, frames, swapFiles, strays>>
  BY DEF Shift, memVars, TrailingZero
<1>2. SwapOK'
  BY <1>1, TrailingZeroOK DEF BootInv, LayoutOK
<1>3. opts.dos /\ ~ready
  BY <1>1 DEF BootInv, StepOK, Early
<1>4. LayoutOK'
  BY <1>1, <1>2, <1>3 DEF LayoutOK
<1>5. StepOK' /\ HandlesOK' /\ NoneReleased' /\ MemReleased'
  BY <1>1 DEF BootInv, StepOK, HandlesOK, NoneReleased, MemReleased
<1>. QED
  BY <1>4, <1>5 DEF BootInv

\* The handles before any file is opened
LEMMA ShiftDoneInv == ASSUME BootInv, ShiftDone PROVE BootInv'
<1>1. /\ step = "shift" /\ step' = "open" /\ n % 2 # 0 /\ swapFiles' = [i \in File |-> "none"]
      /\ UNCHANGED <<size, nSwapFiles, n, filePosMask, fileNoShift, ready, a, opts, frames, strays>>
  BY DEF ShiftDone, Goto, swapVars
<1>2. StepOK' /\ opts.dos
  BY <1>1 DEF BootInv, StepOK, Early, Late, Down
<1>3. HandlesOK'
  BY <1>1, <1>2 DEF BootInv, HandlesOK
<1>4. NoneReleased' /\ MemReleased'
  BY <1>1 DEF BootInv, NoneReleased, MemReleased, Down
<1>5. SwapOK'
  BY <1>1, SwapKept DEF BootInv, LayoutOK
<1>6. LayoutOK'
  BY <1>1, <1>2, <1>5 DEF LayoutOK
<1>. QED
  BY <1>2, <1>3, <1>4, <1>6 DEF BootInv

\* What the loop over the files does to the handles
OpensFiles ==
  /\ step \in {"open", "seek", "grow"} /\ step' \in {"open", "seek", "grow", "mem_destroy"}
  /\ \/ UNCHANGED swapFiles
     \/ \E h \in {"open", "none"} : swapFiles' = [swapFiles EXCEPT ![k] = h]
  /\ UNCHANGED <<size, nSwapFiles, n, filePosMask, fileNoShift, ready, a, opts, frames, strays>>

\* Such a step keeps the invariant.
LEMMA OpensFilesInv == ASSUME BootInv, OpensFiles PROVE BootInv'
<1>1. /\ step \in {"open", "seek", "grow"} /\ step' \in {"open", "seek", "grow", "mem_destroy"}
      /\ UNCHANGED <<size, nSwapFiles, n, filePosMask, fileNoShift, ready, a, opts, frames, strays>>
  BY DEF OpensFiles
<1>2. StepOK' /\ opts.dos /\ ~ready
  BY <1>1 DEF BootInv, StepOK, Early, Late, Down
<1>3. /\ swapFiles' \in [File -> {"zero", "none", "open", "closed"}]
      /\ \A i \in File : swapFiles'[i] \notin {"zero", "closed"}
  <2>1. /\ swapFiles \in [File -> {"zero", "none", "open", "closed"}]
        /\ \A i \in File : swapFiles[i] \notin {"zero", "closed"}
    BY <1>1, <1>2 DEF BootInv, HandlesOK, NoneReleased, Down
  <2>. QED
    BY <2>1 DEF OpensFiles
<1>4. HandlesOK'
  BY <1>1, <1>2, <1>3 DEF BootInv, HandlesOK
<1>5. NoneReleased' /\ MemReleased'
  BY <1>1, <1>3 DEF BootInv, NoneReleased, MemReleased, Down
<1>6. SwapOK'
  BY <1>1, SwapKept DEF BootInv, LayoutOK
<1>7. LayoutOK'
  BY <1>1, <1>2, <1>6 DEF BootInv, LayoutOK
<1>. QED
  BY <1>2, <1>4, <1>5, <1>7 DEF BootInv

\* A file is opened, positioned, grown and opened again.
LEMMA FileStepsInv == ASSUME BootInv, OpenFile \/ SeekEnd \/ GrowFile \/ ReopenFile PROVE BootInv'
<1>1. CASE OpenFile
  BY <1>1, OpensFilesInv DEF OpenFile, _dosFOpen, OpenFails, MemFails, Goto, swapVars, OpensFiles
<1>2. CASE SeekEnd
  BY <1>2, OpensFilesInv DEF SeekEnd, swapVars, OpensFiles
<1>3. CASE GrowFile
  BY <1>3, OpensFilesInv DEF GrowFile, MemFails, Goto, swapVars, OpensFiles
<1>4. CASE ReopenFile
  BY <1>4, OpensFilesInv DEF ReopenFile, _dosFOpen, OpenFails, MemFails, Goto, swapVars, OpensFiles
<1>. QED
  BY <1>1, <1>2, <1>3, <1>4

\* mem_init returns true.
LEMMA FilesDoneInv == ASSUME BootInv, FilesDone PROVE BootInv'
<1>1. /\ step = "open" /\ step' = "devices" /\ ready' = TRUE
      /\ UNCHANGED <<size, nSwapFiles, n, filePosMask, fileNoShift, a, opts, frames, swapFiles, strays>>
  BY DEF FilesDone, Goto, memVars
<1>2. StepOK' /\ opts.dos
  BY <1>1 DEF BootInv, StepOK, Early, Late, Down
<1>3. HandlesOK' /\ NoneReleased' /\ MemReleased'
  BY <1>1, <1>2 DEF BootInv, HandlesOK, NoneReleased, MemReleased, Down
<1>4. SwapOK'
  BY <1>1, SwapKept DEF BootInv, LayoutOK
<1>5. LayoutOK'
  BY <1>1, <1>2, <1>4 DEF BootInv, LayoutOK
<1>. QED
  BY <1>2, <1>3, <1>5 DEF BootInv

-----------------------------------------------------------------------------
\* What mem_destroy leaves of frames and handles
LEMMA DestroyHandles ==
  ASSUME BootInv, mem_destroy
  PROVE  /\ frames' \in [Frame -> {"null", "freed"}]
         /\ swapFiles' \in [File -> {"zero", "none", "closed"}]
         /\ ~opts.dos => \A i \in File : swapFiles'[i] = "zero"
         /\ opts.dos /\ ready => \A i \in File : swapFiles'[i] # "zero"
<1>1. /\ frames' = [f \in Frame |-> IF frames[f] = "live" THEN "freed" ELSE frames[f]]
      /\ swapFiles' = [i \in File |-> IF opts.dos /\ swapFiles[i] = "open" THEN "closed" ELSE swapFiles[i]]
  BY DEF mem_destroy
<1>2. HandlesOK /\ opts.dos \in BOOLEAN
  BY DEF BootInv, StepOK
<1>3. frames' \in [Frame -> {"null", "freed"}]
  BY <1>1, <1>2 DEF HandlesOK
<1>4. swapFiles' \in [File -> {"zero", "none", "closed"}]
  BY <1>1, <1>2 DEF HandlesOK
<1>. QED
  BY <1>1, <1>2, <1>3, <1>4 DEF HandlesOK

\* A mem_init that fails releases what it has.
LEMMA MemInitFailsInv == ASSUME BootInv, MemInitFails PROVE BootInv'
<1>1. /\ step = "mem_destroy" /\ step' = "destroy" /\ mem_destroy
      /\ UNCHANGED <<size, nSwapFiles, n, filePosMask, fileNoShift, ready, a, opts>>
  BY DEF MemInitFails, Goto, mem_destroy, swapVars
<1>2. StepOK' /\ opts.dos /\ ~ready /\ ~ready'
  BY <1>1 DEF BootInv, StepOK, Early, Late, Down
<1>3. HandlesOK'
  BY <1>1, <1>2, DestroyHandles DEF HandlesOK
<1>4. NoneReleased' /\ MemReleased'
  BY <1>1, <1>2 DEF NoneReleased, MemReleased, Down
<1>6. SwapOK'
  BY <1>1, SwapKept DEF BootInv, LayoutOK
<1>7. LayoutOK'
  BY <1>1, <1>2, <1>6 DEF LayoutOK
<1>. QED
  BY <1>2, <1>3, <1>4, <1>7 DEF BootInv

\* On the way out, too: nothing stays, and nothing is released twice if
\* mem_init returned true.
LEMMA VmDestroyInv == ASSUME BootInv, _vmDestroy PROVE BootInv'
<1>1. /\ step = "destroy" /\ step' = "exited" /\ mem_destroy /\ terminal' = "saved"
      /\ UNCHANGED <<size, nSwapFiles, n, filePosMask, fileNoShift, ready, a, opts>>
  BY DEF _vmDestroy, Goto, mem_destroy, swapVars
<1>2. StepOK'
  BY <1>1 DEF BootInv, StepOK, Early, Late, Down
<1>3. HandlesOK'
  BY <1>1, DestroyHandles DEF HandlesOK
<1>4. ready => strays' = {}
  <2>. SUFFICES ASSUME ready PROVE strays' = {}
    OBVIOUS
  <2>1. /\ strays = {} /\ (\A f \in Frame : frames[f] # "freed")
        /\ \A i \in File : swapFiles[i] # "closed"
    BY <1>1 DEF BootInv, NoneReleased
  <2>2. opts.dos => \A i \in File : swapFiles[i] # "zero"
    BY DEF BootInv, HandlesOK
  <2>3. {g \in Frame : frames[g] = "freed"} = {}
    BY <2>1
  <2>4. {j \in File : opts.dos /\ swapFiles[j] \in {"zero", "closed"}} = {}
    BY <2>1, <2>2
  <2>5. strays' = strays \cup {<<"free", f>> : f \in {}} \cup {<<"close", i>> : i \in {}}
    BY <1>1, <2>3, <2>4 DEF mem_destroy
  <2>. QED
    BY <2>1, <2>5
<1>5. MemReleased'
  BY <1>1, <1>4, DestroyHandles DEF MemReleased
<1>6. NoneReleased'
  BY <1>1 DEF NoneReleased, Down
<1>8. SwapOK'
  BY <1>1, SwapKept DEF BootInv, LayoutOK
<1>9. LayoutOK'
  BY <1>1, <1>8 DEF BootInv, LayoutOK
<1>. QED
  BY <1>2, <1>3, <1>5, <1>6, <1>9 DEF BootInv

\* The guest at work
LEMMA RunInv == ASSUME BootInv, Run PROVE BootInv'
<1>1. /\ step = "run" /\ opts.dos /\ Access
      /\ UNCHANGED <<n, fileNoShift, ready, opts, step, frames, swapFiles, strays>>
  BY DEF Run, memVars, Access
<1>2. SwapOK'
  BY <1>1, AccessOK DEF BootInv, LayoutOK
<1>3. StepOK' /\ HandlesOK' /\ NoneReleased' /\ MemReleased'
  BY <1>1 DEF BootInv, StepOK, HandlesOK, NoneReleased, MemReleased, Late, Down
<1>4. LayoutOK'
  BY <1>1, <1>2 DEF BootInv, LayoutOK
<1>. QED
  BY <1>3, <1>4 DEF BootInv

\* Every step of main keeps the invariant.
LEMMA BootStepInv == BootInv /\ [BootNext]_bootVars => BootInv'
<1>. SUFFICES ASSUME BootInv, [BootNext]_bootVars PROVE BootInv'
  OBVIOUS
<1>1. CASE \/ ui_init \/ _parseArgs \/ FramesDone \/ RegisterDevice \/ _buildDeviceTree \/ dt_initFails
           \/ TreeFails \/ WriteTree \/ NoImageFile \/ NoImageBuffer \/ BadHeader \/ OpenImage
           \/ LoadChunk \/ ImageTooLarge \/ StartHart
  BY <1>1, MovingSteps, MovesInv
<1>2. CASE InitFlat \/ AllocFrame
  BY <1>2, InitFlatInv, AllocFrameInv
<1>3. CASE Shift \/ ShiftDone
  BY <1>3, ShiftInv, ShiftDoneInv
<1>4. CASE OpenFile \/ SeekEnd \/ GrowFile \/ ReopenFile \/ FilesDone
  BY <1>4, FileStepsInv, FilesDoneInv
<1>5. CASE MemInitFails \/ _vmDestroy \/ Run
  BY <1>5, MemInitFailsInv, VmDestroyInv, RunInv
<1>6. CASE UNCHANGED bootVars
  <2>1. /\ UNCHANGED <<size, nSwapFiles, n, filePosMask, fileNoShift, ready, a, opts, step>>
        /\ UNCHANGED <<frames, swapFiles, strays, terminal>>
    BY <1>6 DEF bootVars, swapVars, memVars, vmVars
  <2>2. SwapOK'
    BY <2>1, SwapKept DEF BootInv, LayoutOK
  <2>. QED
    BY <2>1, <2>2 DEF BootInv, StepOK, HandlesOK, NoneReleased, MemReleased, LayoutOK
<1>. QED
  BY <1>1, <1>2, <1>3, <1>4, <1>5, <1>6 DEF BootNext

-----------------------------------------------------------------------------
\* For every size of RAM: shift and mask give no two pages the same place.
THEOREM SwapPagesApart == BootSpec => []PagesApart
<1>1. BootInv => PagesApart
  BY PagesApartHolds DEF BootInv, LayoutOK
<1>. QED
  BY <1>1, BootInitInv, BootStepInv, PTL DEF BootSpec

\* For every size of RAM that is a power of two: each page lies in a file that is
\* open, and within it.  (For other sizes it need not: 24 MB in one file.)
THEOREM SwapPagesInside == Sizes \subseteq PowersOfTwo => (BootSpec => []PageInSwap)
<1>. SUFFICES ASSUME Sizes \subseteq PowersOfTwo PROVE BootSpec => []PageInSwap
  OBVIOUS
<1>1. BootInv => PageInSwap
  <2>1. BootInv => SwapOK /\ LayoutDone
    BY DEF BootInv, StepOK, LayoutOK, LayoutDone
  <2>. QED
    BY <2>1, PageInSwapHolds
<1>. QED
  BY <1>1, BootInitInv, BootStepInv, PTL DEF BootSpec

-----------------------------------------------------------------------------
\* File i as it should be when mem_init is through with it
FileDone(i) ==
  /\ swapFiles[i] = "open"
  /\ disk[i].size >= nFileSize \/ Missed(i, {"tell", "reopen"})

\* Where the file of the loop's turn stands: at its end unless the seek failed
PosOK ==
  /\ swapPos = -1 => <<k, "tell">> \in missed
  /\ swapPos # -1 => /\ swapPos \in Nat /\ swapPos <= disk[k].size
                     /\ swapPos < disk[k].size => <<k, "seek">> \in missed

LoopOK ==
  /\ step \in {"open", "seek", "grow"} =>
       k \in 0 .. nSwapFiles /\ \A i \in 0 .. k - 1 : FileDone(i)
  /\ step \in {"seek", "grow"} => k < nSwapFiles /\ swapFiles[k] = "open"
  /\ step = "grow" => PosOK

AllDone == (ready /\ opts.dos /\ step # "exited") => \A i \in 0 .. nSwapFiles - 1 : FileDone(i)

LostOK ==
  \A i \in File : disk[i].lost # {} => \/ Missed(i, {"open", "seek", "reopen"})
                                       \/ step \in Down /\ i = 0 /\ ~ready /\ disk[i].lost = {0}

DiskType == disk \in [File -> [size : Nat, lost : SUBSET Nat]]

FilesInv == DiskType /\ LoopOK /\ AllDone /\ LostOK

\* The files are as an earlier run left them.
LEMMA FilesInitInv == BootInit => FilesInv
<1>. SUFFICES ASSUME BootInit PROVE FilesInv
  OBVIOUS
<1>1. step = "start" /\ ready = FALSE
  BY DEF BootInit, SwapInit
<1>2. PICK old \in OldSizes : disk = [i \in File |-> [size |-> old, lost |-> {}]]
  BY DEF BootInit
<1>3. old \in Nat
  BY <1>2, BootAssumption
<1>4. DiskType /\ LostOK
  BY <1>2, <1>3 DEF DiskType, LostOK
<1>. QED
  BY <1>1, <1>4 DEF FilesInv, LoopOK, AllDone

\* The steps outside the loop over the files
LEMMA FilesAway ==
  ASSUME FilesInv, nSwapFiles \in Nat, UNCHANGED <<size, nSwapFiles, opts, ready, disk, missed>>,
         step \notin Down,
         step' \notin {"seek", "grow", "exited"}, step' = "open" => k' = 0,
         ready => UNCHANGED swapFiles
  PROVE  FilesInv'
<1>1. nFileSize' = nFileSize
  BY DEF nFileSize, ALIGN_UP
<1>2. DiskType' /\ LostOK'
  BY DEF FilesInv, DiskType, LostOK, Missed
<1>3. LoopOK'
  <2>1. step' \notin {"seek", "grow"}
    OBVIOUS
  <2>2. step' = "open" => k' = 0 /\ 0 \in 0 .. nSwapFiles'
    OBVIOUS
  <2>. QED
    BY <2>1, <2>2 DEF LoopOK
<1>4. AllDone'
  <2>. SUFFICES ASSUME ready', opts'.dos, NEW i \in 0 .. nSwapFiles' - 1 PROVE FileDone(i)'
    BY DEF AllDone
  <2>1. FileDone(i) /\ UNCHANGED swapFiles
    BY DEF FilesInv, AllDone, Down
  <2>. QED
    BY <1>1, <2>1 DEF FileDone, Missed
<1>. QED
  BY <1>2, <1>3, <1>4 DEF FilesInv

\* The ranges that the loop over the files relies on
LEMMA FileFacts ==
  ASSUME BootInv
  PROVE  nFileSize \in Nat /\ nSwapFiles \in 1 .. 8 /\ File = 0 .. 7 /\ MEM_PAGE_SIZE \in Nat \ {0}
<1>1. nFileSize \in Nat /\ nSwapFiles \in {1, 2, 4, MAX_SWAP_FILES}
  BY FileSizes DEF BootInv, LayoutOK, SwapOK
<1>. HIDE DEF nFileSize
<1>. QED
  BY <1>1, SwapAssumption DEF MAX_SWAP_FILES, File

\* A failed call of file i explains what it has lost.
LostCall(m, i) == \E c \in {"open", "seek", "reopen"} : <<i, c>> \in m

FileRecord == [size : Nat, lost : SUBSET Nat]

\* A step of the turn of file k leaves the other files alone.
LEMMA TurnKept ==
  ASSUME BootInv, FilesInv, step \in {"open", "seek", "grow"}, k \in 0 .. nSwapFiles - 1,
         UNCHANGED <<size, nSwapFiles, ready>>, missed \subseteq missed',
         NEW d \in FileRecord, disk' = [disk EXCEPT ![k] = d],
         NEW h, swapFiles' = [swapFiles EXCEPT ![k] = h],
         d.lost # {} => LostCall(missed', k)
  PROVE  /\ DiskType' /\ LostOK' /\ AllDone' /\ \A i \in 0 .. k - 1 : FileDone(i)'
         /\ disk'[k] = d /\ swapFiles'[k] = h /\ nFileSize' = nFileSize
<1>1. /\ nSwapFiles \in 1 .. 8 /\ File = 0 .. 7 /\ k \in File
      /\ disk \in [File -> FileRecord] /\ DOMAIN swapFiles = File /\ ~ready
  BY FileFacts DEF FilesInv, DiskType, FileRecord, BootInv, HandlesOK, StepOK, Early
<1>2. nFileSize' = nFileSize
  BY DEF nFileSize, ALIGN_UP
<1>3. disk' \in [File -> FileRecord] /\ disk'[k] = d /\ swapFiles'[k] = h
  BY <1>1
<1>4. \A i \in File : i # k => disk'[i] = disk[i] /\ swapFiles'[i] = swapFiles[i]
  BY <1>1
<1>5. LostOK'
  <2>. SUFFICES ASSUME NEW i \in File, disk'[i].lost # {} PROVE Missed(i, {"open", "seek", "reopen"})'
    BY DEF LostOK
  <2>1. CASE i = k
    BY <1>3, <2>1 DEF LostCall, Missed
  <2>2. CASE i # k
    <3>1. Missed(i, {"open", "seek", "reopen"})
      BY <1>4, <2>2 DEF FilesInv, LostOK, Down
    <3>. QED
      BY <3>1 DEF Missed
  <2>. QED
    BY <2>1, <2>2
<1>6. ASSUME NEW i \in 0 .. k - 1 PROVE FileDone(i)'
  <2>1. i \in File /\ i # k
    BY <1>1
  <2>2. FileDone(i) /\ disk'[i] = disk[i] /\ swapFiles'[i] = swapFiles[i]
    BY <1>4, <2>1 DEF FilesInv, LoopOK
  <2>. QED
    BY <1>2, <2>2 DEF FileDone, Missed
<1>7. AllDone'
  BY <1>1 DEF AllDone
<1>. QED
  BY <1>2, <1>3, <1>5, <1>6, <1>7 DEF DiskType, FileRecord

\* What is in file k in its turn
LEMMA TurnFile ==
  ASSUME BootInv, FilesInv, step \in {"open", "seek", "grow"}, k \in 0 .. nSwapFiles - 1
  PROVE  /\ disk[k] \in FileRecord /\ disk = [disk EXCEPT ![k] = disk[k]]
         /\ disk[k].lost # {} => LostCall(missed, k)
         /\ swapFiles = [swapFiles EXCEPT ![k] = swapFiles[k]]
         /\ disk[k].size \in Nat
<1>1. /\ k \in File /\ disk \in [File -> FileRecord]
      /\ swapFiles \in [File -> {"zero", "none", "open", "closed"}]
  BY FileFacts DEF FilesInv, DiskType, FileRecord, BootInv, HandlesOK
<1>2. disk[k].lost # {} => LostCall(missed, k)
  BY <1>1 DEF FilesInv, LostOK, Down, LostCall, Missed
<1>3. disk[k] \in FileRecord /\ disk = [disk EXCEPT ![k] = disk[k]]
  BY <1>1
<1>4. swapFiles = [swapFiles EXCEPT ![k] = swapFiles[k]]
  BY <1>1
<1>5. disk[k].size \in Nat
  BY <1>3 DEF FileRecord
<1>. QED
  BY <1>2, <1>3, <1>4, <1>5

\* After _dosFOpen in the turn of file k: the file is as it was, or empty
LEMMA OpenedFile ==
  ASSUME BootInv, FilesInv, step \in {"open", "seek", "grow"}, k \in 0 .. nSwapFiles - 1,
         UNCHANGED <<size, nSwapFiles, ready>>, NEW call \in {"open", "reopen"}, _dosFOpen(call)
  PROVE  /\ DiskType' /\ LostOK' /\ AllDone' /\ \A i \in 0 .. k - 1 : FileDone(i)'
         /\ swapFiles'[k] = "open" /\ nFileSize' = nFileSize /\ missed \subseteq missed'
         /\ disk'[k].size = disk[k].size \/ <<k, call>> \in missed'
<1>1. swapFiles' = [swapFiles EXCEPT ![k] = "open"]
  BY DEF _dosFOpen
<1>2. CASE UNCHANGED <<disk, missed>>
  <2>1. disk[k].lost # {} => LostCall(missed', k)
    BY <1>2, TurnFile
  <2>2. disk[k] \in FileRecord /\ disk' = [disk EXCEPT ![k] = disk[k]] /\ missed \subseteq missed'
    BY <1>2, TurnFile
  <2>. QED
    BY <1>1, <1>2, <2>1, <2>2, TurnKept
<1>3. CASE /\ disk[k].size > 0 /\ Miss({call})
           /\ disk' = [disk EXCEPT ![k] =
                 [size |-> 0, lost |-> @.lost \cup {p \in 0 .. @.size - 1 : p % MEM_PAGE_SIZE = 0}]]
  <2>. DEFINE w == disk[k].lost \cup {p \in 0 .. disk[k].size - 1 : p % MEM_PAGE_SIZE = 0}
              d == [size |-> 0, lost |-> w]
  <2>1. disk[k] \in FileRecord /\ disk[k].size \in Nat
    BY TurnFile
  <2>2. disk[k].lost \in SUBSET Nat
    BY <2>1 DEF FileRecord
  <2>3. w \in SUBSET Nat
    BY <2>1, <2>2
  <2>4. k \in DOMAIN disk
    BY FileFacts DEF FilesInv, DiskType
  <2>5. disk' = [disk EXCEPT ![k] = d]
    BY <1>3, <2>4
  <2>. HIDE DEF w
  <2>6. d \in FileRecord
    BY <2>3 DEF FileRecord
  <2>7. missed \subseteq missed' /\ <<k, call>> \in missed'
    BY <1>3 DEF Miss
  <2>8. LostCall(missed', k)
    BY <2>7 DEF LostCall
  <2>. HIDE DEF d
  <2>. QED
    BY <1>1, <2>5, <2>6, <2>7, <2>8, TurnKept
<1>. QED
  BY <1>2, <1>3 DEF _dosFOpen

\* A file that cannot be opened ends mem_init.
LEMMA OpenFailsFiles ==
  ASSUME BootInv, FilesInv, step \in {"open", "grow"}, k \in 0 .. nSwapFiles - 1, NEW from,
         UNCHANGED <<size, nSwapFiles, ready>>, OpenFails(from)
  PROVE  FilesInv'
<1>1. /\ swapFiles' = [swapFiles EXCEPT ![k] = "none"] /\ step' = "mem_destroy" /\ UNCHANGED <<disk, missed>>
  BY DEF OpenFails, MemFails, Goto
<1>2. /\ disk[k].lost # {} => LostCall(missed', k)
      /\ disk[k] \in FileRecord /\ disk' = [disk EXCEPT ![k] = disk[k]] /\ missed \subseteq missed'
  BY <1>1, TurnFile
<1>3. DiskType' /\ LostOK' /\ AllDone'
  BY <1>1, <1>2, TurnKept
<1>. QED
  BY <1>1, <1>3 DEF FilesInv, LoopOK

\* Opening a file
LEMMA OpenFileFiles == ASSUME BootInv, FilesInv, OpenFile PROVE FilesInv'
<1>1. /\ step = "open" /\ k \in 0 .. nSwapFiles - 1 /\ nSwapFiles \in 1 .. 8
      /\ UNCHANGED <<size, nSwapFiles, ready>>
  BY FileFacts DEF OpenFile, FilesInv, LoopOK, swapVars
<1>2. CASE _dosFOpen("open") /\ step' = "seek" /\ UNCHANGED k
  <2>1. /\ DiskType' /\ LostOK' /\ AllDone' /\ \A i \in 0 .. k - 1 : FileDone(i)'
        /\ swapFiles'[k] = "open"
    BY <1>1, <1>2, OpenedFile
  <2>2. LoopOK'
    BY <1>1, <1>2, <2>1 DEF LoopOK
  <2>. QED
    BY <2>1, <2>2 DEF FilesInv
<1>3. CASE OpenFails("open")
  BY <1>1, <1>3, OpenFailsFiles
<1>. QED
  BY <1>2, <1>3 DEF OpenFile

\* Its end is looked for.
LEMMA SeekEndFiles == ASSUME BootInv, FilesInv, SeekEnd PROVE FilesInv'
<1>1. /\ step = "seek" /\ step' = "grow" /\ k \in 0 .. nSwapFiles - 1 /\ nSwapFiles \in 1 .. 8
      /\ swapFiles[k] = "open" /\ UNCHANGED <<size, nSwapFiles, ready, k, swapFiles, disk>>
  BY FileFacts DEF SeekEnd, FilesInv, LoopOK, swapVars
<1>2. PICK calls \in SUBSET {"seek", "tell"} :
        /\ Miss(calls)
        /\ swapPos' = IF "tell" \in calls THEN -1 ELSE IF "seek" \in calls THEN 0 ELSE disk[k].size
  BY DEF SeekEnd
<1>3. missed \subseteq missed' /\ \A c \in calls : <<k, c>> \in missed'
  BY <1>2 DEF Miss
<1>4. /\ disk[k] \in FileRecord /\ disk' = [disk EXCEPT ![k] = disk[k]] /\ disk[k].size \in Nat
      /\ disk[k].lost # {} => LostCall(missed', k)
      /\ swapFiles' = [swapFiles EXCEPT ![k] = swapFiles[k]]
  BY <1>1, <1>3, TurnFile DEF LostCall
<1>5. DiskType' /\ LostOK' /\ AllDone' /\ \A i \in 0 .. k - 1 : FileDone(i)'
  BY <1>1, <1>3, <1>4, TurnKept
<1>6. PosOK'
  BY <1>1, <1>2, <1>3, <1>4 DEF PosOK
<1>7. LoopOK'
  BY <1>1, <1>5, <1>6 DEF LoopOK
<1>. QED
  BY <1>5, <1>7 DEF FilesInv

\* A page is written where the file stands.
LEMMA GrowFileFiles == ASSUME BootInv, FilesInv, GrowFile PROVE FilesInv'
<1>1. /\ step = "grow" /\ k \in 0 .. nSwapFiles - 1 /\ nSwapFiles \in 1 .. 8 /\ MEM_PAGE_SIZE \in Nat \ {0}
      /\ swapFiles[k] = "open" /\ PosOK /\ Short
      /\ UNCHANGED <<size, nSwapFiles, ready, swapFiles, missed>>
  BY FileFacts DEF GrowFile, FilesInv, LoopOK, swapVars
<1>2. /\ swapPos \in Nat /\ swapPos <= disk[k].size
      /\ swapPos < disk[k].size => <<k, "seek">> \in missed
  BY <1>1 DEF Short, PosOK
<1>3. PICK bytes \in 0 .. MEM_PAGE_SIZE :
        /\ disk' = [disk EXCEPT ![k] = Written(@, swapPos, bytes)]
        /\ \/ bytes = MEM_PAGE_SIZE /\ swapPos' = swapPos + MEM_PAGE_SIZE /\ UNCHANGED <<step, k>>
           \/ bytes < MEM_PAGE_SIZE /\ swapPos' = 0 /\ MemFails("grow")
  BY DEF GrowFile
<1>. DEFINE d == Written(disk[k], swapPos, bytes)
<1>4. /\ disk[k] \in FileRecord /\ disk[k].size \in Nat /\ k \in DOMAIN disk
      /\ disk[k].lost # {} => LostCall(missed', k)
      /\ swapFiles' = [swapFiles EXCEPT ![k] = swapFiles[k]]
  BY <1>1, TurnFile, FileFacts DEF FilesInv, DiskType
<1>5. disk' = [disk EXCEPT ![k] = d]
  BY <1>3, <1>4
<1>6. /\ d.size = (IF swapPos + bytes > disk[k].size THEN swapPos + bytes ELSE disk[k].size)
      /\ d.lost = (IF bytes > 0 /\ swapPos < disk[k].size THEN disk[k].lost \cup {swapPos} ELSE disk[k].lost)
      /\ d = [size |-> d.size, lost |-> d.lost]
  BY DEF Written
<1>. HIDE DEF d
<1>7. d.size \in Nat /\ d.size >= swapPos + bytes /\ (disk[k].size = swapPos => d.size = swapPos + bytes)
  BY <1>2, <1>3, <1>4, <1>6
<1>8. d \in FileRecord
  <2>1. disk[k].lost \in SUBSET Nat
    BY <1>4 DEF FileRecord
  <2>2. d.lost \in SUBSET Nat
    BY <1>2, <1>6, <2>1
  <2>. QED
    BY <1>6, <1>7, <2>2 DEF FileRecord
<1>9. d.lost # {} => LostCall(missed', k)
  BY <1>1, <1>2, <1>4, <1>6 DEF LostCall
<1>10. /\ DiskType' /\ LostOK' /\ AllDone' /\ \A i \in 0 .. k - 1 : FileDone(i)'
       /\ disk'[k] = d
  BY <1>1, <1>4, <1>5, <1>8, <1>9, TurnKept
<1>11. CASE bytes = MEM_PAGE_SIZE /\ swapPos' = swapPos + MEM_PAGE_SIZE /\ UNCHANGED <<step, k>>
  <2>1. swapPos' \in Nat /\ swapPos' <= d.size
    BY <1>1, <1>2, <1>7, <1>11
  <2>2. swapPos' < d.size => <<k, "seek">> \in missed
    BY <1>1, <1>2, <1>4, <1>7, <1>11
  <2>3. swapPos' # -1
    BY <2>1
  <2>4. PosOK'
    BY <1>1, <1>10, <1>11, <2>1, <2>2, <2>3 DEF PosOK
  <2>5. LoopOK'
    BY <1>1, <1>10, <1>11, <2>4 DEF LoopOK
  <2>. QED
    BY <1>10, <2>5 DEF FilesInv
<1>12. CASE MemFails("grow")
  BY <1>10, <1>12 DEF FilesInv, LoopOK, MemFails, Goto
<1>. QED
  BY <1>3, <1>11, <1>12

\* The file is done: it has grown to its size.
LEMMA ReopenFileFiles == ASSUME BootInv, FilesInv, ReopenFile PROVE FilesInv'
<1>1. /\ step = "grow" /\ k \in 0 .. nSwapFiles - 1 /\ nSwapFiles \in 1 .. 8 /\ nFileSize \in Nat
      /\ PosOK /\ ~Short /\ UNCHANGED <<size, nSwapFiles, ready>>
  BY FileFacts DEF ReopenFile, FilesInv, LoopOK, swapVars
<1>2. CASE _dosFOpen("reopen") /\ step' = "open" /\ k' = k + 1
  <2>1. /\ DiskType' /\ LostOK' /\ AllDone' /\ \A i \in 0 .. k - 1 : FileDone(i)'
        /\ swapFiles'[k] = "open" /\ nFileSize' = nFileSize /\ missed \subseteq missed'
        /\ disk'[k].size = disk[k].size \/ <<k, "reopen">> \in missed'
    BY <1>1, <1>2, OpenedFile
  <2>2. disk[k].size >= nFileSize \/ <<k, "tell">> \in missed
    <3>1. disk[k].size \in Nat
      BY <1>1, TurnFile
    <3>. HIDE DEF nFileSize
    <3>. QED
      BY <1>1, <3>1 DEF PosOK, Short
  <2>3. \A i \in {k} : FileDone(i)'
    BY <2>1, <2>2 DEF FileDone, Missed
  <2>4. ASSUME NEW i \in 0 .. k' - 1 PROVE FileDone(i)'
    <3>1. i = k \/ i \in 0 .. k - 1
      BY <1>1, <1>2
    <3>. QED
      BY <2>1, <2>3, <3>1
  <2>5. LoopOK'
    BY <1>1, <1>2, <2>4 DEF LoopOK
  <2>. QED
    BY <2>1, <2>5 DEF FilesInv
<1>3. CASE OpenFails("grow")
  BY <1>1, <1>3, OpenFailsFiles
<1>. QED
  BY <1>2, <1>3 DEF ReopenFile

\* mem_init returns true after the last file.
LEMMA FilesDoneFiles == ASSUME BootInv, FilesInv, FilesDone PROVE FilesInv'
<1>1. /\ step = "open" /\ step' = "devices" /\ k = nSwapFiles
      /\ UNCHANGED <<size, nSwapFiles, opts, swapFiles, disk, missed>>
  BY DEF FilesDone, Goto, memVars, fileVars
<1>2. nFileSize' = nFileSize
  BY <1>1 DEF nFileSize, ALIGN_UP
<1>3. DiskType' /\ LoopOK' /\ LostOK'
  BY <1>1 DEF FilesInv, DiskType, LoopOK, LostOK, Missed, Down
<1>4. ASSUME NEW i \in 0 .. nSwapFiles - 1 PROVE FileDone(i)'
  <2>1. FileDone(i)
    BY <1>1 DEF FilesInv, LoopOK
  <2>. QED
    BY <1>1, <1>2, <2>1 DEF FileDone, Missed
<1>5. AllDone'
  BY <1>1, <1>4 DEF AllDone
<1>. QED
  BY <1>3, <1>5 DEF FilesInv

\* Before anything is loaded, each frame's page is the first page of the first file.
LEMMA FirstPage == ASSUME SwapOK PROVE _lookupSwapFile(0) = 0 /\ FilePos(0) = 0
<1>. DEFINE B == 2 ^ fileNoShift
<1>1. B \in Nat \ {0} /\ filePosMask + 1 = B
  BY PowerOfTwo DEF SwapOK
<1>. HIDE DEF B
<1>2. 0 \div B = 0 /\ 0 % B = 0
  BY <1>1
<1>. QED
  BY <1>1, <1>2 DEF _lookupSwapFile, FilePos, B

\* What mem_destroy does to the files, called by mem_init or on the way out
LEMMA DestroyFiles ==
  ASSUME BootInv, FilesInv, mem_destroy, step' \in Down, ready => step' = "exited"
  PROVE  FilesInv'
<1>1. UNCHANGED <<ready, missed>>
  BY DEF mem_destroy, swapVars
<1>2. LoopOK' /\ AllDone'
  BY <1>1 DEF LoopOK, AllDone, Down
<1>3. PICK bytes \in 0 .. MEM_PAGE_SIZE :
        disk' = IF StoresZeroes
                THEN [disk EXCEPT ![_lookupSwapFile(0)] = Written(@, FilePos(0), bytes)] ELSE disk
  BY DEF mem_destroy
<1>4. CASE ~StoresZeroes
  <2>1. disk' = disk
    BY <1>3, <1>4
  <2>2. DiskType' /\ LostOK'
    BY <1>1, <2>1 DEF FilesInv, DiskType, LostOK, Missed
  <2>. QED
    BY <1>2, <2>2 DEF FilesInv
<1>5. CASE StoresZeroes
  <2>. DEFINE d == Written(disk[0], 0, bytes)
  <2>1. /\ 0 \in File /\ disk \in [File -> FileRecord] /\ disk[0] \in FileRecord /\ ~ready
        /\ MEM_PAGE_SIZE \in Nat
    BY <1>5, FileFacts DEF FilesInv, DiskType, FileRecord, StoresZeroes
  <2>2. disk' = [disk EXCEPT ![0] = d]
    BY <1>3, <1>5, <2>1, FirstPage DEF BootInv, LayoutOK
  <2>3. /\ d.size = (IF 0 + bytes > disk[0].size THEN 0 + bytes ELSE disk[0].size)
        /\ d.lost = (IF bytes > 0 /\ 0 < disk[0].size THEN disk[0].lost \cup {0} ELSE disk[0].lost)
        /\ d = [size |-> d.size, lost |-> d.lost]
    BY DEF Written
  <2>. HIDE DEF d
  <2>4. d \in FileRecord
    <3>1. disk[0].lost \in SUBSET Nat /\ disk[0].size \in Nat
      BY <2>1 DEF FileRecord
    <3>2. d.size \in Nat /\ d.lost \in SUBSET Nat
      BY <2>1, <2>3, <3>1
    <3>. QED
      BY <2>3, <3>2 DEF FileRecord
  <2>5. DiskType'
    BY <2>1, <2>2, <2>4 DEF DiskType, FileRecord
  <2>6. \A i \in File : disk'[i] = IF i = 0 THEN d ELSE disk[i]
    BY <2>1, <2>2
  <2>7. LostOK'
    <3>. SUFFICES ASSUME NEW i \in File, disk'[i].lost # {}
                  PROVE  \/ Missed(i, {"open", "seek", "reopen"})'
                         \/ i = 0 /\ ~ready' /\ disk'[i].lost = {0}
      BY DEF LostOK
    <3>1. CASE i = 0
      <4>1. d.lost = disk[0].lost \/ d.lost = disk[0].lost \cup {0}
        BY <2>3
      <4>2. disk[0].lost = {} \/ disk[0].lost = {0} \/ Missed(0, {"open", "seek", "reopen"})
        BY <2>1 DEF FilesInv, LostOK
      <4>3. disk'[0] = d /\ d.lost # {}
        BY <2>1, <2>6, <3>1
      <4>4. d.lost = {0} \/ Missed(0, {"open", "seek", "reopen"})
        BY <4>1, <4>2, <4>3
      <4>. QED
        BY <1>1, <2>1, <3>1, <4>3, <4>4 DEF Missed
    <3>2. CASE i # 0
      BY <1>1, <2>6, <3>2 DEF FilesInv, LostOK, Missed
    <3>. QED
      BY <3>1, <3>2
  <2>. QED
    BY <1>2, <2>5, <2>7 DEF FilesInv
<1>. QED
  BY <1>4, <1>5

\* Every step of main keeps what is known of the swap files.
LEMMA FilesStepInv == BootInv /\ FilesInv /\ [BootNext]_bootVars => FilesInv'
<1>. SUFFICES ASSUME BootInv, FilesInv, [BootNext]_bootVars PROVE FilesInv'
  OBVIOUS
<1>0. step \in Early \cup Late \cup Down /\ nSwapFiles \in Nat
  BY FileFacts DEF BootInv, StepOK
<1>1. CASE \/ ui_init \/ _parseArgs \/ FramesDone \/ RegisterDevice \/ _buildDeviceTree \/ dt_initFails
           \/ TreeFails \/ WriteTree \/ NoImageFile \/ NoImageBuffer \/ BadHeader \/ OpenImage
           \/ LoadChunk \/ ImageTooLarge \/ StartHart
  <2>1. Moves
    BY <1>1, MovingSteps
  <2>2. /\ UNCHANGED <<size, nSwapFiles, opts, ready, swapFiles, disk, missed>>
        /\ step \notin Down /\ step' \notin {"open", "seek", "grow", "exited"}
    BY <2>1 DEF Moves, swapVars, memVars, fileVars, Late, Down
  <2>. QED
    BY <1>0, <2>2, FilesAway
<1>2. CASE AllocFrame \/ Shift \/ ShiftDone
  <2>1. /\ UNCHANGED <<size, nSwapFiles, opts, ready, disk, missed>> /\ step \in {"frames", "shift"}
        /\ step' \notin {"seek", "grow", "exited"} /\ (step' = "open" => k' = 0)
    BY <1>2 DEF AllocFrame, Shift, ShiftDone, TrailingZero, MemFails, Goto, swapVars, memVars, fileVars
  <2>2. ~ready /\ step \notin Down
    BY <2>1 DEF BootInv, StepOK, Early, Down
  <2>. QED
    BY <1>0, <2>1, <2>2, FilesAway
<1>3. CASE InitFlat
  <2>1. /\ UNCHANGED <<size, nSwapFiles, opts, swapFiles, disk, missed>> /\ step = "data"
        /\ step' \in {"devices", "destroy"}
    BY <1>3 DEF InitFlat, Goto, Fails, fileVars
  <2>2. ~opts.dos /\ ~ready
    BY <2>1 DEF BootInv, StepOK, Early
  <2>3. AllDone' /\ LoopOK'
    BY <2>1, <2>2 DEF AllDone, LoopOK
  <2>4. DiskType' /\ LostOK'
    BY <2>1 DEF FilesInv, DiskType, LostOK, Missed, Down
  <2>. QED
    BY <2>3, <2>4 DEF FilesInv
<1>4. CASE OpenFile \/ SeekEnd \/ GrowFile \/ ReopenFile \/ FilesDone
  BY <1>4, OpenFileFiles, SeekEndFiles, GrowFileFiles, ReopenFileFiles, FilesDoneFiles
<1>5. CASE MemInitFails
  <2>1. mem_destroy /\ step' \in Down /\ ~ready
    BY <1>5 DEF MemInitFails, Goto, Down, BootInv, StepOK, Early
  <2>. QED
    BY <2>1, DestroyFiles
<1>6. CASE _vmDestroy
  <2>1. mem_destroy /\ step' \in Down /\ step' = "exited"
    BY <1>6 DEF _vmDestroy, Goto, Down
  <2>. QED
    BY <2>1, DestroyFiles
<1>7. CASE Run
  <2>1. /\ UNCHANGED <<size, nSwapFiles, opts, ready, swapFiles, disk, missed>>
        /\ step = "run" /\ step' = "run"
    BY <1>7 DEF Run, Access, memVars, fileVars
  <2>2. step \notin Down
    BY <2>1 DEF Down
  <2>. QED
    BY <1>0, <2>1, <2>2, FilesAway
<1>8. CASE UNCHANGED bootVars
  <2>1. UNCHANGED <<size, nSwapFiles, opts, step, k, ready, swapFiles, disk, swapPos, missed>>
    BY <1>8 DEF bootVars, swapVars, memVars, fileVars
  <2>2. nFileSize' = nFileSize
    BY <2>1 DEF nFileSize, ALIGN_UP
  <2>3. \A i : FileDone(i)' = FileDone(i)
    BY <2>1, <2>2 DEF FileDone, Missed
  <2>4. DiskType' /\ LostOK' /\ LoopOK' /\ AllDone'
    BY <2>1, <2>3 DEF FilesInv, DiskType, LostOK, Missed, LoopOK, PosOK, AllDone
  <2>. QED
    BY <2>4 DEF FilesInv
<1>. QED
  BY <1>1, <1>2, <1>3, <1>4, <1>5, <1>6, <1>7, <1>8 DEF BootNext

-----------------------------------------------------------------------------
\* What _buildDeviceTree and the loaders hold, step by step
HeldInv ==
  /\ step \in Early \cup {"devices"} => held = {} /\ dt = EmptyTree
  /\ step = "tree" => held = {"tree buffer"}
  /\ step = "image" => held = {} /\ dtb = "whole"
  /\ step = "load" => held = {"image file", "image buffer"}
  /\ step \in {"reset", "run"} => held = {}
  /\ step \in Down => held = {} \/ Leak

\* main holds nothing when it is entered.
LEMMA HeldInitInv == BootInit => HeldInv
BY DEF BootInit, HeldInv, Early, Down

\* Every step of main keeps account of what is held.
LEMMA HeldStepInv == BootInv /\ HeldInv /\ [BootNext]_bootVars => HeldInv'
<1>. SUFFICES ASSUME BootInv, HeldInv, [BootNext]_bootVars PROVE HeldInv'
  OBVIOUS
<1>1. CASE ui_init \/ _parseArgs \/ InitFlat \/ AllocFrame \/ FramesDone \/ Shift \/ ShiftDone \/ MemInitFails
  <2>1. UNCHANGED <<held, dt>> /\ step \in Early /\ step' \in Early \cup {"devices", "destroy"}
    BY <1>1 DEF ui_init, _parseArgs, InitFlat, AllocFrame, FramesDone, Shift, ShiftDone, MemInitFails,
                Fails, MemFails, Goto, vmVars, Early
  <2>. QED
    BY <2>1 DEF HeldInv, Early, Down
<1>2. CASE OpenFile \/ SeekEnd \/ GrowFile \/ ReopenFile \/ FilesDone
  <2>1. UNCHANGED <<held, dt>> /\ step \in Early /\ step' \in Early \cup {"devices"}
    BY <1>2 DEF OpenFile, SeekEnd, GrowFile, ReopenFile, FilesDone, OpenFails, MemFails, Goto, vmVars, Early
  <2>. QED
    BY <2>1 DEF HeldInv, Early, Down
<1>3. CASE RegisterDevice
  BY <1>3 DEF RegisterDevice, HeldInv, Early, Down
<1>4. CASE _buildDeviceTree
  <2>1. \/ step = "devices" /\ step' = "tree" /\ held' = held \cup {"tree buffer"}
        \/ step = "tree" /\ step' = "tree" /\ UNCHANGED held
    BY <1>4 DEF _buildDeviceTree, Goto
  <2>. QED
    BY <2>1 DEF HeldInv, Early, Down
<1>5. CASE dt_initFails
  <2>1. /\ step = "devices" /\ step' = "destroy" /\ UNCHANGED dt
        /\ held' = held \/ held' = held \cup {"tree buffer"}
    BY <1>5 DEF dt_initFails, Fails, Goto
  <2>2. held' = {} \/ held' = {"tree buffer"}
    BY <2>1 DEF HeldInv
  <2>3. held' = {} \/ Leak'
    BY <2>1, <2>2 DEF HeldInv, Leak
  <2>. QED
    BY <2>1, <2>3 DEF HeldInv, Early, Down
<1>6. CASE TreeFails \/ WriteTree
  <2>1. /\ step = "tree" /\ held' = held \ {"tree buffer"}
        /\ step' = "destroy" \/ (step' = "image" /\ dtb' = "whole")
    BY <1>6 DEF TreeFails, WriteTree, Fails, Goto
  <2>2. held' = {}
    BY <2>1 DEF HeldInv
  <2>. QED
    BY <2>1, <2>2 DEF HeldInv, Early, Down
<1>7. CASE NoImageFile \/ NoImageBuffer \/ BadHeader
  <2>1. /\ step = "image" /\ step' = "destroy" /\ UNCHANGED <<dtb, opts>>
        /\ \/ held' = held \/ held' = held \cup {"image file"}
           \/ held' = held \cup {"image buffer"} /\ opts.kernel
    BY <1>7 DEF NoImageFile, NoImageBuffer, BadHeader, Fails, Goto, vmVars
  <2>2. held = {} /\ dtb = "whole"
    BY <2>1 DEF HeldInv
  <2>3. held' = {} \/ held' = {"image file"} \/ (held' = {"image buffer"} /\ opts'.kernel)
    BY <2>1, <2>2
  <2>4. held' = {} \/ Leak'
    BY <2>1, <2>2, <2>3 DEF Leak
  <2>. QED
    BY <2>1, <2>4 DEF HeldInv, Early, Down
<1>8. CASE OpenImage
  <2>1. step = "image" /\ step' = "load" /\ held' = held \cup {"image file", "image buffer"}
    BY <1>8 DEF OpenImage, Goto
  <2>2. held' = {"image file", "image buffer"}
    BY <2>1 DEF HeldInv
  <2>. QED
    BY <2>1, <2>2 DEF HeldInv, Early, Down
<1>9. CASE LoadChunk
  <2>1. /\ step = "load"
        /\ \/ step' = "reset" /\ held' = held \ {"image file", "image buffer"}
           \/ step' = "load" /\ held' = held
    BY <1>9 DEF LoadChunk
  <2>. QED
    BY <2>1 DEF HeldInv, Early, Down
<1>10. CASE ImageTooLarge
  BY <1>10 DEF ImageTooLarge, Goto, HeldInv, Early, Down
<1>11. CASE StartHart \/ Run
  <2>1. step \in {"reset", "run"} /\ step' = "run" /\ UNCHANGED held
    BY <1>11 DEF StartHart, Run, Goto, vmVars
  <2>. QED
    BY <2>1 DEF HeldInv, Early, Down
<1>12. CASE _vmDestroy
  BY <1>12 DEF _vmDestroy, Goto, HeldInv, Leak, Early, Down
<1>13. CASE UNCHANGED bootVars
  BY <1>13 DEF bootVars, vmVars, HeldInv, Leak
<1>. QED
  BY <1>1, <1>2, <1>3, <1>4, <1>5, <1>6, <1>7, <1>8, <1>9, <1>10, <1>11, <1>12, <1>13 DEF BootNext

-----------------------------------------------------------------------------
\* For every number of frames, every page size and size of RAM: main leaves no
\* frame allocated, no swap file open and the terminal as it was; of its other
\* buffers and files it leaves at most one, after one of the failures of Leak;
\* and once mem_init has returned true it releases no frame and no swap file
\* that it does not hold.
THEOREM BootReleases == BootSpec => []Released
<1>1. BootInv /\ HeldInv => Released
  BY DEF BootInv, MemReleased, HeldInv, Released, Down
<1>. QED
  BY <1>1, BootInitInv, BootStepInv, HeldInitInv, HeldStepInv, PTL DEF BootSpec

\* For every size of RAM and of a page, whatever the swap files held and however
\* many of its calls fail unnoticed: each swap file gets its size and keeps its
\* pages in mem_init, except where one of the failures named accounts for it.
THEOREM BootSwapWhole == BootSpec => []SwapFilesWhole
<1>1. FilesInv => SwapFilesWhole
  BY DEF FilesInv, AllDone, FileDone, LostOK, SwapFilesWhole
<1>. QED
  BY <1>1, BootInitInv, BootStepInv, FilesInitInv, FilesStepInv, PTL DEF BootSpec

-----------------------------------------------------------------------------
\* The nodes of the tree
IntcNode == Node("cpu-intc", 1, NoReg, 1, <<>>)
ClintNode == Node("clint", 0, Board[2], 0, <<<<1, <<IRQ_MACHINE_SW_INT>>>>, <<1, <<IRQ_MACHINE_TMR_INT>>>>>>)
PlicNode == Node("plic", 2, Board[3], 1, <<<<1, <<IRQ_MACHINE_EXT_INT>>>>, <<1, <<IRQ_SUPERVISOR_EXT_INT>>>>>>)
SerialNode == Node("serial", 3, Board[4], 0, <<<<2, <<NS16550A_IRQ>>>>>>)
MemoryNode == Node("memory", 0, Board[1], 0, <<>>)

\* The tree under construction, and when it is finished
Tree(next, uart, plic, memory, nodes) ==
  [nextPhandle |-> next, inSOC |-> TRUE, uart0Phandle |-> uart, intcPhandle |-> 1, plicPhandle |-> plic,
   memory |-> memory, nodes |-> nodes, stdout |-> 0, depth |-> 2]

Nodes == {IntcNode} \cup {ClintNode} \cup {PlicNode} \cup {SerialNode}

FinishedTree ==
  [nextPhandle |-> 3, inSOC |-> FALSE, uart0Phandle |-> 3, intcPhandle |-> 1, plicPhandle |-> 2,
   memory |-> Board[1], nodes |-> Nodes \cup {MemoryNode}, stdout |-> 3, depth |-> 0]

\* After the first j of _buildDeviceTree's calls
TreeAfter(j) ==
  /\ j = 0 => dt = Tree(1, 0, 0, NoReg, {IntcNode})
  /\ j = 1 => dt = Tree(1, 0, 0, Board[1], {IntcNode})
  /\ j = 2 => dt = Tree(1, 0, 0, Board[1], {IntcNode} \cup {ClintNode})
  /\ j = 3 => dt = Tree(2, 0, 2, Board[1], {IntcNode} \cup {ClintNode} \cup {PlicNode})
  /\ j = 4 => dt = Tree(3, 3, 2, Board[1], Nodes)
  /\ j = 5 => dt = FinishedTree

\* dt_init
LEMMA TreeBegun == ASSUME dt_init PROVE dt' = Tree(1, 0, 0, NoReg, {IntcNode})
<1>1. _nextPhandle(EmptyTree) = 1 /\ EmptyTree.nextPhandle = 0
  BY DEF _nextPhandle, EmptyTree
<1>2. dt' = [EmptyTree EXCEPT !.nextPhandle = @ + 1, !.intcPhandle = 1, !.inSOC = TRUE, !.depth = 2,
               !.nodes = {IntcNode}]
  BY <1>1 DEF dt_init, IntcNode
<1>3. 0 + 1 = 1
  OBVIOUS
<1>. QED
  BY <1>2, <1>3, Zenon DEF EmptyTree, Tree

\* dt_addMemeory
LEMMA TreeMemory == ASSUME TreeAfter(0), dt_addMemeory(Board[1]) PROVE TreeAfter(1)'
<1>1. dt' = [dt EXCEPT !.memory = Board[1]] /\ dt = Tree(1, 0, 0, NoReg, {IntcNode})
  BY DEF dt_addMemeory, TreeAfter
<1>2. dt' = Tree(1, 0, 0, Board[1], {IntcNode})
  BY <1>1 DEF Tree
<1>. QED
  BY <1>2 DEF TreeAfter, Tree, IntcNode, Node, NoReg, Board

\* dt_addAclint
LEMMA TreeAclint == ASSUME TreeAfter(1), dt_addAclint(Board[2]) PROVE TreeAfter(2)'
<1>1. dt = Tree(1, 0, 0, Board[1], {IntcNode}) /\ dt.intcPhandle = 1
  BY DEF TreeAfter, Tree
<1>2. dt' = [dt EXCEPT !.nodes = @ \cup {ClintNode}]
  BY <1>1 DEF dt_addAclint, ClintNode
<1>3. dt' = Tree(1, 0, 0, Board[1], {IntcNode} \cup {ClintNode})
  BY <1>1, <1>2 DEF Tree
<1>. QED
  BY <1>3 DEF TreeAfter, Tree, IntcNode, ClintNode, Node, NoReg, Board

\* dt_addPlic
LEMMA TreePlic == ASSUME TreeAfter(2), dt_addPlic(Board[3], PLIC_INTERRUPTS) PROVE TreeAfter(3)'
<1>1. dt = Tree(1, 0, 0, Board[1], {IntcNode} \cup {ClintNode}) /\ dt.intcPhandle = 1 /\ dt.nextPhandle = 1
  BY DEF TreeAfter, Tree
<1>2. _nextPhandle(dt) = 2
  BY <1>1 DEF _nextPhandle
<1>3. dt' = [dt EXCEPT !.nextPhandle = @ + 1, !.plicPhandle = 2, !.nodes = @ \cup {PlicNode}]
  BY <1>1, <1>2 DEF dt_addPlic, PlicNode, PLIC_INTERRUPTS
<1>4. dt' = Tree(2, 0, 2, Board[1], {IntcNode} \cup {ClintNode} \cup {PlicNode})
  BY <1>1, <1>3, 1 + 1 = 2, Zenon DEF Tree
<1>. QED
  BY <1>4 DEF TreeAfter, Tree, IntcNode, ClintNode, PlicNode, Node, NoReg, Board

\* dt_addNs16550a
LEMMA TreeUart == ASSUME TreeAfter(3), dt_addNs16550a(Board[4], NS16550A_IRQ) PROVE TreeAfter(4)'
<1>1. /\ dt = Tree(2, 0, 2, Board[1], {IntcNode} \cup {ClintNode} \cup {PlicNode})
      /\ dt.uart0Phandle = 0 /\ dt.plicPhandle = 2 /\ dt.nextPhandle = 2
  BY DEF TreeAfter, Tree
<1>2. _nextPhandle(dt) = 3 /\ NS16550A_IRQ # 0
  BY <1>1 DEF _nextPhandle, NS16550A_IRQ
<1>3. dt' = [dt EXCEPT !.nextPhandle = @ + 1, !.uart0Phandle = 3, !.nodes = @ \cup {SerialNode}]
  <2>. DEFINE first == dt.uart0Phandle = 0
              ph == IF first THEN _nextPhandle(dt) ELSE 0
              irqs == IF NS16550A_IRQ # 0 /\ dt.plicPhandle # 0
                      THEN <<<<dt.plicPhandle, <<NS16550A_IRQ>>>>>> ELSE <<>>
  <2>1. dt' = [dt EXCEPT !.nextPhandle = IF first THEN @ + 1 ELSE @, !.uart0Phandle = IF first THEN ph ELSE @,
                         !.nodes = @ \cup {Node("serial", ph, Board[4], 0, irqs)}]
    BY DEF dt_addNs16550a
  <2>2. first /\ ph = 3
    BY <1>1, <1>2
  <2>3. NS16550A_IRQ # 0 /\ dt.plicPhandle # 0
    BY <1>1, <1>2
  <2>4. irqs = <<<<2, <<NS16550A_IRQ>>>>>>
    BY <1>1, <2>3, Zenon
  <2>. HIDE DEF first, ph, irqs
  <2>. QED
    BY <2>1, <2>2, <2>4, Zenon DEF SerialNode
<1>4. dt' = Tree(3, 3, 2, Board[1], Nodes)
  BY <1>1, <1>3, 2 + 1 = 3, Zenon DEF Tree, Nodes
<1>. QED
  BY <1>4 DEF TreeAfter, Tree, Nodes, IntcNode, ClintNode, PlicNode, SerialNode, Node, NoReg, Board

\* dt_finish
LEMMA TreeFinished == ASSUME TreeAfter(4), dt_finish PROVE TreeAfter(5)'
<1>1. dt = Tree(3, 3, 2, Board[1], Nodes) /\ dt.uart0Phandle = 3 /\ dt.memory = Board[1]
  BY DEF TreeAfter, Tree
<1>2. dt' = [dt EXCEPT !.inSOC = FALSE, !.depth = @ - 2, !.stdout = 3, !.nodes = @ \cup {MemoryNode}]
  BY <1>1 DEF dt_finish, MemoryNode
<1>3. 2 - 2 = 0
  OBVIOUS
<1>4. dt' = FinishedTree
  BY <1>1, <1>2, <1>3, Zenon DEF Tree, FinishedTree
<1>. QED
  BY <1>4 DEF TreeAfter, FinishedTree, Tree, IntcNode, ClintNode, PlicNode, SerialNode, MemoryNode,
              Nodes, Node, NoReg, Board

\* The bus when all are registered
FullBoard == {Board[1], Board[2], Board[3], Board[4]}

\* The finished tree describes the board.
LEMMA FinishedDescribes == Describes(FinishedTree, FullBoard)
<1>. DEFINE d == FinishedTree
            Targets(ph) == {m \in d.nodes : m.phandle = ph}
<1>1. /\ IntcNode.phandle = 1 /\ ClintNode.phandle = 0 /\ PlicNode.phandle = 2 /\ SerialNode.phandle = 3
      /\ MemoryNode.phandle = 0 /\ IntcNode.cells = 1 /\ PlicNode.cells = 1
  BY DEF IntcNode, ClintNode, PlicNode, SerialNode, MemoryNode, Node
<1>2. /\ IntcNode.reg = NoReg /\ ClintNode.reg = Board[2] /\ PlicNode.reg = Board[3]
      /\ SerialNode.reg = Board[4] /\ MemoryNode.reg = Board[1]
  BY DEF IntcNode, ClintNode, PlicNode, SerialNode, MemoryNode, Node
<1>3. /\ IntcNode.irqs = <<>> /\ MemoryNode.irqs = <<>>
      /\ ClintNode.irqs = <<<<1, <<IRQ_MACHINE_SW_INT>>>>, <<1, <<IRQ_MACHINE_TMR_INT>>>>>>
      /\ PlicNode.irqs = <<<<1, <<IRQ_MACHINE_EXT_INT>>>>, <<1, <<IRQ_SUPERVISOR_EXT_INT>>>>>>
      /\ SerialNode.irqs = <<<<2, <<NS16550A_IRQ>>>>>>
      /\ PlicNode.name = "plic" /\ SerialNode.name = "serial"
  BY DEF IntcNode, ClintNode, PlicNode, SerialNode, MemoryNode, Node
<1>4. /\ d.depth = 0 /\ d.stdout = 3 /\ d.plicPhandle = 2
      /\ d.nodes = {IntcNode, ClintNode, PlicNode, SerialNode, MemoryNode}
  BY DEF FinishedTree, Nodes
<1>5. Board[1] # NoReg /\ Board[2] # NoReg /\ Board[3] # NoReg /\ Board[4] # NoReg
  BY DEF Board, NoReg
<1>. HIDE DEF d
<1>6. Targets(1) = {IntcNode} /\ Targets(2) = {PlicNode} /\ Targets(3) = {SerialNode}
  BY <1>1, <1>4
<1>7. {m.reg : m \in d.nodes} \ {NoReg} = FullBoard
  <2>1. {m.reg : m \in d.nodes} = {NoReg, Board[2], Board[3], Board[4], Board[1]}
    BY <1>2, <1>4
  <2>. QED
    BY <1>5, <2>1 DEF FullBoard
<1>8. ASSUME NEW m \in d.nodes, NEW j \in DOMAIN m.irqs
      PROVE  /\ m.irqs[j][1] # 0
             /\ \E t \in d.nodes : Targets(m.irqs[j][1]) = {t} /\ Len(m.irqs[j][2]) = t.cells
  <2>1. m \in {IntcNode, ClintNode, PlicNode, SerialNode, MemoryNode}
    BY <1>4
  <2>2. m.irqs # <<>>
    BY <1>8
  <2>3. \/ m.irqs[j][1] = 1 /\ Len(m.irqs[j][2]) = 1
        \/ m.irqs[j][1] = 2 /\ Len(m.irqs[j][2]) = 1
    <3>1. CASE m = ClintNode
      <4>1. j = 1 \/ j = 2
        BY <1>3, <1>8, <3>1
      <4>. QED
        BY <1>3, <3>1, <4>1
    <3>2. CASE m = PlicNode
      <4>1. j = 1 \/ j = 2
        BY <1>3, <1>8, <3>2
      <4>. QED
        BY <1>3, <3>2, <4>1
    <3>3. CASE m = SerialNode
      <4>1. j = 1
        BY <1>3, <1>8, <3>3
      <4>. QED
        BY <1>3, <3>3, <4>1
    <3>. QED
      BY <1>3, <2>1, <2>2, <3>1, <3>2, <3>3
  <2>4. CASE m.irqs[j][1] = 1 /\ Len(m.irqs[j][2]) = 1
    BY <1>1, <1>4, <1>6, <2>4
  <2>5. CASE m.irqs[j][1] = 2 /\ Len(m.irqs[j][2]) = 1
    BY <1>1, <1>4, <1>6, <2>5
  <2>. QED
    BY <2>3, <2>4, <2>5
<1>9. d.stdout # 0 /\ \E t \in d.nodes : Targets(d.stdout) = {t} /\ t.name = "serial"
  BY <1>3, <1>4, <1>6
<1>10. \E m \in d.nodes : /\ m.name = "plic" /\ Len(m.irqs) = 2
                          /\ \A i \in 0 .. 1 : m.irqs[i + 1][2] = <<ContextCause(i)>>
  <2>1. PlicNode \in d.nodes /\ PlicNode.name = "plic" /\ Len(PlicNode.irqs) = 2
    BY <1>3, <1>4
  <2>2. ASSUME NEW i \in 0 .. 1 PROVE PlicNode.irqs[i + 1][2] = <<ContextCause(i)>>
    <3>1. CASE i = 0
      BY <1>3, <3>1 DEF ContextCause
    <3>2. CASE i = 1
      BY <1>3, <3>2 DEF ContextCause
    <3>. QED
      BY <3>1, <3>2
  <2>. QED
    BY <2>1, <2>2
<1>11. \E m \in d.nodes : m.name = "serial" /\ m.irqs = <<<<d.plicPhandle, <<NS16550A_IRQ>>>>>>
  BY <1>3, <1>4
<1>. QED
  BY <1>4, <1>7, <1>8, <1>9, <1>10, <1>11 DEF Describes, d

-----------------------------------------------------------------------------
\* The first j devices of the board are on the bus.
Registered(j) ==
  /\ devices \in Seq(FullBoard) /\ Len(devices) = j
  /\ \A i \in 1 .. j : devices[i] = Board[i]

\* Devices before the tree, and the tree before the image
BuiltOK ==
  /\ step \in Early => devices = <<>>
  /\ step = "devices" => k \in 0 .. 4 /\ Registered(k)
  /\ step = "tree" => k \in 0 .. 5 /\ Registered(4) /\ TreeAfter(k)
  /\ step \in {"image", "load", "reset", "run"} => Registered(4) /\ dt = FinishedTree

\* The tree is intact as long as the image has not reached it; of a kernel something
\* is loaded before its end is met.
LoadOK ==
  /\ step = "image" => dtb = "whole"
  /\ step \in {"load", "reset", "run"} =>
       /\ image.start \in Nat /\ image.size \in Nat
       /\ opts.kernel => image.size >= BufSize
       /\ ~opts.kernel => image.start = 0
       /\ textPtr \in image.start .. ImageEnd
       /\ (dtb = "whole") = (textPtr <= dtbAddress \/ textPtr = image.start)
  /\ step \in {"reset", "run"} => textPtr = ImageEnd

TreeInv == BuiltOK /\ LoadOK

\* Nothing is on the bus when main is entered.
LEMMA TreeInitInv == BootInit => TreeInv
BY DEF BootInit, TreeInv, BuiltOK, LoadOK

\* The steps before the devices and on the way out
LEMMA TreeAway ==
  ASSUME TreeInv, step' \in Early \cup Down \cup {"aborted"}, step' \in Early => step \in Early,
         UNCHANGED <<opts, devices>>
  PROVE  TreeInv'
<1>1. step' \notin {"devices", "tree", "image", "load", "reset", "run"}
  BY DEF Early, Down
<1>2. BuiltOK' /\ LoadOK'
  BY <1>1 DEF TreeInv, BuiltOK, LoadOK
<1>. QED
  BY <1>2 DEF TreeInv

\* mem_init returns true, and main goes on to the devices.
LEMMA TreeDevices ==
  ASSUME TreeInv, step \in Early, step' = "devices", k' = 0, UNCHANGED <<opts, devices>>
  PROVE  TreeInv'
<1>1. devices' = <<>>
  BY DEF TreeInv, BuiltOK
<1>2. Registered(0)'
  BY <1>1 DEF Registered
<1>3. BuiltOK' /\ LoadOK'
  BY <1>2 DEF TreeInv, BuiltOK, LoadOK, Early
<1>. QED
  BY <1>3 DEF TreeInv

\* The next device goes on the bus.
LEMMA RegisterTree == ASSUME TreeInv, RegisterDevice PROVE TreeInv'
<1>1. /\ step = "devices" /\ step' = "devices" /\ k < Len(Board) /\ k' = k + 1
      /\ devices' = Append(devices, Board[k + 1]) /\ UNCHANGED opts
  BY DEF RegisterDevice
<1>2. Len(Board) = 4
  BY DEF Board
<1>3. k \in 0 .. 3 /\ devices \in Seq(FullBoard) /\ Len(devices) = k /\ \A i \in 1 .. k : devices[i] = Board[i]
  BY <1>1, <1>2 DEF TreeInv, BuiltOK, Registered
<1>4. Board[k + 1] \in FullBoard
  <2>1. k + 1 \in {1, 2, 3, 4}
    BY <1>3
  <2>. HIDE DEF Board
  <2>. QED
    BY <2>1 DEF FullBoard
<1>5. /\ devices' \in Seq(FullBoard) /\ Len(devices') = k + 1
      /\ \A i \in 1 .. k + 1 : devices'[i] = Board[i]
  <2>. DEFINE b == Board[k + 1]
  <2>1. devices' = Append(devices, b) /\ b \in FullBoard
    BY <1>1, <1>4
  <2>. HIDE DEF b
  <2>2. devices' \in Seq(FullBoard) /\ Len(devices') = k + 1 /\ devices'[k + 1] = b
    BY <1>3, <2>1
  <2>3. \A i \in 1 .. k : devices'[i] = devices[i]
    BY <1>3, <2>1
  <2>4. ASSUME NEW i \in 1 .. k + 1 PROVE devices'[i] = Board[i]
    <3>1. CASE i = k + 1
      BY <2>2, <3>1 DEF b
    <3>2. CASE i # k + 1
      <4>1. i \in 1 .. k
        BY <1>3, <3>2
      <4>. QED
        BY <1>3, <2>3, <4>1
    <3>. QED
      BY <3>1, <3>2
  <2>. QED
    BY <2>2, <2>4
<1>6. Registered(k)' /\ k' \in 0 .. 4
  BY <1>1, <1>3, <1>5 DEF Registered
<1>7. BuiltOK' /\ LoadOK'
  BY <1>1, <1>6 DEF TreeInv, BuiltOK, LoadOK, Early
<1>. QED
  BY <1>7 DEF TreeInv

\* Registration is for good.
LEMMA RegisteredKept == ASSUME Registered(4), UNCHANGED devices PROVE Registered(4)'
BY DEF Registered

\* A call of _buildDeviceTree finds the tree that the one before it left.
LEMMA BuildTree == ASSUME TreeInv, _buildDeviceTree PROVE TreeInv'
<1>1. UNCHANGED <<opts, devices>>
  BY DEF _buildDeviceTree
<1>2. CASE k = 4 /\ Goto("devices", "tree") /\ dt_init
  <2>1. step = "devices" /\ k = 4 /\ step' = "tree" /\ k' = 0 /\ dt_init
    BY <1>2 DEF Goto
  <2>2. Registered(4)'
    BY <1>1, <2>1, RegisteredKept DEF TreeInv, BuiltOK
  <2>3. TreeAfter(0)'
    BY <2>1, TreeBegun DEF TreeAfter
  <2>4. BuiltOK' /\ LoadOK'
    BY <1>1, <2>1, <2>2, <2>3 DEF TreeInv, BuiltOK, LoadOK, Early
  <2>. QED
    BY <2>4 DEF TreeInv
<1>3. CASE /\ step = "tree" /\ k' = k + 1 /\ UNCHANGED step
           /\ CASE k = 0 -> dt_addMemeory(Board[1])
                [] k = 1 -> dt_addAclint(Board[2])
                [] k = 2 -> dt_addPlic(Board[3], PLIC_INTERRUPTS)
                [] k = 3 -> dt_addNs16550a(Board[4], NS16550A_IRQ)
                [] k = 4 -> dt_finish
                [] OTHER -> FALSE
  <2>1. k \in 0 .. 5 /\ Registered(4) /\ TreeAfter(k)
    BY <1>3 DEF TreeInv, BuiltOK
  <2>2. Registered(4)'
    BY <1>1, <2>1, RegisteredKept
  <2>3. k # 5
    BY <1>3
  <2>4. k' \in 0 .. 5 /\ TreeAfter(k)'
    <3>1. CASE k = 0
      <4>1. k' = 1 /\ TreeAfter(1)'
        BY <1>3, <2>1, <3>1, TreeMemory
      <4>. QED
        BY <4>1 DEF TreeAfter
    <3>2. CASE k = 1
      <4>1. k' = 2 /\ TreeAfter(2)'
        BY <1>3, <2>1, <3>2, TreeAclint
      <4>. QED
        BY <4>1 DEF TreeAfter
    <3>3. CASE k = 2
      <4>1. k' = 3 /\ TreeAfter(3)'
        BY <1>3, <2>1, <3>3, TreePlic
      <4>. QED
        BY <4>1 DEF TreeAfter
    <3>4. CASE k = 3
      <4>1. k' = 4 /\ TreeAfter(4)'
        BY <1>3, <2>1, <3>4, TreeUart
      <4>. QED
        BY <4>1 DEF TreeAfter
    <3>5. CASE k = 4
      <4>1. k' = 5 /\ TreeAfter(5)'
        BY <1>3, <2>1, <3>5, TreeFinished
      <4>. QED
        BY <4>1 DEF TreeAfter
    <3>. QED
      BY <2>1, <2>3, <3>1, <3>2, <3>3, <3>4, <3>5
  <2>5. BuiltOK' /\ LoadOK'
    BY <1>1, <1>3, <2>2, <2>4 DEF TreeInv, BuiltOK, LoadOK, Early
  <2>. QED
    BY <2>5 DEF TreeInv
<1>. QED
  BY <1>2, <1>3 DEF _buildDeviceTree

\* The tree is finished and goes to RAM.
LEMMA WriteTreeInv == ASSUME TreeInv, WriteTree PROVE TreeInv'
<1>1. step = "tree" /\ step' = "image" /\ k = 5 /\ dtb' = "whole" /\ UNCHANGED <<opts, devices, dt>>
  BY DEF WriteTree, Goto
<1>2. Registered(4)' /\ dt' = FinishedTree
  BY <1>1, RegisteredKept DEF TreeInv, BuiltOK, TreeAfter
<1>3. BuiltOK' /\ LoadOK'
  BY <1>1, <1>2 DEF TreeInv, BuiltOK, LoadOK, Early
<1>. QED
  BY <1>3 DEF TreeInv

\* Where the tree lies
LEMMA DtbInRam == ASSUME size \in Sizes PROVE dtbAddress \in Nat
<1>. DEFINE x == size - DtbSize
<1>1. x \in Nat /\ WordSize \in Nat \ {0}
  BY SwapAssumption, BootAssumption
<1>2. x \div WordSize \in Nat
  <2>. HIDE DEF x
  <2>. QED
    BY <1>1, DivMod
<1>. HIDE DEF x
<1>3. (x \div WordSize) * WordSize \in Nat
  BY <1>1, <1>2
<1>. QED
  BY <1>3 DEF dtbAddress, ALIGN_DOWN, x

\* No more than a word's alignment is left behind the tree.
LEMMA DtbAtEnd == ASSUME size \in Sizes PROVE size < dtbAddress + DtbSize + WordSize
<1>. DEFINE x == size - DtbSize
            q == x \div WordSize
<1>1. x \in Nat /\ WordSize \in Nat \ {0} /\ size \in Nat /\ DtbSize \in Nat
  BY SwapAssumption, BootAssumption
<1>2. q \in Nat /\ x = q * WordSize + (x % WordSize) /\ x % WordSize \in 0 .. WordSize - 1
  <2>. HIDE DEF x
  <2>. QED
    BY <1>1, DivMod
<1>3. dtbAddress = q * WordSize /\ size = x + DtbSize
  BY <1>1 DEF dtbAddress, ALIGN_DOWN
<1>. HIDE DEF x, q
<1>4. q * WordSize \in Nat
  BY <1>1, <1>2
<1>. DEFINE y == q * WordSize
            r == x % WordSize
<1>. HIDE DEF y, r
<1>5. y \in Nat /\ x = y + r /\ r \in 0 .. WordSize - 1 /\ dtbAddress = y
  BY <1>2, <1>3, <1>4 DEF y, r
<1>. HIDE DEF dtbAddress
<1>. QED
  BY <1>1, <1>3, <1>5

\* The image is opened, and of a kernel the header is read.
LEMMA OpenImageInv == ASSUME TreeInv, OpenImage PROVE TreeInv'
<1>1. step = "image" /\ step' = "load" /\ UNCHANGED <<opts, devices, dt, dtb>>
  BY DEF OpenImage, Goto
<1>2. PICK bytes \in ImageSizes, text_offset \in (IF opts.kernel THEN TextOffsets ELSE {0}) :
        /\ opts.kernel => bytes >= BufSize
        /\ image' = [start |-> text_offset % AddrMod, size |-> bytes]
        /\ textPtr' = text_offset % AddrMod
  BY DEF OpenImage
<1>3. Registered(4)' /\ dt' = FinishedTree /\ dtb = "whole"
  BY <1>1, RegisteredKept DEF TreeInv, BuiltOK, LoadOK
<1>4. BuiltOK'
  BY <1>1, <1>3 DEF BuiltOK, Early
<1>5. bytes \in Nat /\ text_offset \in Nat /\ (~opts.kernel => text_offset = 0) /\ AddrMod \in Nat \ {0}
  BY <1>2, BootAssumption
<1>6. text_offset % AddrMod \in Nat /\ (~opts.kernel => text_offset % AddrMod = 0)
  BY <1>5
<1>7. image'.start = text_offset % AddrMod /\ image'.size = bytes
  BY <1>2
<1>8. textPtr' \in image'.start .. ImageEnd'
  BY <1>2, <1>5, <1>6, <1>7 DEF ImageEnd
<1>9. (dtb' = "whole") = (textPtr' <= dtbAddress' \/ textPtr' = image'.start)
  BY <1>1, <1>2, <1>3, <1>7
<1>10. LoadOK'
  BY <1>1, <1>2, <1>5, <1>6, <1>7, <1>8, <1>9 DEF LoadOK
<1>. QED
  BY <1>4, <1>10 DEF TreeInv

\* A buffer of the image
LEMMA LoadChunkInv == ASSUME TreeInv, size \in Sizes, LoadChunk PROVE TreeInv'
<1>1. /\ step = "load" /\ textPtr' = textPtr + Chunk /\ textPtr + Chunk <= size
      /\ dtb' = (IF Overlaps THEN "overwritten" ELSE dtb)
      /\ step' = (IF Chunk < BufSize THEN "reset" ELSE "load")
      /\ UNCHANGED <<size, opts, devices, dt, image>>
  BY DEF LoadChunk, Fits, swapVars
<1>2. step' \in {"load", "reset"}
  BY <1>1
<1>3. Registered(4)' /\ dt' = FinishedTree
  BY <1>1, RegisteredKept DEF TreeInv, BuiltOK
<1>4. BuiltOK'
  BY <1>1, <1>2, <1>3 DEF BuiltOK, Early
<1>5. /\ image.start \in Nat /\ image.size \in Nat
      /\ opts.kernel => image.size >= BufSize
      /\ ~opts.kernel => image.start = 0
      /\ textPtr \in image.start .. ImageEnd
      /\ (dtb = "whole") = (textPtr <= dtbAddress \/ textPtr = image.start)
  BY <1>1 DEF TreeInv, LoadOK
<1>6. dtbAddress' = dtbAddress /\ ImageEnd' = ImageEnd /\ opts' = opts /\ image' = image
  BY <1>1 DEF dtbAddress, ImageEnd
<1>. DEFINE o == image.start
            end == ImageEnd
            top == dtbAddress
            c == Chunk
            D == DtbSize
<1>7. /\ top \in Nat /\ BufSize \in Nat \ {0} /\ WordSize <= BufSize /\ end \in Nat /\ o \in Nat
      /\ D \in Nat \ {0} /\ WordSize \in Nat /\ size \in Nat /\ size < top + D + WordSize
  BY <1>5, DtbInRam, DtbAtEnd, BootAssumption, SwapAssumption DEF ImageEnd
<1>8. c = IF end - textPtr < BufSize THEN end - textPtr ELSE BufSize
  BY DEF Chunk
<1>9. textPtr \in o .. end /\ (o > 0 => end >= o + BufSize)
  BY <1>5, <1>7 DEF ImageEnd
<1>10. (dtb = "whole") <=> (textPtr <= top \/ textPtr = o)
  BY <1>5
<1>11. /\ textPtr' = textPtr + c /\ textPtr + c <= size
       /\ dtb' = (IF c > 0 /\ textPtr < top + D /\ textPtr + c > top THEN "overwritten" ELSE dtb)
  BY <1>1 DEF Overlaps
<1>. HIDE DEF o, end, top, c, D
<1>12. c \in Nat /\ textPtr + c \in o .. end /\ (c < BufSize => textPtr + c = end) /\ textPtr \in Nat
  BY <1>7, <1>8, <1>9
<1>13. (dtb' = "whole") <=> (textPtr' <= top \/ textPtr' = o)
  <2>1. CASE c = 0
    <3>1. textPtr' = textPtr /\ dtb' = dtb
      BY <1>9, <1>11, <1>12, <2>1
    <3>. QED
      BY <1>10, <3>1
  <2>2. CASE c > 0 /\ textPtr + c > top
    <3>1. ~(textPtr' <= top) /\ textPtr' # o
      BY <1>7, <1>9, <1>11, <1>12, <2>2
    <3>2. CASE textPtr < top + D
      <4>1. dtb' = "overwritten"
        BY <1>11, <2>2, <3>2
      <4>. QED
        BY <3>1, <4>1
    <3>3. CASE textPtr >= top + D
      <4>1. dtb' = dtb /\ ~(textPtr <= top)
        BY <1>7, <1>11, <1>12, <3>3
      <4>2. textPtr # o
        <5>. SUFFICES ASSUME textPtr = o PROVE FALSE
          OBVIOUS
        <5>1. o > 0
          BY <1>7, <3>3
        <5>2. c = BufSize
          BY <1>7, <1>8, <1>9, <5>1
        <5>. QED
          BY <1>7, <1>11, <3>3, <5>2
      <4>. QED
        BY <1>10, <3>1, <4>1, <4>2
    <3>. QED
      BY <1>7, <1>12, <3>2, <3>3
  <2>3. CASE c > 0 /\ ~(textPtr + c > top)
    <3>1. dtb' = dtb /\ textPtr' <= top /\ textPtr <= top
      BY <1>7, <1>9, <1>11, <1>12, <2>3
    <3>. QED
      BY <1>10, <3>1
  <2>. QED
    BY <1>12, <2>1, <2>2, <2>3
<1>14. step' = "reset" => textPtr' = end
  BY <1>1, <1>11, <1>12 DEF c
<1>15. textPtr' \in image'.start .. ImageEnd'
  BY <1>6, <1>11, <1>12 DEF o, end
<1>16. (dtb' = "whole") = (textPtr' <= dtbAddress' \/ textPtr' = image'.start)
  BY <1>6, <1>13 DEF o, top
<1>17. LoadOK'
  BY <1>2, <1>5, <1>6, <1>14, <1>15, <1>16 DEF LoadOK, end
<1>. QED
  BY <1>4, <1>17 DEF TreeInv

\* From the image to the guest
LEMMA StartedInv ==
  ASSUME TreeInv, step \in {"reset", "run"}, step' = "run", UNCHANGED <<size, opts, devices, dt, dtb, image, textPtr>>
  PROVE  TreeInv'
<1>1. dtbAddress' = dtbAddress /\ ImageEnd' = ImageEnd
  BY DEF dtbAddress, ImageEnd
<1>2. Registered(4)' /\ dt' = FinishedTree
  BY RegisteredKept DEF TreeInv, BuiltOK
<1>3. BuiltOK' /\ LoadOK'
  BY <1>1, <1>2 DEF TreeInv, BuiltOK, LoadOK, Early
<1>. QED
  BY <1>3 DEF TreeInv

\* Every step of main keeps what the tree, the bus and the loaded image have in common.
LEMMA TreeStepInv == BootInv /\ TreeInv /\ [BootNext]_bootVars => TreeInv'
<1>. SUFFICES ASSUME BootInv, TreeInv, [BootNext]_bootVars PROVE TreeInv'
  OBVIOUS
<1>0. step \in Early \cup Late \cup Down /\ size \in Sizes
  BY DEF BootInv, StepOK, LayoutOK, SwapOK
<1>1. CASE ui_init \/ _parseArgs \/ FramesDone
  <2>1. UNCHANGED <<opts, devices>> /\ step \in Early /\ step' \in Early \cup Down
    BY <1>1 DEF ui_init, _parseArgs, FramesDone, Fails, Goto, vmVars, Early, Down
  <2>. QED
    BY <2>1, TreeAway
<1>2. CASE AllocFrame \/ Shift \/ ShiftDone
  <2>1. UNCHANGED <<opts, devices>> /\ step \in Early /\ step' \in Early
    BY <1>2 DEF AllocFrame, Shift, ShiftDone, MemFails, Goto, vmVars, Early
  <2>. QED
    BY <2>1, TreeAway
<1>3. CASE OpenFile \/ SeekEnd \/ GrowFile \/ ReopenFile
  <2>1. UNCHANGED <<opts, devices>> /\ step \in Early /\ step' \in Early
    BY <1>3 DEF OpenFile, SeekEnd, GrowFile, ReopenFile, OpenFails, MemFails, Goto, vmVars, Early
  <2>. QED
    BY <2>1, TreeAway
<1>4. CASE \/ MemInitFails \/ _vmDestroy \/ dt_initFails \/ TreeFails
           \/ NoImageFile \/ NoImageBuffer \/ BadHeader \/ ImageTooLarge
  <2>1. UNCHANGED <<opts, devices>> /\ step' \in Down \cup {"aborted"} /\ step' \notin Early
    BY <1>4 DEF MemInitFails, _vmDestroy, dt_initFails, TreeFails, NoImageFile, NoImageBuffer, BadHeader,
                ImageTooLarge, Fails, Goto, vmVars, Early, Down
  <2>. QED
    BY <2>1, TreeAway
<1>5. CASE InitFlat \/ FilesDone
  <2>1. /\ UNCHANGED <<opts, devices>> /\ step \in Early
        /\ (step' = "devices" /\ k' = 0) \/ (step' \in Down /\ step' \notin Early)
    BY <1>5 DEF InitFlat, FilesDone, Fails, Goto, vmVars, Early, Down
  <2>. QED
    BY <2>1, TreeAway, TreeDevices
<1>6. CASE RegisterDevice \/ _buildDeviceTree \/ WriteTree
  BY <1>6, RegisterTree, BuildTree, WriteTreeInv
<1>7. CASE OpenImage \/ LoadChunk
  BY <1>0, <1>7, OpenImageInv, LoadChunkInv
<1>8. CASE StartHart \/ Run
  <2>1. step \in {"reset", "run"} /\ step' = "run" /\ UNCHANGED <<size, opts, devices, dt, dtb, image, textPtr>>
    BY <1>8 DEF StartHart, Run, Access, Goto, vmVars, loadVars, swapVars
  <2>. QED
    BY <2>1, StartedInv
<1>9. CASE UNCHANGED bootVars
  <2>1. UNCHANGED <<size, opts, step, k, devices, dt, dtb, image, textPtr>>
    BY <1>9 DEF bootVars, swapVars, vmVars, loadVars
  <2>2. dtbAddress' = dtbAddress /\ ImageEnd' = ImageEnd
    BY <2>1 DEF dtbAddress, ImageEnd
  <2>3. BuiltOK'
    BY <2>1 DEF TreeInv, BuiltOK, Registered, TreeAfter
  <2>4. LoadOK'
    BY <2>1, <2>2 DEF TreeInv, LoadOK
  <2>. QED
    BY <2>3, <2>4 DEF TreeInv
<1>. QED
  BY <1>1, <1>2, <1>3, <1>4, <1>5, <1>6, <1>7, <1>8, <1>9 DEF BootNext

\* For every size of RAM, of the tree, of the image and of the buffer, and for
\* every text offset that a kernel's header may have: a hart that is started finds
\* a bus with the four devices and a tree that describes them, the image is
\* loaded to its end, and the tree is intact if and only if the image ends below it.
THEOREM BootTreeRight == BootSpec => []TreeRight
<1>1. BootInv /\ TreeInv => TreeRight
  <2>. SUFFICES ASSUME BootInv, TreeInv, step = "run" PROVE TreeRight
    BY DEF TreeRight
  <2>1. /\ Registered(4) /\ dt = FinishedTree /\ textPtr = ImageEnd
        /\ image.start \in Nat /\ image.size \in Nat
        /\ opts.kernel => image.size >= BufSize
        /\ ~opts.kernel => image.start = 0
        /\ (dtb = "whole") = (textPtr <= dtbAddress \/ textPtr = image.start)
    BY DEF TreeInv, BuiltOK, LoadOK
  <2>2. {devices[j] : j \in DOMAIN devices} = FullBoard
    <3>1. DOMAIN devices = {1, 2, 3, 4} /\ \A i \in {1, 2, 3, 4} : devices[i] = Board[i]
      BY <2>1 DEF Registered
    <3>. QED
      BY <3>1 DEF FullBoard
  <2>3. Describes(dt, {devices[j] : j \in DOMAIN devices})
    BY <2>1, <2>2, FinishedDescribes
  <2>4. ImageEnd = image.start => ImageEnd <= dtbAddress
    <3>. SUFFICES ASSUME ImageEnd = image.start PROVE ImageEnd <= dtbAddress
      OBVIOUS
    <3>1. image.size = 0
      BY <2>1 DEF ImageEnd
    <3>2. image.start = 0
      BY <2>1, <3>1, BootAssumption
    <3>3. dtbAddress \in Nat
      BY DtbInRam DEF BootInv, LayoutOK, SwapOK
    <3>. HIDE DEF dtbAddress
    <3>. QED
      BY <3>2, <3>3
  <2>. QED
    BY <2>1, <2>3, <2>4 DEF TreeRight
<1>. QED
  BY <1>1, BootInitInv, BootStepInv, TreeInitInv, TreeStepInv, PTL DEF BootSpec

=============================================================================
