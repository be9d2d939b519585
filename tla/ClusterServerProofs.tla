------------------------ MODULE ClusterServerProofs ------------------------
(***************************************************************************)
(* What the data model engine does with any tables, as far as these agree: *)
(* each theorem names the part of Consistent it needs, and the run of      *)
(* MCClusterServer evaluates these parts on the generated tables.          *)
(***************************************************************************)
EXTENDS ClusterServer, PrefixSumsProofs, FiniteSetTheorems, TLAPS

-----------------------------------------------------------------------------
(* The layout of the storage.                                              *)

\* The i-th element of a list of sizes ends where the next one starts, and
\* before the sum of all of them.
LEMMA Slots ==
  ASSUME NEW N \in Nat, NEW f \in [1..N -> Nat], NEW i \in 1..N
  PROVE  /\ PrefixSum(f, i - 1) \in Nat
         /\ \A j \in (i + 1)..N : PrefixSum(f, i - 1) + f[i] <= PrefixSum(f, j - 1)
         /\ PrefixSum(f, i - 1) + f[i] <= PrefixSum(f, N)
         /\ PrefixSum(f, N) \in Nat
<1>1. PrefixSum(f, i) = PrefixSum(f, i - 1) + f[i]
  <2>1. i - 1 \in Nat /\ (i - 1) + 1 = i
    OBVIOUS
  <2> QED
    BY <2>1, PrefixSumStep
<1>2. /\ i - 1 \in 0..N /\ i \in 0..N /\ N \in 0..N
      /\ \A j \in (i + 1)..N : j - 1 \in 0..N /\ i <= j - 1
  OBVIOUS
<1>3. \A j \in (i + 1)..N : PrefixSum(f, i) <= PrefixSum(f, j - 1)
  BY <1>2, PrefixSumMonotone
<1>4. PrefixSum(f, i) <= PrefixSum(f, N)
  BY <1>2, PrefixSumMonotone
<1> QED
  BY <1>1, <1>2, <1>3, <1>4, PrefixSumType

\* The entries of a sequence.
LEMMA Entries ==
  ASSUME NEW S, NEW q \in Seq(S)
  PROVE  /\ Len(q) \in Nat
         /\ DOMAIN q = 1..Len(q)
         /\ \A n \in DOMAIN q : q[n] \in S
OBVIOUS

\* What TablesAssumption says of a row: the lists of sizes the layout sums up.
LEMMA SizesType ==
  ASSUME NEW c \in Configs, NEW e \in Endpoints, NEW r \in Rows(TablesOf[c], e)
  PROVE  LET t == TablesOf[c]
             type == t.endpointTypes[e + 1]
         IN  /\ t.maxSize \in Nat
             /\ Len(t.endpointTypes) \in Nat
             /\ e + 1 \in 1..Len(t.endpointTypes)
             /\ EndpointSizes(t) \in [1..Len(t.endpointTypes) -> Nat]
             /\ EndpointSizes(t)[e + 1] = type.size
             /\ type.clusters \in Nat /\ type.clusterCount \in Nat
             /\ type.size \in Nat
             /\ RowSizes(t, e) \in [1..type.clusterCount -> Nat]
             /\ r - type.clusters \in 1..type.clusterCount
             /\ RowSizes(t, e)[r - type.clusters] = t.clusters[r].clusterSize
             /\ r \in DOMAIN t.clusters
             /\ t.clusters[r].clusterSize \in Nat
             /\ t.clusters[r].attributeCount \in Nat
             /\ AttributeSizes(t, r) \in [1..t.clusters[r].attributeCount -> Nat]
             /\ DOMAIN RowAttributes(t, r) = 1..t.clusters[r].attributeCount
             /\ \A j \in DOMAIN RowAttributes(t, r) :
                  AttributeSizes(t, r)[j] = RowAttributes(t, r)[j].bytes
<1> DEFINE t == TablesOf[c]
           type == t.endpointTypes[e + 1]
<1>1. /\ t.endpointTypes \in Seq([clusters : Nat, clusterCount : Nat, size : Nat])
      /\ t.maxSize \in Nat
      /\ e + 1 \in DOMAIN t.endpointTypes
      /\ Rows(t, e) \subseteq DOMAIN t.clusters
  BY TablesAssumption
<1>2. /\ DOMAIN t.endpointTypes = 1..Len(t.endpointTypes)
      /\ Len(t.endpointTypes) \in Nat
      /\ \A n \in DOMAIN t.endpointTypes :
           t.endpointTypes[n] \in [clusters : Nat, clusterCount : Nat, size : Nat]
  <2> HIDE DEF t
  <2> QED
    BY <1>1, Entries
<1>3. type.clusters \in Nat /\ type.clusterCount \in Nat /\ type.size \in Nat
  BY <1>1, <1>2
<1>4. /\ EndpointSizes(t) \in [1..Len(t.endpointTypes) -> Nat]
      /\ EndpointSizes(t)[e + 1] = type.size
  BY <1>1, <1>2 DEF EndpointSizes
<1>5. \A q \in DOMAIN t.clusters :
        /\ t.clusters[q].attributeCount \in Nat
        /\ t.clusters[q].clusterSize \in Nat
        /\ \A j \in 1..t.clusters[q].attributeCount :
             t.attributes[t.clusters[q].attributes + j].bytes \in Nat
  BY TablesAssumption
<1>6. r \in (type.clusters + 1)..(type.clusters + type.clusterCount)
  BY DEF Rows
<1>7. /\ r - type.clusters \in 1..type.clusterCount
      /\ type.clusters + (r - type.clusters) = r
  BY <1>3, <1>6
<1>8. \A k \in 1..type.clusterCount :
        type.clusters + k \in DOMAIN t.clusters
  <2> SUFFICES ASSUME NEW k \in 1..type.clusterCount
               PROVE  type.clusters + k \in Rows(t, e)
    BY <1>1
  <2>1. type.clusters + k \in (type.clusters + 1)..(type.clusters + type.clusterCount)
    BY <1>3
  <2> QED
    BY <2>1 DEF Rows
<1>9. /\ RowSizes(t, e) \in [1..type.clusterCount -> Nat]
      /\ RowSizes(t, e)[r - type.clusters] = t.clusters[r].clusterSize
  BY <1>5, <1>7, <1>8 DEF RowSizes
<1>10. DOMAIN RowAttributes(t, r) = 1..t.clusters[r].attributeCount
  BY DEF RowAttributes
<1>11. \A j \in DOMAIN RowAttributes(t, r) :
         /\ RowAttributes(t, r)[j].bytes \in Nat
         /\ AttributeSizes(t, r)[j] = RowAttributes(t, r)[j].bytes
  BY <1>1, <1>5 DEF RowAttributes, AttributeSizes
<1>12. AttributeSizes(t, r) \in [1..t.clusters[r].attributeCount -> Nat]
  BY <1>10, <1>11 DEF AttributeSizes
<1> QED
  BY <1>1, <1>2, <1>3, <1>4, <1>5, <1>7, <1>9, <1>10, <1>11, <1>12

\* Within an endpoint a cluster has the bytes its row states, the clusters one
\* after the other; within the storage so do the endpoints.
LEMMA RowPlace ==
  ASSUME NEW c \in Configs, SizesFit(c),
         NEW e \in Endpoints, NEW r \in Rows(TablesOf[c], e)
  PROVE  LET t == TablesOf[c]
             size == t.clusters[r].clusterSize
         IN  /\ RowOffset(t, e, r) \in Nat
             /\ EndpointOffset(t, e) \in Nat
             /\ EndpointOffset(t, e) <= RowOffset(t, e, r)
             /\ RowOffset(t, e, r) + size
                  <= EndpointOffset(t, e) + t.endpointTypes[e + 1].size
             /\ RowOffset(t, e, r) + size <= t.maxSize
             /\ \A q \in Rows(t, e) :
                  r < q => RowOffset(t, e, r) + size <= RowOffset(t, e, q)
             /\ \A f \in Endpoints : \A q \in Rows(t, f) :
                  e < f => RowOffset(t, e, r) + size <= EndpointOffset(t, f)
<1> DEFINE t == TablesOf[c]
           type == t.endpointTypes[e + 1]
           k == r - type.clusters
           size == t.clusters[r].clusterSize
<1>1. /\ PrefixSum(RowSizes(t, e), type.clusterCount) <= type.size
      /\ PrefixSum(EndpointSizes(t), Len(t.endpointTypes)) <= t.maxSize
  BY DEF SizesFit
<1>2. /\ PrefixSum(RowSizes(t, e), k - 1) \in Nat
      /\ PrefixSum(RowSizes(t, e), k - 1) + size
           <= PrefixSum(RowSizes(t, e), type.clusterCount)
      /\ \A m \in (k + 1)..type.clusterCount :
           PrefixSum(RowSizes(t, e), k - 1) + size <= PrefixSum(RowSizes(t, e), m - 1)
      /\ PrefixSum(RowSizes(t, e), type.clusterCount) \in Nat
  <2>1. /\ type.clusterCount \in Nat
        /\ RowSizes(t, e) \in [1..type.clusterCount -> Nat]
        /\ k \in 1..type.clusterCount
        /\ RowSizes(t, e)[k] = size
    BY SizesType
  <2> HIDE DEF t, type, k, size
  <2> QED
    BY <2>1, Slots
<1>3. /\ PrefixSum(EndpointSizes(t), e) \in Nat
      /\ PrefixSum(EndpointSizes(t), e) + type.size
           <= PrefixSum(EndpointSizes(t), Len(t.endpointTypes))
      /\ \A f \in Endpoints : e < f /\ f + 1 \in 1..Len(t.endpointTypes) =>
           PrefixSum(EndpointSizes(t), e) + type.size <= PrefixSum(EndpointSizes(t), f)
      /\ PrefixSum(EndpointSizes(t), Len(t.endpointTypes)) \in Nat
  <2>1. /\ Len(t.endpointTypes) \in Nat
        /\ EndpointSizes(t) \in [1..Len(t.endpointTypes) -> Nat]
        /\ e + 1 \in 1..Len(t.endpointTypes)
        /\ EndpointSizes(t)[e + 1] = type.size
    BY SizesType
  <2>2. /\ (e + 1) - 1 = e
        /\ \A f \in Endpoints : (f + 1) - 1 = f
        /\ \A f \in Endpoints : e < f /\ f + 1 \in 1..Len(t.endpointTypes)
                                  => f + 1 \in ((e + 1) + 1)..Len(t.endpointTypes)
    BY <2>1 DEF Endpoints
  <2> HIDE DEF t, type
  <2>3. /\ PrefixSum(EndpointSizes(t), e) \in Nat
        /\ PrefixSum(EndpointSizes(t), e) + type.size
             <= PrefixSum(EndpointSizes(t), Len(t.endpointTypes))
        /\ \A m \in ((e + 1) + 1)..Len(t.endpointTypes) :
             PrefixSum(EndpointSizes(t), e) + type.size
               <= PrefixSum(EndpointSizes(t), m - 1)
        /\ PrefixSum(EndpointSizes(t), Len(t.endpointTypes)) \in Nat
    BY <2>1, <2>2, Slots
  <2> QED
    BY <2>2, <2>3
<1>4. /\ k = r - type.clusters
      /\ k - 1 = r - type.clusters - 1
      /\ type.clusters \in Nat /\ type.clusterCount \in Nat /\ type.size \in Nat
      /\ size \in Nat /\ t.maxSize \in Nat /\ k \in 1..type.clusterCount
  BY SizesType
<1>5. /\ EndpointOffset(t, e) = PrefixSum(EndpointSizes(t), e)
      /\ RowOffset(t, e, r)
           = EndpointOffset(t, e) + PrefixSum(RowSizes(t, e), k - 1)
  BY <1>4 DEF EndpointOffset, RowOffset
<1>6. ASSUME NEW q \in Rows(t, e), r < q
      PROVE  RowOffset(t, e, r) + size <= RowOffset(t, e, q)
  <2>1. q - type.clusters \in 1..type.clusterCount
    BY SizesType
  <2>2. q \in (type.clusters + 1)..(type.clusters + type.clusterCount)
    BY DEF Rows
  <2>3. r \in (type.clusters + 1)..(type.clusters + type.clusterCount)
    BY DEF Rows
  <2>4. q - type.clusters \in (k + 1)..type.clusterCount
    BY <1>4, <1>6, <2>1, <2>2, <2>3
  <2>5. PrefixSum(RowSizes(t, e), k - 1) + size
          <= PrefixSum(RowSizes(t, e), q - type.clusters - 1)
    BY <1>2, <2>4
  <2>6. RowOffset(t, e, q) = EndpointOffset(t, e)
                             + PrefixSum(RowSizes(t, e), q - type.clusters - 1)
    BY DEF RowOffset
  <2>7. PrefixSum(RowSizes(t, e), q - type.clusters - 1) \in Nat
    <3>1. /\ type.clusterCount \in Nat
          /\ RowSizes(t, e) \in [1..type.clusterCount -> Nat]
      BY SizesType
    <3> HIDE DEF t, type
    <3> QED
      BY <2>1, <3>1, Slots
  <2> HIDE DEF t, type, k, size
  <2> QED
    BY <1>2, <1>3, <1>4, <1>5, <2>5, <2>6, <2>7
<1>7. ASSUME NEW f \in Endpoints, NEW q \in Rows(t, f), e < f
      PROVE  RowOffset(t, e, r) + size <= EndpointOffset(t, f)
  <2>1. f + 1 \in 1..Len(t.endpointTypes)
    BY SizesType
  <2>2. PrefixSum(EndpointSizes(t), e) + type.size <= PrefixSum(EndpointSizes(t), f)
    BY <1>3, <1>7, <2>1
  <2>3. EndpointOffset(t, f) = PrefixSum(EndpointSizes(t), f)
    BY DEF EndpointOffset
  <2>4. PrefixSum(EndpointSizes(t), f) \in Nat
    <3>1. /\ Len(t.endpointTypes) \in Nat
          /\ EndpointSizes(t) \in [1..Len(t.endpointTypes) -> Nat]
      BY SizesType
    <3>2. (f + 1) - 1 = f
      BY DEF Endpoints
    <3> HIDE DEF t
    <3> QED
      BY <2>1, <3>1, <3>2, Slots
  <2> HIDE DEF t, type, k, size
  <2> QED
    BY <1>1, <1>2, <1>3, <1>4, <1>5, <2>2, <2>3, <2>4
<1>8. /\ RowOffset(t, e, r) \in Nat
      /\ EndpointOffset(t, e) \in Nat
      /\ EndpointOffset(t, e) <= RowOffset(t, e, r)
      /\ RowOffset(t, e, r) + size <= EndpointOffset(t, e) + type.size
      /\ RowOffset(t, e, r) + size <= t.maxSize
  <2> DEFINE place == PrefixSum(EndpointSizes(t), e)
             rows == PrefixSum(RowSizes(t, e), k - 1)
             rowsEnd == PrefixSum(RowSizes(t, e), type.clusterCount)
             end == PrefixSum(EndpointSizes(t), Len(t.endpointTypes))
             stated == type.size
             storage == t.maxSize
  <2>1. /\ place \in Nat /\ rows \in Nat /\ rowsEnd \in Nat /\ end \in Nat
        /\ stated \in Nat /\ storage \in Nat /\ size \in Nat
    BY <1>2, <1>3, <1>4
  <2>2. /\ rows + size <= rowsEnd /\ rowsEnd <= stated
        /\ place + stated <= end /\ end <= storage
    BY <1>1, <1>2, <1>3
  <2>3. EndpointOffset(t, e) = place /\ RowOffset(t, e, r) = place + rows
    BY <1>5
  <2> HIDE DEF place, rows, rowsEnd, end, stated, storage, size
  <2>4. /\ place + rows \in Nat /\ place <= place + rows
        /\ (place + rows) + size <= place + stated
        /\ (place + rows) + size <= storage
    BY <2>1, <2>2
  <2> QED
    BY <2>1, <2>3, <2>4 DEF stated, storage
<1> QED
  BY <1>6, <1>7, <1>8

\* Within a cluster an attribute has the bytes its row states, the attributes
\* one after the other.
LEMMA AttributePlace ==
  ASSUME NEW c \in Configs, SizesFit(c), NEW s \in Servers(c),
         NEW i \in DOMAIN s.attributes
  PROVE  LET t == TablesOf[c]
             size == t.clusters[s.row].clusterSize
         IN  /\ s.endpoint \in Endpoints /\ s.row \in Rows(t, s.endpoint)
             /\ s.attributes = RowAttributes(t, s.row)
             /\ s.attributes[i].bytes \in Nat
             /\ i \in Nat
             /\ Offset(t, s, i) \in Nat
             /\ RowOffset(t, s.endpoint, s.row) <= Offset(t, s, i)
             /\ Offset(t, s, i) + s.attributes[i].bytes
                  <= RowOffset(t, s.endpoint, s.row) + size
             /\ \A j \in DOMAIN s.attributes :
                  i < j => Offset(t, s, i) + s.attributes[i].bytes <= Offset(t, s, j)
<1> DEFINE t == TablesOf[c]
           size == t.clusters[s.row].clusterSize
           sizes == AttributeSizes(t, s.row)
           count == t.clusters[s.row].attributeCount
<1>1. /\ s.endpoint \in Endpoints /\ s.row \in Rows(t, s.endpoint)
      /\ s.attributes = RowAttributes(t, s.row)
  BY DEF Servers, Clusters, ClustersOf
<1>2. /\ size \in Nat /\ count \in Nat
      /\ s.row \in DOMAIN t.clusters
      /\ sizes \in [1..count -> Nat]
      /\ DOMAIN s.attributes = 1..count
      /\ \A j \in DOMAIN s.attributes : sizes[j] = s.attributes[j].bytes
  <2> DEFINE e == s.endpoint
             r == s.row
  <2>1. e \in Endpoints /\ r \in Rows(t, e)
    BY <1>1
  <2> HIDE DEF e, r
  <2>2. /\ t.clusters[r].clusterSize \in Nat
        /\ t.clusters[r].attributeCount \in Nat
        /\ r \in DOMAIN t.clusters
        /\ AttributeSizes(t, r) \in [1..t.clusters[r].attributeCount -> Nat]
        /\ DOMAIN RowAttributes(t, r) = 1..t.clusters[r].attributeCount
        /\ \A j \in DOMAIN RowAttributes(t, r) :
             AttributeSizes(t, r)[j] = RowAttributes(t, r)[j].bytes
    BY <2>1, SizesType, ZenonT(30)
  <2> QED
    BY <1>1, <2>2 DEF r
<1>3. PrefixSum(sizes, count) <= size
  BY <1>2 DEF SizesFit
<1>4. RowOffset(t, s.endpoint, s.row) \in Nat
  BY <1>1, RowPlace
<1>5. \A j \in DOMAIN s.attributes :
        Offset(t, s, j) = RowOffset(t, s.endpoint, s.row) + PrefixSum(sizes, j - 1)
  BY DEF Offset
<1> HIDE DEF t, size, sizes, count
<1>6. /\ PrefixSum(sizes, i - 1) \in Nat
      /\ \A j \in (i + 1)..count : PrefixSum(sizes, i - 1) + sizes[i] <= PrefixSum(sizes, j - 1)
      /\ PrefixSum(sizes, i - 1) + sizes[i] <= PrefixSum(sizes, count)
      /\ PrefixSum(sizes, count) \in Nat
  BY <1>2, Slots
<1>7. sizes[i] = s.attributes[i].bytes /\ sizes[i] \in Nat /\ i \in Nat
  BY <1>2
<1>8. ASSUME NEW j \in DOMAIN s.attributes, i < j
      PROVE  Offset(t, s, i) + s.attributes[i].bytes <= Offset(t, s, j)
  <2>1. PrefixSum(sizes, j - 1) \in Nat
    BY <1>2, Slots
  <2>2. PrefixSum(sizes, i - 1) + sizes[i] <= PrefixSum(sizes, j - 1)
    BY <1>2, <1>6, <1>8
  <2> QED
    BY <1>4, <1>5, <1>6, <1>7, <2>1, <2>2
<1>9. /\ Offset(t, s, i) \in Nat
      /\ RowOffset(t, s.endpoint, s.row) <= Offset(t, s, i)
      /\ Offset(t, s, i) + s.attributes[i].bytes
           <= RowOffset(t, s.endpoint, s.row) + size
  <2> DEFINE row == RowOffset(t, s.endpoint, s.row)
             before == PrefixSum(sizes, i - 1)
             all == PrefixSum(sizes, count)
             n == sizes[i]
  <2>1. row \in Nat /\ before \in Nat /\ all \in Nat /\ n \in Nat /\ size \in Nat
    BY <1>2, <1>4, <1>6, <1>7
  <2>2. before + n <= all /\ all <= size
    BY <1>3, <1>6
  <2>3. Offset(t, s, i) = row + before /\ s.attributes[i].bytes = n
    BY <1>5, <1>7
  <2> HIDE DEF row, before, all, n
  <2>4. /\ row + before \in Nat /\ row <= row + before
        /\ (row + before) + n <= row + size
    BY <2>1, <2>2
  <2> QED
    BY <2>3, <2>4 DEF row
<1> QED
  BY <1>1, <1>7, <1>8, <1>9 DEF t, size

\* A RAM attribute of a data model is one of a server, with the bytes of its
\* place.
Holds(c, a, s, i) ==
  /\ s \in Servers(c) /\ i \in DOMAIN s.attributes
  /\ s.attributes[i].bytes > 0
  /\ a = [config |-> c, endpoint |-> s.endpoint, cluster |-> s.name,
          id |-> s.attributes[i].id,
          bytes |-> Offset(TablesOf[c], s, i)
                      ..(Offset(TablesOf[c], s, i) + s.attributes[i].bytes - 1)]

LEMMA RamHolds ==
  ASSUME NEW c \in Configs, NEW a \in RamOf(c)
  PROVE  /\ a.config = c
         /\ \E s, i : Holds(c, a, s, i)
<1>1. \E s \in Servers(c) : \E i \in DOMAIN s.attributes : Holds(c, a, s, i)
  BY DEF RamOf, Holds
<1> QED
  BY <1>1 DEF Holds

LEMMA HoldsBytes ==
  ASSUME NEW c, NEW a, NEW s, NEW i, Holds(c, a, s, i)
  PROVE  /\ s \in Servers(c) /\ i \in DOMAIN s.attributes
         /\ a.bytes = Offset(TablesOf[c], s, i)
                        ..(Offset(TablesOf[c], s, i) + s.attributes[i].bytes - 1)
BY DEF Holds

\* Each RAM attribute has at least one byte, all of them in the storage.
LEMMA RamPlace ==
  ASSUME NEW c \in Configs, SizesFit(c), NEW a \in RamOf(c)
  PROVE  a.bytes # {} /\ a.bytes \subseteq Storage(c)
<1>1. PICK s, i : Holds(c, a, s, i)
  BY RamHolds
<1> DEFINE first == Offset(TablesOf[c], s, i)
           n == s.attributes[i].bytes
           max == TablesOf[c].maxSize
<1>2. /\ s \in Servers(c) /\ i \in DOMAIN s.attributes
      /\ a.bytes = first..(first + n - 1) /\ n > 0
  BY <1>1 DEF Holds
<1>3. /\ first \in Nat /\ n \in Nat /\ max \in Nat
      /\ first + n <= max
  <2> DEFINE e == s.endpoint
             r == s.row
             row == RowOffset(TablesOf[c], e, r)
             size == TablesOf[c].clusters[r].clusterSize
  <2>1. /\ e \in Endpoints /\ r \in Rows(TablesOf[c], e)
        /\ n \in Nat /\ first \in Nat /\ first + n <= row + size
    BY <1>2, AttributePlace
  <2> HIDE DEF e, r
  <2>2. row \in Nat /\ row + size <= max
    BY <2>1, RowPlace
  <2>3. size \in Nat /\ max \in Nat
    BY <2>1, SizesType
  <2> HIDE DEF row, size, first, n, max
  <2> QED
    BY <2>1, <2>2, <2>3
<1>4. a.bytes \subseteq 0..(max - 1) /\ first \in a.bytes
  <2> HIDE DEF first, n, max
  <2> QED
    BY <1>2, <1>3
<1> QED
  BY <1>4 DEF Storage

\* No byte belongs to two of them.
LEMMA RamDisjoint ==
  ASSUME NEW c \in Configs, SizesFit(c),
         NEW a \in RamOf(c), NEW b \in RamOf(c), a # b
  PROVE  a.bytes \cap b.bytes = {}
<1>1. PICK s, i : Holds(c, a, s, i)
  BY RamHolds
<1>2. PICK u, j : Holds(c, b, u, j)
  BY RamHolds
<1> DEFINE t == TablesOf[c]
           first(x, k) == Offset(t, x, k)
           past(x, k) == Offset(t, x, k) + x.attributes[k].bytes
<1>3. ASSUME NEW x, NEW k, NEW y, NEW l, NEW d, NEW g,
             Holds(c, d, x, k), Holds(c, g, y, l), past(x, k) <= first(y, l)
      PROVE  d.bytes \cap g.bytes = {}
  <2>1. /\ x \in Servers(c) /\ k \in DOMAIN x.attributes
        /\ y \in Servers(c) /\ l \in DOMAIN y.attributes
        /\ d.bytes = first(x, k)..(first(x, k) + x.attributes[k].bytes - 1)
        /\ g.bytes = first(y, l)..(first(y, l) + y.attributes[l].bytes - 1)
    BY <1>3, HoldsBytes
  <2>2. /\ first(x, k) \in Nat /\ x.attributes[k].bytes \in Nat
        /\ first(y, l) \in Nat /\ y.attributes[l].bytes \in Nat
    BY <2>1, AttributePlace
  <2>3. first(x, k) + x.attributes[k].bytes <= first(y, l)
    BY <1>3
  <2> HIDE DEF first, past
  <2> QED
    BY <2>1, <2>2, <2>3
<1>4. ASSUME NEW x, NEW k, NEW y, NEW l, NEW d, NEW g,
             Holds(c, d, x, k), Holds(c, g, y, l), x.endpoint < y.endpoint
      PROVE  past(x, k) <= first(y, l)
  <2>1. /\ x \in Servers(c) /\ k \in DOMAIN x.attributes
        /\ y \in Servers(c) /\ l \in DOMAIN y.attributes
    BY <1>4 DEF Holds
  <2> DEFINE e == x.endpoint
             r == x.row
             f == y.endpoint
             q == y.row
             size == t.clusters[r].clusterSize
  <2>2. /\ e \in Endpoints /\ r \in Rows(t, e)
        /\ f \in Endpoints /\ q \in Rows(t, f)
        /\ first(x, k) \in Nat /\ x.attributes[k].bytes \in Nat
        /\ past(x, k) <= RowOffset(t, e, r) + size
        /\ RowOffset(t, f, q) <= first(y, l) /\ first(y, l) \in Nat
    BY <2>1, AttributePlace
  <2>3. e < f
    BY <1>4
  <2> HIDE DEF e, r, f, q
  <2>4. /\ RowOffset(t, e, r) + size <= EndpointOffset(t, f)
        /\ RowOffset(t, e, r) \in Nat
        /\ EndpointOffset(t, f) <= RowOffset(t, f, q)
        /\ EndpointOffset(t, f) \in Nat /\ RowOffset(t, f, q) \in Nat
    BY <2>2, <2>3, RowPlace
  <2>5. size \in Nat
    BY <2>2, SizesType
  <2>6. past(x, k) \in Nat
    BY <2>2
  <2> HIDE DEF t, first, past, size
  <2> QED
    BY <2>2, <2>4, <2>5, <2>6
<1>5. ASSUME NEW x, NEW k, NEW y, NEW l, NEW d, NEW g,
             Holds(c, d, x, k), Holds(c, g, y, l),
             x.endpoint = y.endpoint, x.row < y.row
      PROVE  past(x, k) <= first(y, l)
  <2>1. /\ x \in Servers(c) /\ k \in DOMAIN x.attributes
        /\ y \in Servers(c) /\ l \in DOMAIN y.attributes
    BY <1>5 DEF Holds
  <2> DEFINE e == x.endpoint
             r == x.row
             q == y.row
             size == t.clusters[r].clusterSize
  <2>2. /\ e \in Endpoints /\ r \in Rows(t, e) /\ q \in Rows(t, e)
        /\ first(x, k) \in Nat /\ x.attributes[k].bytes \in Nat
        /\ past(x, k) <= RowOffset(t, e, r) + size
        /\ RowOffset(t, e, q) <= first(y, l) /\ first(y, l) \in Nat
    BY <1>5, <2>1, AttributePlace
  <2>3. r < q
    BY <1>5
  <2> HIDE DEF e, r, q
  <2>4. /\ RowOffset(t, e, r) + size <= RowOffset(t, e, q)
        /\ RowOffset(t, e, r) \in Nat /\ RowOffset(t, e, q) \in Nat
    BY <2>2, <2>3, RowPlace
  <2>5. size \in Nat
    BY <2>2, SizesType
  <2>6. past(x, k) \in Nat
    BY <2>2
  <2> HIDE DEF t, first, past, size
  <2> QED
    BY <2>2, <2>4, <2>5, <2>6
<1>6. ASSUME NEW x, NEW k, NEW l, NEW d, NEW g,
             Holds(c, d, x, k), Holds(c, g, x, l), k < l
      PROVE  past(x, k) <= first(x, l)
  <2>1. /\ x \in Servers(c) /\ k \in DOMAIN x.attributes
        /\ l \in DOMAIN x.attributes
    BY <1>6 DEF Holds
  <2> QED
    BY <1>6, <2>1, AttributePlace
<1>7. /\ s \in Servers(c) /\ i \in DOMAIN s.attributes
      /\ u \in Servers(c) /\ j \in DOMAIN u.attributes
  BY <1>1, <1>2 DEF Holds
<1>8. /\ s.endpoint \in Nat /\ u.endpoint \in Nat
      /\ s.row \in Nat /\ u.row \in Nat
      /\ i \in Nat /\ j \in Nat
  <2>1. \A x \in Servers(c) : x.endpoint \in Endpoints /\ x.row \in DOMAIN t.clusters
    <3> SUFFICES ASSUME NEW x \in Servers(c)
                 PROVE  x.endpoint \in Endpoints /\ x.row \in DOMAIN t.clusters
      OBVIOUS
    <3>1. x.endpoint \in Endpoints /\ x.row \in Rows(t, x.endpoint)
      BY DEF Servers, Clusters, ClustersOf
    <3>2. Rows(t, x.endpoint) \subseteq DOMAIN t.clusters
      BY <3>1, TablesAssumption
    <3> QED
      BY <3>1, <3>2
  <2>2. /\ DOMAIN t.clusters = 1..Len(t.clusters)
        /\ Len(t.clusters) \in Nat
    BY TablesAssumption
  <2>3. i \in Nat /\ j \in Nat
    BY <1>7, AttributePlace
  <2>4. /\ s.row \in 1..Len(t.clusters) /\ u.row \in 1..Len(t.clusters)
        /\ s.endpoint \in 0..1 /\ u.endpoint \in 0..1
    BY <1>7, <2>1, <2>2 DEF Endpoints
  <2> HIDE DEF t
  <2> QED
    BY <2>2, <2>3, <2>4
<1>9. ASSUME s.endpoint = u.endpoint, s.row = u.row
      PROVE  s = u
  BY <1>7, <1>9 DEF Servers, Clusters, ClustersOf
<1>10. s = u => i # j
  BY <1>1, <1>2 DEF Holds
<1> HIDE DEF t, first, past
<1>11. CASE s.endpoint # u.endpoint
  <2>1. s.endpoint < u.endpoint \/ u.endpoint < s.endpoint
    BY <1>8, <1>11
  <2> QED
    BY <1>1, <1>2, <1>3, <1>4, <2>1
<1>12. CASE s.endpoint = u.endpoint /\ s.row # u.row
  <2>1. s.row < u.row \/ u.row < s.row
    BY <1>8, <1>12
  <2> QED
    BY <1>1, <1>2, <1>3, <1>5, <1>12, <2>1
<1>13. CASE s = u
  <2>1. i < j \/ j < i
    BY <1>8, <1>10, <1>13
  <2> QED
    BY <1>1, <1>2, <1>3, <1>6, <1>13, <2>1
<1> QED
  BY <1>9, <1>11, <1>12, <1>13

-----------------------------------------------------------------------------
(* Types.                                                                  *)

\* Each row of the tables is one cluster of one endpoint.
LEMMA ClusterRows ==
  ASSUME NEW c \in Configs
  PROVE  LET last == Len(TablesOf[c].clusters)
         IN  /\ last \in Nat \ {0}
             /\ \A s \in Clusters[c] : /\ s.endpoint \in Endpoints
                                       /\ s.row \in 1..last
                                       /\ s.server \in BOOLEAN
             /\ \A s, u \in Clusters[c] : s.row = u.row => s = u
             /\ \A r \in 1..last : \E s \in Clusters[c] : s.row = r
<1> DEFINE t == TablesOf[c]
           last == Len(t.clusters)
           entry(e, r) == [endpoint |-> e, row |-> r, name |-> t.clusters[r].cluster,
                           server |-> t.clusters[r].server,
                           attributes |-> RowAttributes(t, r),
                           accepted |-> Accepted(t, r)]
<1>1. /\ last \in Nat \ {0} /\ DOMAIN t.clusters = 1..last
      /\ \A e \in Endpoints : Rows(t, e) \subseteq DOMAIN t.clusters
      /\ \A e \in Endpoints : \A f \in Endpoints \ {e} :
           Rows(t, e) \cap Rows(t, f) = {}
      /\ \A r \in DOMAIN t.clusters : \E e \in Endpoints : r \in Rows(t, e)
      /\ \A r \in DOMAIN t.clusters : t.clusters[r].server \in BOOLEAN
  BY TablesAssumption
<1>2. \A s \in Clusters[c] :
        \E e \in Endpoints : \E r \in Rows(t, e) : s = entry(e, r)
  BY DEF Clusters, ClustersOf
<1>3. \A e \in Endpoints : \A r \in Rows(t, e) : entry(e, r) \in Clusters[c]
  BY DEF Clusters, ClustersOf
<1>4. \A e, r : /\ entry(e, r).endpoint = e /\ entry(e, r).row = r
                /\ entry(e, r).server = t.clusters[r].server
  OBVIOUS
<1> HIDE DEF t, last, entry
<1>5. \A s \in Clusters[c] : /\ s.endpoint \in Endpoints
                             /\ s.row \in 1..last
                             /\ s.server \in BOOLEAN
  BY <1>1, <1>2, <1>4
<1>6. ASSUME NEW s \in Clusters[c], NEW u \in Clusters[c], s.row = u.row
      PROVE  s = u
  <2>1. PICK e, r : e \in Endpoints /\ r \in Rows(t, e) /\ s = entry(e, r)
    BY <1>2
  <2>2. PICK f, q : f \in Endpoints /\ q \in Rows(t, f) /\ u = entry(f, q)
    BY <1>2
  <2>3. r = q
    BY <1>4, <1>6, <2>1, <2>2
  <2>4. e = f
    BY <1>1, <2>1, <2>2, <2>3
  <2> QED
    BY <2>1, <2>2, <2>3, <2>4
<1>7. \A r \in 1..last : \E s \in Clusters[c] : s.row = r
  BY <1>1, <1>3, <1>4
<1> QED
  BY <1>1, <1>5, <1>6, <1>7 DEF last, t

\* The cluster whose turn it is is the one of its row.
LEMMA TurnOfRow ==
  ASSUME config \in Configs, next \in 1..LastRow
  PROVE  /\ Turn \in Clusters[config] /\ Turn.row = next
         /\ Turn.endpoint \in Endpoints /\ Turn.server \in BOOLEAN
         /\ \A s \in Clusters[config] : s.row = next => s = Turn
<1>1. \E s \in Clusters[config] : s.row = next
  BY ClusterRows DEF LastRow
<1>2. Turn \in Clusters[config] /\ Turn.row = next
  BY <1>1 DEF Turn
<1> HIDE DEF Turn
<1> QED
  BY <1>2, ClusterRows

\* TypeOK but for the storage: it holds of any tables.
ControlTypeOK ==
  /\ config \in Configs
  /\ phase \in {"clusters", "plugins", "serving", "shutdown", "off"}
  /\ next \in 1..LastRow
  /\ running \subseteq Endpoints \X InitCases
  /\ plugged \in {{}, PluginsInit}
  /\ writes \in 0..MaxWrites

LEMMA LastRowType ==
  ASSUME config \in Configs
  PROVE  LastRow \in Nat /\ 1 \in 1..LastRow
<1>1. LastRow \in Nat \ {0}
  BY ClusterRows DEF LastRow
<1> QED
  BY <1>1

LEMMA HandleUnchanged ==
  ASSUME NEW req, Handle(req)
  PROVE  /\ UNCHANGED <<config, phase, next, running, plugged, memory, writes>>
         /\ phase = "serving" /\ answer = None
BY DEF Handle, RefuseUnknown, RefuseAccess, InvokeOnInstance, InvokeByDispatch,
       Read, Write, Answer

LEMMA ControlInit ==
  Init => ControlTypeOK
<1> SUFFICES ASSUME Init PROVE ControlTypeOK
  OBVIOUS
<1>1. config \in Configs
  BY DEF Init
<1>2. next \in 1..LastRow
  BY <1>1, LastRowType DEF Init
<1> QED
  BY <1>1, <1>2, WritesAssumption DEF Init, ControlTypeOK

LEMMA ControlStep ==
  ControlTypeOK /\ [Next]_vars => ControlTypeOK' /\ config' = config
<1> SUFFICES ASSUME ControlTypeOK, [Next]_vars
             PROVE  ControlTypeOK' /\ config' = config
  OBVIOUS
<1>1. config' = config
  BY HandleUnchanged
     DEF Next, vars, InitCluster, InitPlugins, BeginShutdown, ShutdownCluster,
         Reboot, WriteAttribute, Reply
<1>2. LastRow' = LastRow
  BY <1>1 DEF LastRow
<1>3. /\ LastRow \in Nat /\ 1 \in 1..LastRow
      /\ next # LastRow => next + 1 \in 1..LastRow
  BY LastRowType DEF ControlTypeOK
<1>4. Turn.endpoint \in Endpoints
  BY TurnOfRow DEF ControlTypeOK
<1>5. CASE InitCluster
  <2>1. running' \subseteq Endpoints \X InitCases
    BY <1>4, <1>5 DEF InitCluster, Start, ControlTypeOK
  <2> QED
    BY <1>1, <1>2, <1>3, <1>5, <2>1 DEF InitCluster, ControlTypeOK
<1>6. CASE InitPlugins
  BY <1>1, <1>2, <1>3, <1>6 DEF InitPlugins, ControlTypeOK
<1>7. CASE BeginShutdown
  BY <1>1, <1>2, <1>3, <1>7 DEF BeginShutdown, ControlTypeOK
<1>8. CASE ShutdownCluster
  <2>1. running' \subseteq Endpoints \X InitCases
    BY <1>8 DEF ShutdownCluster, Stop, ControlTypeOK
  <2> QED
    BY <1>1, <1>2, <1>3, <1>8, <2>1 DEF ShutdownCluster, ControlTypeOK
<1>9. CASE Reboot
  BY <1>1, <1>2, <1>3, <1>9, WritesAssumption DEF Reboot, ControlTypeOK
<1>10. CASE WriteAttribute
  <2>1. writes' \in 0..MaxWrites
    BY <1>10, WritesAssumption DEF WriteAttribute, ControlTypeOK
  <2> QED
    BY <1>1, <1>2, <1>10, <2>1 DEF WriteAttribute, ControlTypeOK
<1>11. ASSUME NEW req \in Requests[config], Handle(req)
       PROVE  ControlTypeOK'
  BY <1>1, <1>2, <1>11, HandleUnchanged DEF ControlTypeOK
<1>12. CASE Reply
  BY <1>1, <1>2, <1>12 DEF Reply, ControlTypeOK
<1>13. CASE UNCHANGED vars
  BY <1>1, <1>2, <1>13 DEF vars, ControlTypeOK
<1> QED
  BY <1>1, <1>5, <1>6, <1>7, <1>8, <1>9, <1>10, <1>11, <1>12, <1>13 DEF Next

THEOREM Spec_ControlTypeOK == Spec => []ControlTypeOK
BY ControlInit, ControlStep, PTL DEF Spec

\* A write of a RAM attribute stays inside the storage, whatever the tables,
\* if their sizes fit: the array the engine keeps never has a byte of another
\* object behind it written.
LEMMA MemoryStep ==
  ASSUME \A c \in Configs : SizesFit(c)
  PROVE  TypeOK /\ [Next]_vars => (memory \in [Storage(config) -> Values])'
<1> SUFFICES ASSUME TypeOK, [Next]_vars
             PROVE  memory' \in [Storage(config') -> Values]
  OBVIOUS
<1>1. config \in Configs /\ memory \in [Storage(config) -> Values]
  BY DEF TypeOK
<1>2. CASE WriteAttribute
  <2>1. PICK a \in RamAttributes[config], v \in Values :
          memory' = [b \in DOMAIN memory \cup a.bytes |->
                       IF b \in a.bytes THEN v ELSE memory[b]]
    BY <1>2 DEF WriteAttribute
  <2>2. a \in RamOf(config)
    BY <1>1 DEF RamAttributes
  <2>3. a.bytes \subseteq Storage(config)
    BY <1>1, <2>2, RamPlace
  <2>4. DOMAIN memory \cup a.bytes = Storage(config)
    BY <1>1, <2>3
  <2>5. config' = config
    BY <1>2 DEF WriteAttribute
  <2> QED
    BY <1>1, <2>1, <2>4, <2>5
<1>3. CASE Reboot
  BY <1>1, <1>3 DEF Reboot, Values
<1>4. CASE UNCHANGED <<config, memory>>
  BY <1>1, <1>4
<1>5. UNCHANGED <<config, memory>> \/ Reboot \/ WriteAttribute
  BY HandleUnchanged
     DEF Next, vars, InitCluster, InitPlugins, BeginShutdown, ShutdownCluster,
         Reply
<1> QED
  BY <1>2, <1>3, <1>4, <1>5

\* Type correctness, with all writes inside the storage.
THEOREM Spec_TypeOK ==
  ASSUME \A c \in Configs : SizesFit(c)
  PROVE  Spec => []TypeOK
<1>1. TypeOK <=> ControlTypeOK /\ memory \in [Storage(config) -> Values]
  BY DEF TypeOK, ControlTypeOK
<1>2. Init => TypeOK
  <2>1. Init => memory \in [Storage(config) -> Values]
    BY DEF Init, Values
  <2> QED
    BY <1>1, <2>1, ControlInit
<1>3. TypeOK /\ [Next]_vars => TypeOK'
  <2>1. TypeOK' <=> ControlTypeOK' /\ (memory \in [Storage(config) -> Values])'
    BY DEF TypeOK, ControlTypeOK
  <2> QED
    BY <1>1, <2>1, ControlStep, MemoryStep
<1> QED
  BY <1>2, <1>3, PTL DEF Spec

-----------------------------------------------------------------------------
(* The storage is one register per RAM attribute.                          *)

\* All registers hold the default when the bytes of the storage are 0.
LEMMA ContentAtBoot ==
  ASSUME \A c \in Configs : SizesFit(c), config \in Configs,
         memory = [b \in Storage(config) |-> 0],
         NEW a \in AllRamAttributes
  PROVE  Content(a) = 0
<1>1. PICK c \in Configs : a \in RamOf(c)
  BY DEF AllRamAttributes, RamAttributes
<1>2. a.config = c /\ a.bytes \subseteq Storage(c)
  BY <1>1, RamHolds, RamPlace
<1> QED
  BY <1>2 DEF Content

\* A write gives the attribute it names the value, and no other attribute's
\* bytes are touched.
LEMMA ContentAfterWrite ==
  ASSUME \A c \in Configs : SizesFit(c), config \in Configs, config' = config,
         memory \in [Storage(config) -> Values],
         NEW w \in RamOf(config), NEW v \in Values,
         memory' = [b \in DOMAIN memory \cup w.bytes |->
                      IF b \in w.bytes THEN v ELSE memory[b]],
         NEW a \in AllRamAttributes
  PROVE  Content(a)' = IF a = w THEN v ELSE Content(a)
<1>1. PICK c \in Configs : a \in RamOf(c)
  BY DEF AllRamAttributes, RamAttributes
<1>2. a.config = c
  BY <1>1, RamHolds
<1>3. /\ w.config = config /\ w.bytes # {}
      /\ \A b \in w.bytes : memory'[b] = v
  BY RamHolds, RamPlace
<1>4. CASE a = w
  BY <1>3, <1>4 DEF Content, Values
<1>5. CASE a # w /\ a.config = config
  <2>1. a.bytes \cap w.bytes = {} /\ a.bytes \subseteq Storage(config)
    BY <1>1, <1>2, <1>5, RamPlace, RamDisjoint
  <2>2. \A b \in a.bytes : memory'[b] = memory[b]
    BY <2>1
  <2> QED
    BY <1>5, <2>2 DEF Content
<1>6. CASE a.config # config
  BY <1>3, <1>6 DEF Content
<1> QED
  BY <1>4, <1>5, <1>6

LEMMA RegistersInit ==
  ASSUME \A c \in Configs : SizesFit(c)
  PROVE  Init => Registers!Init
<1> SUFFICES ASSUME Init PROVE Registers!Init
  OBVIOUS
<1>1. \A a \in AllRamAttributes : Content(a) = 0
  BY ContentAtBoot DEF Init
<1> QED
  BY <1>1 DEF Registers!Init

LEMMA RegistersStep ==
  ASSUME \A c \in Configs : SizesFit(c)
  PROVE  TypeOK /\ [Next]_vars
           => [Registers!Next]_([a \in AllRamAttributes |-> Content(a)])
<1> DEFINE registers == [a \in AllRamAttributes |-> Content(a)]
<1> SUFFICES ASSUME TypeOK, [Next]_vars
             PROVE  Registers!Next \/ registers' = registers
  OBVIOUS
<1>1. config \in Configs /\ memory \in [Storage(config) -> Values]
  BY DEF TypeOK
<1>2. CASE WriteAttribute
  <2>1. PICK w \in RamAttributes[config], v \in Values :
          memory' = [b \in DOMAIN memory \cup w.bytes |->
                       IF b \in w.bytes THEN v ELSE memory[b]]
    BY <1>2 DEF WriteAttribute
  <2>2. w \in RamOf(config) /\ w \in AllRamAttributes
    BY <1>1 DEF RamAttributes, AllRamAttributes
  <2>3. config' = config
    BY <1>2 DEF WriteAttribute
  <2>4. \A a \in AllRamAttributes :
          Content(a)' = IF a = w THEN v ELSE Content(a)
    BY <1>1, <2>1, <2>2, <2>3, ContentAfterWrite
  <2>5. registers' = [registers EXCEPT ![w] = v]
    BY <2>2, <2>4
  <2>6. Registers!Write(w, v)
    BY <2>5 DEF Registers!Write
  <2> QED
    BY <2>2, <2>6 DEF Registers!Next
<1>3. CASE Reboot
  <2>1. config' \in Configs /\ memory' = [b \in Storage(config') |-> 0]
    BY <1>1, <1>3 DEF Reboot
  <2>2. \A a \in AllRamAttributes : Content(a)' = 0
    <3> SUFFICES ASSUME NEW a \in AllRamAttributes
                 PROVE  Content(a)' = 0
      OBVIOUS
    <3>1. PICK c \in Configs : a \in RamOf(c)
      BY DEF AllRamAttributes, RamAttributes
    <3>2. a.config = c /\ a.bytes \subseteq Storage(c)
      BY <3>1, RamHolds, RamPlace
    <3> QED
      BY <2>1, <3>2 DEF Content
  <2>3. Registers!Boot
    BY <2>2 DEF Registers!Boot
  <2> QED
    BY <2>3 DEF Registers!Next
<1>4. CASE UNCHANGED <<config, memory>>
  <2>1. \A a \in AllRamAttributes : Content(a)' = Content(a)
    BY <1>4 DEF Content
  <2> QED
    BY <2>1
<1>5. UNCHANGED <<config, memory>> \/ Reboot \/ WriteAttribute
  BY HandleUnchanged
     DEF Next, vars, InitCluster, InitPlugins, BeginShutdown, ShutdownCluster,
         Reply
<1> QED
  BY <1>2, <1>3, <1>4, <1>5

\* The sizes and counts of endpoint_config.h, as far as they fit, make the
\* storage one register per RAM attribute: a write of a server changes the
\* attribute it names, wholly, and no other, and a boot resets them all.
THEOREM Spec_Registers ==
  ASSUME \A c \in Configs : SizesFit(c)
  PROVE  Spec => RegistersSpec
<1>1. Spec => []TypeOK
  BY Spec_TypeOK
<1> QED
  BY <1>1, RegistersInit, RegistersStep, PTL DEF Spec, RegistersSpec, Registers!Spec

-----------------------------------------------------------------------------
(* Start and shutdown.                                                     *)

\* The instances of the servers of some rows of the data model.
InstancesOf(rows) ==
  {<<s.endpoint, s.name>> : s \in {x \in Servers(config) : x.row \in rows}}

\* Row by row the start creates the instances of the servers it has a case
\* for, the shutdown removes them; in between they all run.
StartInv ==
  /\ phase = "clusters" =>
       running = {p \in InstancesOf(1..(next - 1)) : p[2] \in InitCases}
  /\ phase \in {"plugins", "serving"} =>
       running = {p \in InstancesOf(1..LastRow) : p[2] \in InitCases}
  /\ phase = "serving" => plugged = PluginsInit

ShutdownInv ==
  /\ phase \in {"clusters", "plugins", "serving"} =>
       running \subseteq InstancesOf(1..LastRow)
  /\ phase \in {"plugins", "serving"} => next = 1
  /\ phase = "shutdown" => running \subseteq InstancesOf(next..LastRow)
  /\ phase = "off" => running = {}

LEMMA InstancesOfRows ==
  ASSUME config \in Configs, NEW r \in 1..LastRow,
         NEW rows \in SUBSET (1..LastRow)
  PROVE  /\ \A s \in Clusters[config] : s.row = r =>
              InstancesOf(rows \cup {r})
                = InstancesOf(rows) \cup
                  IF s.server THEN {<<s.endpoint, s.name>>} ELSE {}
         /\ InstancesOf({}) = {}
<1>1. \A s, u \in Clusters[config] : s.row = u.row => s = u
  BY ClusterRows
<1> QED
  BY <1>1 DEF InstancesOf, Servers

LEMMA ShutdownInvInit ==
  Init => ShutdownInv
BY DEF Init, ShutdownInv

LEMMA ShutdownInvStep ==
  ControlTypeOK /\ ShutdownInv /\ [Next]_vars => ShutdownInv'
<1> SUFFICES ASSUME ControlTypeOK, ShutdownInv, [Next]_vars
             PROVE  ShutdownInv'
  OBVIOUS
<1>1. config \in Configs /\ next \in 1..LastRow /\ LastRow \in Nat
  BY LastRowType DEF ControlTypeOK
<1>2. config' = config /\ LastRow' = LastRow
  BY ControlStep DEF LastRow
<1>3. \A rows : InstancesOf(rows)' = InstancesOf(rows)
  BY <1>2 DEF InstancesOf
<1>4. /\ Turn \in Clusters[config] /\ Turn.row = next /\ Turn.server \in BOOLEAN
  BY <1>1, TurnOfRow
<1>5. CASE InitCluster
  <2>1. phase = "clusters" /\ running \subseteq InstancesOf(1..LastRow)
    BY <1>5 DEF InitCluster, ShutdownInv
  <2>2. Turn.server => <<Turn.endpoint, Turn.name>> \in InstancesOf(1..LastRow)
    BY <1>1, <1>4 DEF InstancesOf, Servers
  <2>3. running' \subseteq InstancesOf(1..LastRow)
    BY <1>4, <1>5, <2>1, <2>2 DEF InitCluster, Start
  <2>4. /\ phase' \in {"clusters", "plugins"}
        /\ phase' = "plugins" => next' = 1
    BY <1>5, <2>1 DEF InitCluster
  <2> QED
    BY <1>2, <1>3, <2>3, <2>4 DEF ShutdownInv
<1>6. CASE InitPlugins
  BY <1>2, <1>3, <1>6 DEF InitPlugins, ShutdownInv
<1>7. CASE BeginShutdown
  <2>1. /\ phase' = "shutdown" /\ next' = 1
        /\ running' \subseteq InstancesOf(1..LastRow)
    BY <1>7 DEF BeginShutdown, ShutdownInv
  <2> QED
    BY <1>2, <1>3, <2>1 DEF ShutdownInv
<1>8. CASE ShutdownCluster
  <2>1. phase = "shutdown" /\ running \subseteq InstancesOf(next..LastRow)
    BY <1>8 DEF ShutdownCluster, ShutdownInv
  <2>2. /\ next..LastRow = ((next + 1)..LastRow) \cup {next}
        /\ (next + 1)..LastRow \in SUBSET (1..LastRow)
    BY <1>1
  <2>3. InstancesOf(next..LastRow)
          = InstancesOf((next + 1)..LastRow) \cup
            IF Turn.server THEN {<<Turn.endpoint, Turn.name>>} ELSE {}
    BY <1>1, <1>4, <2>2, InstancesOfRows
  <2>4. running' \subseteq InstancesOf((next + 1)..LastRow)
    <3>1. CASE Turn.server /\ Turn.name \in ShutdownCases
      <4>1. running' = running \ {<<Turn.endpoint, Turn.name>>}
        BY <1>8, <3>1 DEF ShutdownCluster, Stop
      <4> QED
        BY <2>1, <2>3, <3>1, <4>1
    <3>2. CASE ~Turn.server
      <4>1. running' = running
        BY <1>8, <3>2 DEF ShutdownCluster
      <4> QED
        BY <2>1, <2>3, <3>2, <4>1
    <3>3. CASE Turn.server /\ Turn.name \notin ShutdownCases
      <4>1. running' = running
        BY <1>8, <3>3 DEF ShutdownCluster, Stop
      <4>2. Turn.name \notin InitCases
        BY <3>3 DEF InitCases, ShutdownCases
      <4>3. <<Turn.endpoint, Turn.name>> \notin running
        BY <4>2 DEF ControlTypeOK
      <4> QED
        BY <2>1, <2>3, <3>3, <4>1, <4>3
    <3> QED
      BY <1>4, <3>1, <3>2, <3>3
  <2>5. CASE next = LastRow
    <3>1. (next + 1)..LastRow = {}
      BY <1>1, <2>5
    <3>2. InstancesOf((next + 1)..LastRow) = {}
      BY <1>1, <3>1, InstancesOfRows
    <3>3. phase' = "off"
      BY <1>8, <2>5 DEF ShutdownCluster
    <3> QED
      BY <2>4, <3>2, <3>3 DEF ShutdownInv
  <2>6. CASE next # LastRow
    <3>1. phase' = "shutdown" /\ next' = next + 1
      BY <1>8, <2>1, <2>6 DEF ShutdownCluster
    <3> QED
      BY <1>2, <1>3, <2>4, <3>1 DEF ShutdownInv
  <2> QED
    BY <2>5, <2>6
<1>9. CASE Reboot
  BY <1>9 DEF Reboot, ShutdownInv
<1>10. CASE UNCHANGED <<phase, next, running>>
  BY <1>2, <1>3, <1>10 DEF ShutdownInv
<1>11. \/ InitCluster \/ InitPlugins \/ BeginShutdown \/ ShutdownCluster
       \/ Reboot \/ UNCHANGED <<phase, next, running>>
  BY HandleUnchanged DEF Next, vars, WriteAttribute, Reply
<1> QED
  BY <1>5, <1>6, <1>7, <1>8, <1>9, <1>10, <1>11

\* After a shutdown nothing the start created is left, whatever the tables:
\* the two switches of CodeDrivenInitShutdown.cpp have the same cases.
THEOREM Spec_NoneLeftRunning == Spec => []NoneLeftRunning
<1>1. Spec => []ShutdownInv
  BY ControlInit, ControlStep, ShutdownInvInit, ShutdownInvStep, PTL DEF Spec
<1>2. ShutdownInv => NoneLeftRunning
  BY DEF ShutdownInv, NoneLeftRunning
<1> QED
  BY <1>1, <1>2, PTL

\* A server with a case has a place for each of its endpoints: when its turn
\* comes the places are not all taken.
LEMMA PlaceLeft ==
  ASSUME ControlTypeOK, ServersCounted(config), StartInv, phase = "clusters",
         Turn.server, Turn.name \in InitCases
  PROVE  Cardinality({s \in running : s[2] = Turn.name})
           < ServerEndpointCount[Turn.name]
<1> DEFINE name == Turn.name
           this == <<Turn.endpoint, Turn.name>>
           taken == {s \in running : s[2] = name}
           all == Instances(config, name)
<1>1. config \in Configs /\ next \in 1..LastRow /\ LastRow \in Nat
  BY LastRowType DEF ControlTypeOK
<1>2. Turn \in Clusters[config] /\ Turn.row = next /\ Turn \in Servers(config)
  BY <1>1, TurnOfRow DEF Servers
<1>3. running = {p \in InstancesOf(1..(next - 1)) : p[2] \in InitCases}
  BY DEF StartInv
<1>4. ASSUME NEW p \in taken
      PROVE  p \in all \ {this}
  <2>1. PICK s \in Servers(config) :
          s.row \in 1..(next - 1) /\ p = <<s.endpoint, s.name>>
    BY <1>3 DEF InstancesOf
  <2>2. s.name = name
    BY <2>1
  <2>3. p \in all
    BY <2>1, <2>2 DEF Instances
  <2>4. s # Turn
    BY <1>1, <1>2, <2>1
  <2>5. s.endpoint # Turn.endpoint
    BY <1>2, <2>2, <2>4 DEF ServersCounted
  <2> QED
    BY <2>1, <2>3, <2>5
<1>5. this \in all
  BY <1>2 DEF Instances
<1>6. IsFiniteSet(all)
  <2>1. all \subseteq {<<0, name>>, <<1, name>>}
    <3>1. \A s \in Servers(config) : s.endpoint \in 0..1
      BY <1>1, ClusterRows DEF Servers, Endpoints
    <3> HIDE DEF name
    <3> QED
      BY <3>1 DEF Instances
  <2>2. IsFiniteSet({<<0, name>>, <<1, name>>})
    <3> DEFINE zero == <<0, name>>
               one == <<1, name>>
    <3>1. IsFiniteSet({zero}) /\ IsFiniteSet({one})
      BY FS_Singleton
    <3>2. {zero, one} = {zero} \cup {one}
      OBVIOUS
    <3> HIDE DEF zero, one
    <3>3. IsFiniteSet({zero, one})
      BY <3>1, <3>2, FS_Union
    <3> QED
      BY <3>3 DEF zero, one
  <2> QED
    BY <2>1, <2>2, FS_Subset
<1>7. Cardinality(all) <= ServerEndpointCount[name]
  BY DEF ServersCounted
<1>8. ServerEndpointCount[name] \in Nat
  BY DEF ServerEndpointCount, InitCases, PluginsInit
<1> HIDE DEF all, this, taken
<1>9. /\ Cardinality(all \ {this}) = Cardinality(all) - 1
      /\ IsFiniteSet(all \ {this}) /\ Cardinality(all) \in Nat
  BY <1>5, <1>6, FS_RemoveElement, FS_CardinalityType
<1>10. Cardinality(taken) <= Cardinality(all \ {this}) /\ Cardinality(taken) \in Nat
  <2>1. taken \subseteq all \ {this}
    BY <1>4
  <2> QED
    BY <1>9, <2>1, FS_Subset, FS_CardinalityType
<1> HIDE DEF name
<1>11. Cardinality(taken) < ServerEndpointCount[name]
  BY <1>7, <1>8, <1>9, <1>10
<1> QED
  BY <1>11 DEF taken, name

LEMMA StartInvInit ==
  Init => StartInv
<1> SUFFICES ASSUME Init PROVE StartInv
  OBVIOUS
<1>1. 1..(next - 1) = {}
  BY DEF Init
<1>2. InstancesOf({}) = {}
  BY DEF InstancesOf
<1> QED
  BY <1>1, <1>2 DEF Init, StartInv

LEMMA StartInvStep ==
  ASSUME \A c \in Configs : ServersCounted(c)
  PROVE  ControlTypeOK /\ ShutdownInv /\ StartInv /\ [Next]_vars => StartInv'
<1> SUFFICES ASSUME ControlTypeOK, ShutdownInv, StartInv, [Next]_vars
             PROVE  StartInv'
  OBVIOUS
<1>1. config \in Configs /\ next \in 1..LastRow /\ LastRow \in Nat
  BY LastRowType DEF ControlTypeOK
<1>2. config' = config /\ LastRow' = LastRow
  BY ControlStep DEF LastRow
<1>3. \A rows : InstancesOf(rows)' = InstancesOf(rows)
  BY <1>2 DEF InstancesOf
<1>4. CASE InitCluster
  <2> DEFINE this == <<Turn.endpoint, Turn.name>>
  <2>1. phase = "clusters"
    BY <1>4 DEF InitCluster
  <2>2. running = {p \in InstancesOf(1..(next - 1)) : p[2] \in InitCases}
    BY <2>1 DEF StartInv
  <2>3. /\ 1..next = (1..(next - 1)) \cup {next}
        /\ 1..(next - 1) \in SUBSET (1..LastRow)
    BY <1>1
  <2>4. Turn \in Clusters[config] /\ Turn.row = next /\ Turn.server \in BOOLEAN
    BY <1>1, TurnOfRow
  <2>5. InstancesOf(1..next)
          = InstancesOf(1..(next - 1)) \cup IF Turn.server THEN {this} ELSE {}
    BY <1>1, <2>3, <2>4, InstancesOfRows
  <2>6. running' = IF Turn.server /\ Turn.name \in InitCases
                   THEN running \cup {this} ELSE running
    <3>1. Turn.server /\ Turn.name \in InitCases =>
            Cardinality({s \in running : s[2] = Turn.name})
              < ServerEndpointCount[Turn.name]
      BY <1>1, <2>1, PlaceLeft
    <3> QED
      BY <1>4, <3>1 DEF InitCluster, Start
  <2>7. this[2] = Turn.name
    OBVIOUS
  <2> HIDE DEF this
  <2>8. running' = {p \in InstancesOf(1..next) : p[2] \in InitCases}
    <3>1. CASE Turn.server /\ Turn.name \in InitCases
      BY <2>2, <2>5, <2>6, <2>7, <3>1
    <3>2. CASE Turn.server /\ Turn.name \notin InitCases
      BY <2>2, <2>5, <2>6, <2>7, <3>2
    <3>3. CASE ~Turn.server
      BY <2>2, <2>5, <2>6, <3>3
    <3> QED
      BY <2>4, <3>1, <3>2, <3>3
  <2>9. CASE next = LastRow
    <3>1. phase' = "plugins"
      BY <1>4, <2>9 DEF InitCluster
    <3> QED
      BY <1>2, <1>3, <2>8, <2>9, <3>1 DEF StartInv
  <2>10. CASE next # LastRow
    <3>1. phase' = "clusters" /\ next' = next + 1
      BY <1>4, <2>1, <2>10 DEF InitCluster
    <3>2. next' - 1 = next
      BY <1>1, <3>1
    <3> QED
      BY <1>3, <2>8, <3>1, <3>2 DEF StartInv
  <2> QED
    BY <2>9, <2>10
<1>5. CASE InitPlugins
  BY <1>2, <1>3, <1>5 DEF InitPlugins, StartInv
<1>6. CASE BeginShutdown \/ ShutdownCluster
  <2>1. phase' \in {"shutdown", "off"}
    BY <1>6 DEF BeginShutdown, ShutdownCluster
  <2> QED
    BY <2>1 DEF StartInv
<1>7. CASE Reboot
  <2>1. phase' = "clusters" /\ next' = 1 /\ running' = {}
    BY <1>7 DEF Reboot
  <2>2. 1..(next' - 1) = {}
    BY <2>1
  <2>3. InstancesOf(1..(next - 1))' = {}
    BY <2>2 DEF InstancesOf
  <2> QED
    BY <2>1, <2>3 DEF StartInv
<1>8. CASE UNCHANGED <<phase, next, running, plugged>>
  BY <1>2, <1>3, <1>8 DEF StartInv
<1>9. \/ InitCluster \/ InitPlugins \/ BeginShutdown \/ ShutdownCluster
      \/ Reboot \/ UNCHANGED <<phase, next, running, plugged>>
  BY HandleUnchanged DEF Next, vars, WriteAttribute, Reply
<1> QED
  BY <1>4, <1>5, <1>6, <1>7, <1>8, <1>9

THEOREM Spec_StartInv ==
  ASSUME \A c \in Configs : ServersCounted(c)
  PROVE  Spec => [](ControlTypeOK /\ ShutdownInv /\ StartInv)
BY ControlInit, ControlStep, ShutdownInvInit, ShutdownInvStep, StartInvInit,
   StartInvStep, PTL DEF Spec

LEMMA StartedWhenServing ==
  ASSUME \A c \in Configs : ServersCounted(c), ControlTypeOK, StartInv
  PROVE  /\ ServersStarted
         /\ phase = "serving" =>
              \A s \in Servers(config) :
                s.name \in InitCases => <<s.endpoint, s.name>> \in running
<1> SUFFICES ASSUME phase = "serving"
             PROVE  \A s \in Servers(config) :
                      /\ s.name \in InitCases => <<s.endpoint, s.name>> \in running
                      /\ Up(s.endpoint, s.name)
  BY DEF ServersStarted
<1> SUFFICES ASSUME NEW s \in Servers(config)
             PROVE  /\ s.name \in InitCases => <<s.endpoint, s.name>> \in running
                    /\ Up(s.endpoint, s.name)
  OBVIOUS
<1>1. config \in Configs
  BY DEF ControlTypeOK
<1>2. running = {p \in InstancesOf(1..LastRow) : p[2] \in InitCases}
  BY DEF StartInv
<1>3. <<s.endpoint, s.name>> \in InstancesOf(1..LastRow)
  <2>1. s.row \in 1..LastRow
    BY <1>1, ClusterRows DEF Servers, LastRow
  <2> QED
    BY <2>1 DEF InstancesOf
<1>4. s.name \in InitCases => <<s.endpoint, s.name>> \in running
  BY <1>2, <1>3
<1>5. s.name \in InitCases \/ s.name \in PluginServers \cap PluginsInit
  BY <1>1 DEF ServersCounted
<1>6. plugged = PluginsInit
  BY DEF StartInv
<1> QED
  BY <1>4, <1>5, <1>6 DEF Up

\* When requests are served every server cluster has somebody behind it: the
\* start leaves no row out and no place is missing, if each server has a case
\* or a plugin and the counts are those of the tables.
THEOREM Spec_ServersStarted ==
  ASSUME \A c \in Configs : ServersCounted(c)
  PROVE  Spec => []ServersStarted
<1>1. ControlTypeOK /\ StartInv => ServersStarted
  BY StartedWhenServing
<1> QED
  BY <1>1, Spec_StartInv, PTL

-----------------------------------------------------------------------------
(* Requests.                                                               *)

\* The request that has been answered, and that a success was given only for
\* what the tables have and the privilege allows.
SuccessInv ==
  answer # None =>
    /\ answer.request \in Requests[config]
    /\ answer.status = "Success" =>
         /\ Exists(config, answer.request) /\ Permitted(config, answer.request)
         /\ answer.request.op = "write" => Writable(config, answer.request)

\* What the tables have is answered as the privilege, not the state, decides.
ServedInv ==
  (/\ answer # None
   /\ Exists(config, answer.request) /\ Permitted(config, answer.request)
   /\ answer.request.op = "write" => Writable(config, answer.request)) =>
    \/ answer.status = "Success"
    \/ /\ answer.request.op = "invoke" /\ ~answer.request.decodes
       /\ answer.status = "InvalidCommand"

LEMMA AnswerIs ==
  ASSUME NEW req, NEW status, Answer(req, status)
  PROVE  /\ answer' # None /\ answer'.request = req /\ answer'.status = status
         /\ config' = config
<1>1. answer' = [status |-> status, request |-> req]
  BY DEF Answer
<1>2. answer'.request = req /\ answer'.status = status
  BY <1>1
<1>3. DOMAIN answer' # DOMAIN None
  <2>1. "request" \in DOMAIN answer'
    BY <1>1
  <2>2. "request" \notin DOMAIN None
    BY DEF None
  <2> QED
    BY <2>1, <2>2
<1> QED
  BY <1>2, <1>3 DEF Answer

LEMMA SuccessInvStep ==
  ControlTypeOK /\ SuccessInv /\ [Next]_vars => SuccessInv'
<1> SUFFICES ASSUME ControlTypeOK, SuccessInv, [Next]_vars
             PROVE  SuccessInv'
  OBVIOUS
<1>1. config \in Configs /\ config' = config
  BY ControlStep DEF ControlTypeOK
<1>2. ASSUME NEW req \in Requests[config], Handle(req)
      PROVE  SuccessInv'
  <2> DEFINE Good == /\ Exists(config, req) /\ Permitted(config, req)
                     /\ req.op = "write" => Writable(config, req)
  <2>1. CASE RefuseUnknown(req)
    <3>1. answer'.request = req /\ answer'.status = "Unsupported"
      BY <2>1, AnswerIs DEF RefuseUnknown
    <3> QED
      BY <1>1, <3>1 DEF SuccessInv
  <2>2. CASE RefuseAccess(req)
    <3>1. answer'.request = req /\ answer'.status = "UnsupportedAccess"
      BY <2>2, AnswerIs DEF RefuseAccess
    <3> QED
      BY <1>1, <3>1 DEF SuccessInv
  <2>3. CASE InvokeOnInstance(req) \/ InvokeByDispatch(req) \/ Read(req)
    <3>1. answer'.request = req
      BY <2>3, AnswerIs DEF InvokeOnInstance, InvokeByDispatch, Read
    <3>2. Exists(config, req) /\ Permitted(config, req) /\ req.op # "write"
      BY <2>3 DEF InvokeOnInstance, InvokeByDispatch, Read
    <3> QED
      BY <1>1, <3>1, <3>2 DEF SuccessInv
  <2>4. CASE Write(req)
    <3>1. answer'.request = req
      BY <2>4, AnswerIs DEF Write
    <3>2. answer'.status = IF ~Writable(config, req) THEN "UnsupportedWrite"
                           ELSE IF Up(req.endpoint, req.cluster) THEN "Success"
                           ELSE "UnsupportedAttribute"
      BY <2>4, AnswerIs DEF Write
    <3>3. answer'.status = "Success" => Writable(config, req)
      BY <3>2
    <3>4. Exists(config, req) /\ Permitted(config, req)
      BY <2>4 DEF Write
    <3> QED
      BY <1>1, <3>1, <3>3, <3>4 DEF SuccessInv
  <2> QED
    BY <1>2, <2>1, <2>2, <2>3, <2>4 DEF Handle
<1>3. CASE answer' = None
  BY <1>3 DEF SuccessInv, None
<1>4. CASE UNCHANGED answer
  BY <1>1, <1>4 DEF SuccessInv
<1>5. \/ \E req \in Requests[config] : Handle(req)
      \/ answer' = None \/ UNCHANGED answer
  BY DEF Next, vars, InitCluster, InitPlugins, BeginShutdown, ShutdownCluster,
         Reboot, WriteAttribute, Reply
<1> QED
  BY <1>2, <1>3, <1>4, <1>5

THEOREM Spec_SuccessInv == Spec => [](ControlTypeOK /\ SuccessInv)
<1>1. Init => SuccessInv
  BY DEF Init, SuccessInv
<1> QED
  BY <1>1, ControlInit, ControlStep, SuccessInvStep, PTL DEF Spec

\* Nobody gets more than the .matter file declares, if the arrays of access.h
\* say the same: there is no way to a success around the check.
THEOREM Spec_AccessAsDeclared ==
  ASSUME \A c \in Configs : AccessGenerated(c)
  PROVE  Spec => []AccessAsDeclared
<1>1. ControlTypeOK /\ SuccessInv => AccessAsDeclared
  <2> SUFFICES ASSUME ControlTypeOK, SuccessInv, answer.status = "Success"
               PROVE  Allowed(answer.request)
    BY DEF AccessAsDeclared
  <2>1. answer # None
    BY DEF None
  <2>2. config \in Configs
    BY DEF ControlTypeOK
  <2> QED
    BY <2>1, <2>2 DEF SuccessInv, AccessGenerated
<1> QED
  BY <1>1, Spec_SuccessInv, PTL

\* A handler answers what the tables have and the privilege allows with a
\* success, or says that it could not decode the data of the command.
LEMMA HandleServes ==
  ASSUME \A c \in Configs : ServersCounted(c) /\ CommandsDispatched(c),
         ControlTypeOK, StartInv, NEW req \in Requests[config], Handle(req),
         Exists(config, req), Permitted(config, req),
         req.op = "write" => Writable(config, req)
  PROVE  /\ answer'.request = req
         /\ \/ answer'.status = "Success"
            \/ req.op = "invoke" /\ ~req.decodes /\ answer'.status = "InvalidCommand"
<1>1. phase = "serving" /\ config \in Configs
  BY DEF Handle, ControlTypeOK
<1>2. \A s \in Servers(config) :
        /\ Up(s.endpoint, s.name)
        /\ s.name \in InitCases => <<s.endpoint, s.name>> \in running
  BY <1>1, StartedWhenServing DEF ServersStarted
<1>3. CASE InvokeOnInstance(req)
  <2>1. /\ req.op = "invoke"
        /\ Answer(req, IF req.decodes THEN "Success" ELSE "InvalidCommand")
    BY <1>3 DEF InvokeOnInstance
  <2> QED
    BY <2>1, AnswerIs
<1>4. CASE InvokeByDispatch(req)
  <2>1. /\ req.op = "invoke"
        /\ <<req.endpoint, req.cluster>> \notin running
        /\ req.cluster # "NetworkCommissioning"
        /\ Answer(req, DispatchSingleClusterCommand(req.cluster, req.id, req.decodes))
    BY <1>4 DEF InvokeByDispatch
  <2>2. PICK s \in Servers(config) :
          /\ s.endpoint = req.endpoint /\ s.name = req.cluster
          /\ req.id \in s.accepted
    BY <2>1 DEF Exists, Addressed
  <2>3. s.name \notin InitCases \cup {"NetworkCommissioning"}
    BY <1>2, <2>1, <2>2
  <2>4. /\ req.cluster \in DOMAIN TablesOf[config].cases
        /\ req.id \in TablesOf[config].cases[req.cluster]
    <3>1. s.accepted # {}
      BY <2>2
    <3> QED
      BY <1>1, <2>2, <2>3, <3>1 DEF CommandsDispatched
  <2>5. DispatchSingleClusterCommand(req.cluster, req.id, req.decodes)
          = IF req.decodes THEN "Success" ELSE "InvalidCommand"
    BY <2>4 DEF DispatchSingleClusterCommand, DispatchServerCommand
  <2> QED
    BY <2>1, <2>5, AnswerIs
<1>5. CASE Read(req)
  <2>1. /\ req.op = "read"
        /\ Answer(req, IF \/ Up(req.endpoint, req.cluster)
                          \/ \E a \in Attribute(config, req) : a.bytes > 0
                       THEN "Success" ELSE "UnsupportedAttribute")
    BY <1>5 DEF Read
  <2>2. PICK s \in Servers(config) : s.endpoint = req.endpoint /\ s.name = req.cluster
    BY <2>1 DEF Exists, Attribute, Addressed
  <2>3. Up(req.endpoint, req.cluster)
    BY <1>2, <2>2
  <2> QED
    BY <2>1, <2>3, AnswerIs
<1>6. CASE Write(req)
  <2>1. /\ req.op = "write"
        /\ Answer(req, IF ~Writable(config, req) THEN "UnsupportedWrite"
                       ELSE IF Up(req.endpoint, req.cluster) THEN "Success"
                       ELSE "UnsupportedAttribute")
    BY <1>6 DEF Write
  <2>2. PICK s \in Servers(config) : s.endpoint = req.endpoint /\ s.name = req.cluster
    BY <2>1 DEF Exists, Attribute, Addressed
  <2>3. Up(req.endpoint, req.cluster)
    BY <1>2, <2>2
  <2> QED
    BY <2>1, <2>3, AnswerIs
<1> QED
  BY <1>3, <1>4, <1>5, <1>6 DEF Handle, RefuseUnknown, RefuseAccess

LEMMA ServedInvStep ==
  ASSUME \A c \in Configs : ServersCounted(c) /\ CommandsDispatched(c)
  PROVE  ControlTypeOK /\ StartInv /\ SuccessInv /\ ServedInv /\ [Next]_vars => ServedInv'
<1> SUFFICES ASSUME ControlTypeOK, StartInv, SuccessInv, ServedInv, [Next]_vars
             PROVE  ServedInv'
  OBVIOUS
<1>1. config' = config
  BY ControlStep
<1>2. ASSUME NEW req \in Requests[config], Handle(req)
      PROVE  ServedInv'
  <2>1. answer'.request = req
    BY <1>2, AnswerIs
       DEF Handle, RefuseUnknown, RefuseAccess, InvokeOnInstance,
           InvokeByDispatch, Read, Write
  <2> SUFFICES ASSUME Exists(config, req), Permitted(config, req),
                      req.op = "write" => Writable(config, req)
               PROVE  \/ answer'.status = "Success"
                      \/ /\ req.op = "invoke" /\ ~req.decodes
                         /\ answer'.status = "InvalidCommand"
    BY <1>1, <2>1 DEF ServedInv
  <2> QED
    BY <1>2, HandleServes
<1>3. CASE answer' = None
  BY <1>3 DEF ServedInv, None
<1>4. CASE UNCHANGED answer
  BY <1>1, <1>4 DEF ServedInv
<1>5. \/ \E req \in Requests[config] : Handle(req)
      \/ answer' = None \/ UNCHANGED answer
  BY DEF Next, vars, InitCluster, InitPlugins, BeginShutdown, ShutdownCluster,
         Reboot, WriteAttribute, Reply
<1> QED
  BY <1>2, <1>3, <1>4, <1>5

\* Whatever the device announces it serves to those the declaration allows to
\* ask for it, if the generated files agree on who is started, on privileges
\* and on the cases of the dispatch.
THEOREM Spec_AnnouncedServed ==
  ASSUME \A c \in Configs : /\ ServersCounted(c) /\ AccessGenerated(c)
                            /\ CommandsDispatched(c)
  PROVE  Spec => []AnnouncedServed
<1>1. Spec => [](ControlTypeOK /\ ShutdownInv /\ StartInv)
  BY Spec_StartInv
<1>2. Init => ServedInv
  BY DEF Init, ServedInv
<1>3. ControlTypeOK /\ StartInv /\ SuccessInv /\ ServedInv /\ [Next]_vars => ServedInv'
  BY ServedInvStep
<1>4. ControlTypeOK /\ SuccessInv /\ ServedInv => AnnouncedServed
  <2> SUFFICES ASSUME ControlTypeOK, SuccessInv, ServedInv, answer # None,
                      Exists(config, answer.request), Allowed(answer.request)
               PROVE  \/ answer.status = "Success"
                      \/ /\ answer.request.op = "invoke"
                         /\ ~answer.request.decodes
                         /\ answer.status = "InvalidCommand"
    BY DEF AnnouncedServed
  <2>1. config \in Configs /\ answer.request \in Requests[config]
    BY DEF ControlTypeOK, SuccessInv
  <2>2. answer.request.op = "write" => Writable(config, answer.request)
    BY <2>1 DEF AccessGenerated
  <2>3. Permitted(config, answer.request)
    BY <2>1, <2>2 DEF AccessGenerated
  <2> QED
    BY <2>2, <2>3 DEF ServedInv
<1> QED
  BY <1>1, <1>2, <1>3, <1>4, Spec_SuccessInv, PTL DEF Spec
=============================================================================
