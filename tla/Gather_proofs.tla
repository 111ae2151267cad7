--------------------------- MODULE Gather_proofs ---------------------------
(***************************************************************************)
(* What the collectors send, for any lists of podman's: the series of each *)
(* object, and no series twice.                                            *)
(***************************************************************************)
EXTENDS Gather, WellFoundedInduction, TLAPS

-----------------------------------------------------------------------------
(* The collectors that send every metric of every object                     *)

LEMMA AllRange ==
  ASSUME NEW c, NEW names, NEW list
  PROVE  Range(All(c, names, list)) = {c} \X names \X Range(list)
<1> DEFINE series == All(c, names, list)
           owed == {c} \X names \X Range(list)
<1>1. DOMAIN series = (DOMAIN list) \X names
  BY DEF All, Metrics
<1>2. ASSUME NEW s \in DOMAIN series PROVE series[s] = <<c, s[2], list[s[1]]>>
  BY DEF All, Metrics
<1>3. ASSUME NEW s \in DOMAIN series PROVE series[s] \in owed
  BY <1>1, <1>2 DEF Range
<1>4. ASSUME NEW x \in owed PROVE \E s \in DOMAIN series : series[s] = x
  <2>1. PICK i \in DOMAIN list : x[3] = list[i]
    BY DEF Range
  <2>2. <<i, x[2]>> \in DOMAIN series
    BY <1>1
  <2>3. series[<<i, x[2]>>] = x
    BY <1>2, <2>1, <2>2
  <2> QED
    BY <2>2, <2>3
<1> HIDE DEF series, owed
<1>5. Range(series) = owed
  BY <1>3, <1>4 DEF Range
<1> QED
  BY <1>5 DEF series, owed

LEMMA AllInjective ==
  ASSUME NEW c, NEW names, NEW list, IsInjective(list)
  PROVE  IsInjective(All(c, names, list))
<1> SUFFICES ASSUME NEW s \in (DOMAIN list) \X names, NEW t \in (DOMAIN list) \X names,
                    All(c, names, list)[s] = All(c, names, list)[t]
             PROVE  s = t
  BY DEF IsInjective, All, Metrics
<1>1. s[2] = t[2] /\ list[s[1]] = list[t[1]]
  BY DEF All, Metrics
<1>2. s[1] = t[1]
  BY <1>1 DEF IsInjective
<1> QED
  BY <1>1, <1>2

\* The container collector: info for all, statistics for those that have them.
LEMMA ContainerRange ==
  ASSUME NEW list, NEW running
  PROVE  Range(ContainerSeries(list, running)) =
           {"container"} \X {"info", "rootfs_size"} \X Range(list)
           \cup {s \in {"container"} \X {"pids", "block_output"} \X Range(list) :
                   s[3] \in running}
<1> DEFINE series == ContainerSeries(list, running)
           names == {"info", "rootfs_size", "pids", "block_output"}
           owed == {"container"} \X {"info", "rootfs_size"} \X Range(list)
                   \cup {s \in {"container"} \X {"pids", "block_output"} \X Range(list) :
                           s[3] \in running}
<1>1. DOMAIN series =
        {s \in (DOMAIN list) \X names :
           s[2] \in {"pids", "block_output"} => list[s[1]] \in running}
  BY DEF ContainerSeries, Metrics
<1>2. ASSUME NEW s \in DOMAIN series PROVE series[s] = <<"container", s[2], list[s[1]]>>
  BY DEF ContainerSeries, Metrics
<1>3. ASSUME NEW s \in DOMAIN series PROVE series[s] \in owed
  BY <1>1, <1>2 DEF Range
<1>4. ASSUME NEW x \in owed PROVE \E s \in DOMAIN series : series[s] = x
  <2>1. PICK i \in DOMAIN list : x[3] = list[i]
    BY DEF Range
  <2>2. <<i, x[2]>> \in DOMAIN series
    BY <1>1, <2>1
  <2>3. x = <<"container", x[2], x[3]>>
    OBVIOUS
  <2>4. series[<<i, x[2]>>] = x
    BY <1>2, <2>1, <2>2, <2>3
  <2> QED
    BY <2>2, <2>4
<1> HIDE DEF series, owed
<1>5. Range(series) = owed
  BY <1>3, <1>4 DEF Range
<1> QED
  BY <1>5 DEF series, owed

LEMMA ContainerInjective ==
  ASSUME NEW list, NEW running, IsInjective(list)
  PROVE  IsInjective(ContainerSeries(list, running))
<1> DEFINE series == ContainerSeries(list, running)
<1> SUFFICES ASSUME NEW s \in DOMAIN series, NEW t \in DOMAIN series, series[s] = series[t]
             PROVE  s = t
  BY DEF IsInjective
<1>1. /\ s \in (DOMAIN list) \X {"info", "rootfs_size", "pids", "block_output"}
      /\ t \in (DOMAIN list) \X {"info", "rootfs_size", "pids", "block_output"}
  BY DEF ContainerSeries, Metrics
<1>2. s[2] = t[2] /\ list[s[1]] = list[t[1]]
  BY DEF ContainerSeries, Metrics
<1>3. s[1] = t[1]
  BY <1>1, <1>2 DEF IsInjective
<1> QED
  BY <1>1, <1>2, <1>3

-----------------------------------------------------------------------------
(* The entries of the images                                                 *)

\* Of any positions one comes first.
LEMMA FirstPosition ==
  ASSUME NEW P, P \subseteq Nat \X Nat, P # {}
  PROVE  \E p \in P : \A q \in P : ~Before(q, p)
<1> DEFINE Less == {ss \in Nat \X Nat : ss[1] < ss[2]}
<1>1. IsWellFoundedOn(Less, Nat)
  BY NatLessThanWellFounded DEF OpToRel
<1>2. IsWellFoundedOn(LexPairOrdering(Less, Less, Nat, Nat), Nat \X Nat)
  BY <1>1, WFLexPairOrdering
<1>3. PICK p \in P : \A q \in P : <<q, p>> \notin LexPairOrdering(Less, Less, Nat, Nat)
  BY <1>2, WFMin, Zenon
<1>4. ASSUME NEW q \in P, Before(q, p) PROVE FALSE
  <2>1. /\ p \in Nat \X Nat /\ q \in Nat \X Nat
        /\ p[1] \in Nat /\ p[2] \in Nat /\ q[1] \in Nat /\ q[2] \in Nat
    OBVIOUS
  <2>2. <<q[1], p[1]>> \in Less \/ (q[1] = p[1] /\ <<q[2], p[2]>> \in Less)
    BY <1>4, <2>1 DEF Before
  <2> HIDE DEF Less
  <2>3. <<q, p>> \in LexPairOrdering(Less, Less, Nat, Nat)
    BY <2>1, <2>2 DEF LexPairOrdering
  <2> QED
    BY <1>3, <2>3
<1> QED
  BY <1>4

\* dedupImages keeps an entry of each kind, and only one.
LEMMA DedupRange ==
  ASSUME NEW entries, DOMAIN entries \subseteq Nat \X Nat
  PROVE  Range(dedupImages(entries)) = Range(entries)
<1> DEFINE kept == dedupImages(entries)
<1>1. /\ DOMAIN kept \subseteq DOMAIN entries
      /\ \A p \in DOMAIN kept : kept[p] = entries[p]
  BY DEF dedupImages, Restrict
<1>2. ASSUME NEW p \in DOMAIN entries PROVE \E q \in DOMAIN kept : kept[q] = entries[p]
  <2> DEFINE P == {q \in DOMAIN entries : entries[q] = entries[p]}
  <2>1. PICK q \in P : \A other \in P : ~Before(other, q)
    BY FirstPosition
  <2>2. q \in DOMAIN kept
    BY <2>1 DEF dedupImages, Restrict
  <2> QED
    BY <1>1, <2>2
<1> HIDE DEF kept
<1>3. Range(kept) = Range(entries)
  BY <1>1, <1>2 DEF Range
<1> QED
  BY <1>3 DEF kept

LEMMA DedupInjective ==
  ASSUME NEW entries, DOMAIN entries \subseteq Nat \X Nat
  PROVE  IsInjective(dedupImages(entries))
<1> DEFINE kept == dedupImages(entries)
<1> SUFFICES ASSUME NEW p \in DOMAIN kept, NEW q \in DOMAIN kept, kept[p] = kept[q]
             PROVE  p = q
  BY DEF IsInjective
<1>1. /\ p \in DOMAIN entries /\ q \in DOMAIN entries /\ entries[p] = entries[q]
      /\ ~Before(p, q) /\ ~Before(q, p)
  BY DEF dedupImages, Restrict
<1>2. p \in Nat \X Nat /\ q \in Nat \X Nat
  BY <1>1
<1>3. p[1] = q[1] /\ p[2] = q[2]
  BY <1>1, <1>2 DEF Before
<1> QED
  BY <1>2, <1>3

\* An image's entries are of it, and at positions of its references.
LEMMA EntriesOf ==
  ASSUME NEW image, DOMAIN image.refs \subseteq Nat
  PROVE  /\ DOMAIN Entries(image) \subseteq Nat
         /\ \A j \in DOMAIN Entries(image) :
              \E repoTag : Entries(image)[j] = Entry(image, repoTag)
BY DEF Entries

\* what podman may list
Listing(images) ==
  /\ DOMAIN images \subseteq Nat
  /\ \A i \in DOMAIN images : DOMAIN images[i].refs \subseteq Nat
  /\ \A i, j \in DOMAIN images :
       images[i].id = images[j].id =>
         images[i].parent = images[j].parent /\ images[i].digest = images[j].digest

LEMMA AppendedPositions ==
  ASSUME NEW images, Listing(images)
  PROVE  /\ DOMAIN Appended(images) \subseteq Nat \X Nat
         /\ \A p \in DOMAIN Appended(images) :
              /\ p[1] \in DOMAIN images /\ p[2] \in DOMAIN Entries(images[p[1]])
              /\ Appended(images)[p] = Entries(images[p[1]])[p[2]]
         /\ \A i \in DOMAIN images : \A j \in DOMAIN Entries(images[i]) :
              <<i, j>> \in DOMAIN Appended(images)
<1>1. DOMAIN Appended(images) =
        UNION {{i} \X DOMAIN Entries(images[i]) : i \in DOMAIN images}
  BY DEF Appended
<1>2. ASSUME NEW p \in DOMAIN Appended(images)
      PROVE  /\ p \in Nat \X Nat
             /\ p[1] \in DOMAIN images /\ p[2] \in DOMAIN Entries(images[p[1]])
             /\ Appended(images)[p] = Entries(images[p[1]])[p[2]]
  <2>1. PICK i \in DOMAIN images : p \in {i} \X DOMAIN Entries(images[i])
    BY <1>1
  <2>2. i \in Nat /\ DOMAIN Entries(images[i]) \subseteq Nat
    BY EntriesOf DEF Listing
  <2> QED
    BY <2>1, <2>2 DEF Appended
<1>3. ASSUME NEW i \in DOMAIN images, NEW j \in DOMAIN Entries(images[i])
      PROVE  <<i, j>> \in DOMAIN Appended(images)
  BY <1>1
<1> QED
  BY <1>2, <1>3

LEMMA AppendedRange ==
  ASSUME NEW images, Listing(images)
  PROVE  Range(Appended(images)) = UNION {Range(Entries(i)) : i \in Range(images)}
<1> DEFINE all == Appended(images)
           owed == UNION {Range(Entries(i)) : i \in Range(images)}
<1>1. ASSUME NEW p \in DOMAIN all PROVE all[p] \in owed
  BY AppendedPositions DEF Range
<1>2. ASSUME NEW e \in owed PROVE \E p \in DOMAIN all : all[p] = e
  <2>1. PICK i \in DOMAIN images : e \in Range(Entries(images[i]))
    BY DEF Range
  <2>2. PICK j \in DOMAIN Entries(images[i]) : e = Entries(images[i])[j]
    BY <2>1 DEF Range
  <2>3. <<i, j>> \in DOMAIN all /\ all[<<i, j>>] = e
    BY <2>2, AppendedPositions
  <2> QED
    BY <2>3
<1> HIDE DEF all, owed
<1>3. Range(all) = owed
  BY <1>1, <1>2 DEF Range
<1> QED
  BY <1>3 DEF all, owed

-----------------------------------------------------------------------------
(* The series of the images                                                  *)

LEMMA ListedPositions ==
  ASSUME NEW images, Listing(images)
  PROVE  /\ Range(ListedImages(images)) = UNION {Range(Entries(i)) : i \in Range(images)}
         /\ IsInjective(ListedImages(images))
         /\ \A p \in DOMAIN ListedImages(images) :
              \E i \in DOMAIN images : \E repoTag :
                ListedImages(images)[p] = Entry(images[i], repoTag)
<1>1. Range(ListedImages(images)) = UNION {Range(Entries(i)) : i \in Range(images)}
  BY AppendedPositions, AppendedRange, DedupRange DEF ListedImages
<1>2. IsInjective(ListedImages(images))
  BY AppendedPositions, DedupInjective DEF ListedImages
<1>3. ASSUME NEW p \in DOMAIN ListedImages(images)
      PROVE  \E i \in DOMAIN images : \E repoTag :
               ListedImages(images)[p] = Entry(images[i], repoTag)
  <2>1. p \in DOMAIN Appended(images) /\ ListedImages(images)[p] = Appended(images)[p]
    BY DEF ListedImages, dedupImages, Restrict
  <2>2. /\ p[1] \in DOMAIN images /\ p[2] \in DOMAIN Entries(images[p[1]])
        /\ ListedImages(images)[p] = Entries(images[p[1]])[p[2]]
    BY <2>1, AppendedPositions
  <2> QED
    BY <2>2, EntriesOf DEF Listing
<1> QED
  BY <1>1, <1>2, <1>3

LEMMA ImageSends ==
  ASSUME NEW images
  PROVE  LET listed == ListedImages(images)
         IN  /\ DOMAIN ImageSeries(images) = (DOMAIN listed) \X (1..3)
             /\ \A s \in (DOMAIN listed) \X (1..3) :
                  ImageSeries(images)[s] = EntrySeries(listed[s[1]])[s[2]]
BY DEF ImageSeries

LEMMA ImageRange ==
  ASSUME NEW images, Listing(images)
  PROVE  Range(ImageSeries(images)) =
           UNION {UNION {Range(EntrySeries(e)) : e \in Range(Entries(i))} : i \in Range(images)}
<1> DEFINE listed == ListedImages(images)
           series == ImageSeries(images)
           owed == UNION {UNION {Range(EntrySeries(e)) : e \in Range(Entries(i))} :
                            i \in Range(images)}
<1>1. \A e : DOMAIN EntrySeries(e) = 1..3
  BY DEF EntrySeries
<1>2. ASSUME NEW s \in DOMAIN series PROVE series[s] \in owed
  <2>1. s[1] \in DOMAIN listed /\ s[2] \in 1..3 /\ series[s] = EntrySeries(listed[s[1]])[s[2]]
    <3>1. s \in (DOMAIN listed) \X (1..3)
      BY ImageSends
    <3> QED
      BY <3>1, ImageSends
  <2>2. listed[s[1]] \in UNION {Range(Entries(i)) : i \in Range(images)}
    BY <2>1, ListedPositions DEF Range
  <2>3. series[s] \in Range(EntrySeries(listed[s[1]]))
    BY <1>1, <2>1 DEF Range
  <2> QED
    BY <2>2, <2>3
<1>3. ASSUME NEW x \in owed PROVE \E s \in DOMAIN series : series[s] = x
  <2>1. PICK i \in Range(images) : x \in UNION {Range(EntrySeries(e)) : e \in Range(Entries(i))}
    OBVIOUS
  <2>2. PICK e \in Range(Entries(i)) : x \in Range(EntrySeries(e))
    BY <2>1
  <2>3. PICK p \in DOMAIN listed : listed[p] = e
    <3>1. e \in Range(listed)
      BY <2>1, <2>2, ListedPositions
    <3> QED
      BY <3>1 DEF Range
  <2>4. PICK k \in 1..3 : x = EntrySeries(e)[k]
    BY <1>1, <2>2 DEF Range
  <2>5. <<p, k>> \in DOMAIN series /\ series[<<p, k>>] = x
    BY <2>3, <2>4, ImageSends
  <2> QED
    BY <2>5
<1> HIDE DEF series, owed
<1>4. Range(series) = owed
  BY <1>2, <1>3 DEF Range
<1> QED
  BY <1>4 DEF series, owed

\* A series tells its metric, and of its entry ID, repository and tag.
LEMMA SeriesTells ==
  ASSUME NEW e, NEW f, NEW k \in 1..3, NEW l \in 1..3,
         EntrySeries(e)[k] = EntrySeries(f)[l]
  PROVE  k = l /\ e.id = f.id /\ e.repository = f.repository /\ e.tag = f.tag
<1>1. /\ EntrySeries(e)[1] = <<"image_info", e.id, e.parent, e.repository, e.tag, e.digest>>
      /\ EntrySeries(e)[2] = <<"image_size", e.id, e.repository, e.tag>>
      /\ EntrySeries(e)[3] = <<"image_created", e.id, e.repository, e.tag>>
      /\ EntrySeries(f)[1] = <<"image_info", f.id, f.parent, f.repository, f.tag, f.digest>>
      /\ EntrySeries(f)[2] = <<"image_size", f.id, f.repository, f.tag>>
      /\ EntrySeries(f)[3] = <<"image_created", f.id, f.repository, f.tag>>
  BY DEF EntrySeries
<1>2. EntrySeries(e)[k][1] = EntrySeries(f)[l][1]
  OBVIOUS
<1>3. k = l
  BY <1>1, <1>2
<1> QED
  BY <1>1, <1>3

LEMMA ImageInjective ==
  ASSUME NEW images, Listing(images)
  PROVE  IsInjective(ImageSeries(images))
<1> DEFINE listed == ListedImages(images)
<1> SUFFICES ASSUME NEW s \in (DOMAIN listed) \X (1..3), NEW t \in (DOMAIN listed) \X (1..3),
                    ImageSeries(images)[s] = ImageSeries(images)[t]
             PROVE  s = t
  BY ImageSends DEF IsInjective
<1> DEFINE e == listed[s[1]]
           f == listed[t[1]]
<1>1. s[1] \in DOMAIN listed /\ s[2] \in 1..3 /\ t[1] \in DOMAIN listed /\ t[2] \in 1..3
  OBVIOUS
<1>2. EntrySeries(e)[s[2]] = EntrySeries(f)[t[2]]
  BY ImageSends
<1>3. s[2] = t[2] /\ e.id = f.id /\ e.repository = f.repository /\ e.tag = f.tag
  BY <1>1, <1>2, SeriesTells
<1>4. e = f
  <2>1. PICK i \in DOMAIN images : \E repoTag : e = Entry(images[i], repoTag)
    BY <1>1, ListedPositions
  <2>2. PICK ofE : e = Entry(images[i], ofE)
    BY <2>1
  <2>3. PICK j \in DOMAIN images : \E repoTag : f = Entry(images[j], repoTag)
    BY <1>1, ListedPositions
  <2>4. PICK ofF : f = Entry(images[j], ofF)
    BY <2>3
  <2> HIDE DEF e, f
  <2>5. images[i].id = images[j].id
    BY <1>3, <2>2, <2>4 DEF Entry
  <2>6. images[i].parent = images[j].parent /\ images[i].digest = images[j].digest
    BY <2>5 DEF Listing
  <2> QED
    BY <1>3, <2>2, <2>4, <2>5, <2>6 DEF Entry
<1>5. s[1] = t[1]
  BY <1>1, <1>4, ListedPositions DEF IsInjective
<1> QED
  BY <1>3, <1>5
=============================================================================
