----------------------------- MODULE ImageRefs -----------------------------
(***************************************************************************)
(* The image labels of pdcs/image.go: an image podman lists has one entry  *)
(* for each of its references, which repoTagDecompose splits into          *)
(* repository and tag; dedupImages drops the entries that would make a     *)
(* series a second time.                                                   *)
(*                                                                         *)
(* A reference is represented by its form: "none" (<none>:<none>),         *)
(* "invalid" (it does not parse), "digest" (a bare digest, which has no    *)
(* name), "named" (without a tag, pinned to a digest or not) or "tagged"   *)
(* (with a tag, and perhaps a digest too), with its name and tag.  `text'  *)
(* is the reference as podman lists it.                                    *)
(***************************************************************************)
EXTENDS Integers, Sequences, Functions

None == "<none>"

repoTagDecompose(ref) ==
  CASE ref.form \in {"none", "invalid"} -> <<None, None>>
    [] ref.form = "digest" -> <<ref.text, None>>
    [] ref.form = "named"  -> <<ref.name, None>>
    [] ref.form = "tagged" -> <<ref.name, ref.tag>>

\* the entries of one image: one for each reference, or one without
Entry(image, repoTag) ==
  [id |-> image.id, parent |-> image.parent, digest |-> image.digest,
   repository |-> repoTag[1], tag |-> repoTag[2]]
Entries(image) ==
  IF image.refs = << >> THEN <<Entry(image, <<None, None>>)>>
  ELSE [i \in DOMAIN image.refs |-> Entry(image, repoTagDecompose(image.refs[i]))]

\* The entries of all images, each at the position of its image and reference,
\* and the order in which updateImages appends them.
Appended(images) ==
  [p \in UNION {{i} \X DOMAIN Entries(images[i]) : i \in DOMAIN images} |->
     Entries(images[p[1]])[p[2]]]
Before(p, q) == p[1] < q[1] \/ (p[1] = q[1] /\ p[2] < q[2])

\* mutant: only neighbours are compared
dedupNeighbours(entries) ==
  Restrict(entries,
    {p \in DOMAIN entries :
       \A q \in DOMAIN entries :
         Before(q, p) /\ entries[q] = entries[p] =>
           \E between \in DOMAIN entries : Before(q, between) /\ Before(between, p)})

\* the first entry with its ID, parent, repository, tag and digest is kept
dedupImages(entries) ==
  Restrict(entries,
    {p \in DOMAIN entries :
       \A q \in DOMAIN entries : Before(q, p) => entries[q] # entries[p]})

\* updateImages, on what podman lists
ListedImages(images) == dedupImages(Appended(images))

\* The series the image collector makes of an entry: info has all the labels,
\* size and created only ID, repository and tag.
EntrySeries(e) ==
  << <<"image_info", e.id, e.parent, e.repository, e.tag, e.digest>>,
     <<"image_size", e.id, e.repository, e.tag>>,
     <<"image_created", e.id, e.repository, e.tag>> >>

\* ... each sent for the position of its entry
ImageSeries(images) ==
  LET listed == ListedImages(images)
  IN  [s \in (DOMAIN listed) \X (1..3) |-> EntrySeries(listed[s[1]])[s[2]]]
=============================================================================
