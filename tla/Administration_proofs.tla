------------------------ MODULE Administration_proofs ------------------------
(***************************************************************************)
(* Proofs about what administrators change while the bot runs, and about   *)
(* the migrations it starts with: for any presses in any order, any        *)
(* settings, sessions and users, any number of crashes and refused writes. *)
(***************************************************************************)
EXTENDS Administration, FiniteSetTheorems, TLAPS

-----------------------------------------------------------------------------
(***************************************************************************)
(* What a statement of a migration does to the file.                       *)
(***************************************************************************)
IsFile(d) == DOMAIN d = {"tables", "columns", "carried"}

LEMMA TableAdded ==
    ASSUME NEW d, IsFile(d), NEW t, NEW filled, NEW r, r = WithTable(d, t, filled)
    PROVE  /\ IsFile(r) /\ r.columns = d.columns /\ r.carried = d.carried
           /\ DOMAIN r.tables = DOMAIN d.tables \cup {t}
           /\ r.tables[t] = filled
           /\ \A u \in DOMAIN d.tables \ {t} : r.tables[u] = d.tables[u]
    BY DEF WithTable, IsFile

LEMMA TableDropped ==
    ASSUME NEW d, IsFile(d), NEW t, NEW r, r = WithoutTable(d, t)
    PROVE  /\ IsFile(r) /\ r.columns = d.columns /\ r.carried = d.carried
           /\ DOMAIN r.tables = DOMAIN d.tables \ {t}
           /\ \A u \in DOMAIN d.tables \ {t} : r.tables[u] = d.tables[u]
    BY DEF WithoutTable, IsFile

LEMMA ColumnAdded ==
    ASSUME NEW d, IsFile(d), NEW c, NEW r, r = With(d, c)
    PROVE  /\ IsFile(r) /\ r.tables = d.tables /\ r.carried = d.carried
           /\ r.columns = d.columns \cup {c}
    BY DEF With, IsFile

LEMMA RowsCarried ==
    ASSUME NEW d, IsFile(d), NEW r, r = [d EXCEPT !.carried = d.tables["disk_reservations"]]
    PROVE  /\ IsFile(r) /\ r.tables = d.tables /\ r.columns = d.columns
           /\ r.carried = d.tables["disk_reservations"]
    BY DEF IsFile

Base1  == {"users", "media_sessions", "download_jobs", "disk_reservations"}
Base4  == Base1 \cup {"user_settings", "ui_drafts", "telegram_file_cache", "job_subscribers",
                      "system_settings"}
Base10 == Base4 \cup {"runtime_settings"}

ColumnNames ==
    {"source_url", "claimed_at", "projected_bytes", "actual_bytes", "extras_json", "media_kind",
     "output_identity", "collection_entry_id", "ytdlp_impersonated", "execution_identity",
     "real_duration"}

(* Statements that take nothing away: all but those of versions 6 and 11.  *)
PlainStatements ==
         [op : {"script", "carry", "creators"}] \cup [op : {"if missing"}, table : Base10]
    \cup [op : {"add"}, table : Base10, column : ColumnNames]

Ops == {"script", "if missing", "add", "carry", "creators"}

LEMMA PlainOps ==
    ASSUME NEW s \in PlainStatements
    PROVE  /\ s.op \in Ops
           /\ s.op = "if missing" => s.table \in Base10 /\ s = IfMissing(s.table)
           /\ s.op = "add" => s.table \in Base10 /\ s.column \in ColumnNames
<1>1. CASE s \in [op : {"script", "carry", "creators"}]
  BY <1>1 DEF Ops
<1>2. CASE s \in [op : {"if missing"}, table : Base10]
  BY <1>2 DEF IfMissing, Ops
<1>3. CASE s \in [op : {"add"}, table : Base10, column : ColumnNames]
  BY <1>3 DEF Ops
<1>4. QED
  BY <1>1, <1>2, <1>3 DEF PlainStatements

(* Such a statement adds a table, a column, or recipients, or carries over. *)
Adds(s, d, r) ==
    /\ IsFile(r)
    /\ DOMAIN r.tables = DOMAIN d.tables \cup (IF s.op = "if missing" THEN {s.table} ELSE {})
    /\ r.columns = d.columns \cup (IF s.op = "add" THEN {s.column} ELSE {})
    /\ r.carried = IF s.op = "carry" THEN d.tables["disk_reservations"] ELSE d.carried
    /\ \A t \in DOMAIN d.tables \ {"job_subscribers"} : r.tables[t] = d.tables[t]
    /\ "job_subscribers" \in DOMAIN d.tables =>
          d.tables["job_subscribers"] \subseteq r.tables["job_subscribers"]
    /\ s.op = "creators" => d.tables["download_jobs"] \subseteq r.tables["job_subscribers"]
    /\ s.op = "if missing" /\ s.table \notin DOMAIN d.tables => r.tables[s.table] = {}

LEMMA PlainAfter ==
    ASSUME NEW d, IsFile(d), NEW s \in PlainStatements, NEW r, r = After(s, d),
           s.op = "creators" => "job_subscribers" \in DOMAIN d.tables
    PROVE  Adds(s, d, r)
<1> USE DEF Adds
<1>1. s.op \in Ops
  BY PlainOps
<1>2. CASE s.op = "script"
  BY <1>2 DEF After
<1>3. CASE s.op = "if missing"
  <2>1. CASE Has(d, s.table)
    BY <1>3, <2>1 DEF After, Has
  <2>2. CASE ~Has(d, s.table)
    <3>1. r = WithTable(d, s.table, {})
      BY <1>3, <2>2 DEF After
    <3>2. /\ IsFile(r) /\ r.columns = d.columns /\ r.carried = d.carried
          /\ DOMAIN r.tables = DOMAIN d.tables \cup {s.table}
          /\ r.tables[s.table] = {}
          /\ \A u \in DOMAIN d.tables \ {s.table} : r.tables[u] = d.tables[u]
      BY <3>1, TableAdded
    <3>3. QED
      BY <1>3, <2>2, <3>2 DEF Has
  <2>3. QED
    BY <2>1, <2>2
<1>4. CASE s.op = "add"
  <2>1. r = With(d, s.column)
    BY <1>4 DEF After
  <2>2. QED
    BY <1>4, <2>1, ColumnAdded
<1>5. CASE s.op = "carry"
  <2>1. r = [d EXCEPT !.carried = d.tables["disk_reservations"]]
    BY <1>5 DEF After
  <2>2. QED
    BY <1>5, <2>1, RowsCarried
<1>6. CASE s.op = "creators"
  <2> DEFINE joined == d.tables["job_subscribers"] \cup d.tables["download_jobs"]
  <2>1. r = WithTable(d, "job_subscribers", joined)
    BY <1>6 DEF After
  <2>2. /\ IsFile(r) /\ r.columns = d.columns /\ r.carried = d.carried
        /\ DOMAIN r.tables = DOMAIN d.tables \cup {"job_subscribers"}
        /\ r.tables["job_subscribers"] = joined
        /\ \A u \in DOMAIN d.tables \ {"job_subscribers"} : r.tables[u] = d.tables[u]
    BY <2>1, TableAdded
  <2>3. QED
    BY <1>6, <2>2
<1>7. QED
  BY <1>1, <1>2, <1>3, <1>4, <1>5, <1>6 DEF Ops

-----------------------------------------------------------------------------
(***************************************************************************)
(* Statements still to come.                                               *)
(***************************************************************************)
In(s, left) == \E i \in 1..Len(left) : left[i] = s

Distinct(left) ==
    \A i, j \in 1..Len(left) :
        i # j /\ left[i].op = "add" /\ left[j].op = "add" => left[i].column # left[j].column

(* The column is filled after it is there. *)
CarriesAfter(left) ==
    \A i \in 1..Len(left) :
        left[i].op = "add" /\ left[i].column = "projected_bytes" =>
            \E j \in (i + 1)..Len(left) : left[j].op = "carry"

LEMMA Rest ==
    ASSUME NEW left \in Seq(PlainStatements), left # <<>>
    PROVE  /\ Head(left) \in PlainStatements /\ In(Head(left), left)
           /\ Tail(left) \in Seq(PlainStatements)
           /\ \A s : In(s, left) => s = Head(left) \/ In(s, Tail(left))
           /\ \A s : In(s, Tail(left)) => In(s, left)
           /\ Distinct(left) => Distinct(Tail(left))
           /\ Distinct(left) /\ Head(left).op = "add" =>
                 \A s : In(s, Tail(left)) /\ s.op = "add" => s.column # Head(left).column
           /\ CarriesAfter(left) => CarriesAfter(Tail(left))
           /\ CarriesAfter(left) /\ Head(left).op = "add" /\ Head(left).column = "projected_bytes"
                 => \E s : In(s, Tail(left)) /\ s.op = "carry"
<1> DEFINE rest == Tail(left)
<1>1. /\ Len(left) \in Nat \ {0} /\ Head(left) = left[1]
      /\ rest \in Seq(PlainStatements) /\ Len(rest) = Len(left) - 1
      /\ \A i \in 1..Len(left) : left[i] \in PlainStatements
  OBVIOUS
<1>2. \A i \in 1..Len(rest) : i + 1 \in 1..Len(left) /\ rest[i] = left[i + 1]
  BY <1>1
<1>3. \A i \in 1..Len(left) : i = 1 \/ (i - 1 \in 1..Len(rest) /\ rest[i - 1] = left[i])
  BY <1>1, <1>2
<1> HIDE DEF rest
<1>4. Head(left) \in PlainStatements /\ In(Head(left), left)
  BY <1>1 DEF In
<1>5. ASSUME NEW s, In(s, left) PROVE s = Head(left) \/ In(s, rest)
  BY <1>1, <1>3, <1>5 DEF In
<1>6. ASSUME NEW s, In(s, rest) PROVE In(s, left)
  BY <1>2, <1>6 DEF In
<1>7. ASSUME Distinct(left) PROVE Distinct(rest)
  <2> SUFFICES ASSUME NEW i \in 1..Len(rest), NEW j \in 1..Len(rest), i # j,
                      rest[i].op = "add", rest[j].op = "add"
               PROVE  rest[i].column # rest[j].column
    BY DEF Distinct
  <2>1. i + 1 \in 1..Len(left) /\ j + 1 \in 1..Len(left) /\ i + 1 # j + 1
        /\ rest[i] = left[i + 1] /\ rest[j] = left[j + 1]
    BY <1>1, <1>2
  <2>2. QED
    BY <1>7, <2>1 DEF Distinct
<1>8. ASSUME Distinct(left), Head(left).op = "add", NEW s, In(s, rest), s.op = "add"
      PROVE  s.column # Head(left).column
  <2>1. PICK i \in 1..Len(rest) : rest[i] = s
    BY <1>8 DEF In
  <2>2. i + 1 \in 1..Len(left) /\ i + 1 # 1 /\ 1 \in 1..Len(left) /\ left[i + 1] = s
    BY <1>1, <1>2, <2>1
  <2>3. QED
    BY <1>1, <1>8, <2>2 DEF Distinct
<1>9. ASSUME CarriesAfter(left) PROVE CarriesAfter(rest)
  <2> SUFFICES ASSUME NEW i \in 1..Len(rest), rest[i].op = "add", rest[i].column = "projected_bytes"
               PROVE  \E j \in (i + 1)..Len(rest) : rest[j].op = "carry"
    BY DEF CarriesAfter
  <2>1. PICK j \in (i + 2)..Len(left) : left[j].op = "carry"
    <3>1. i + 1 \in 1..Len(left) /\ left[i + 1].op = "add" /\ left[i + 1].column = "projected_bytes"
      BY <1>2
    <3>2. (i + 1) + 1 = i + 2
      OBVIOUS
    <3>3. QED
      BY <1>9, <3>1, <3>2 DEF CarriesAfter
  <2>2. j - 1 \in (i + 1)..Len(rest) /\ rest[j - 1] = left[j]
    BY <1>1, <1>3
  <2>3. QED
    BY <2>1, <2>2
<1>10. ASSUME CarriesAfter(left), Head(left).op = "add", Head(left).column = "projected_bytes"
       PROVE  \E s : In(s, rest) /\ s.op = "carry"
  <2>1. PICK j \in 2..Len(left) : left[j].op = "carry"
    <3>1. 1 \in 1..Len(left) /\ 1 + 1 = 2
      BY <1>1
    <3>2. QED
      BY <1>1, <1>10, <3>1 DEF CarriesAfter
  <2>2. j - 1 \in 1..Len(rest) /\ rest[j - 1] = left[j]
    BY <1>1, <1>3
  <2>3. QED
    BY <2>1, <2>2 DEF In
<1>11. QED
  BY <1>1, <1>4, <1>5, <1>6, <1>7, <1>8, <1>9, <1>10 DEF rest

LEMMA Joined ==
    ASSUME NEW a \in Seq(PlainStatements), NEW b \in Seq(PlainStatements)
    PROVE  /\ a \o b \in Seq(PlainStatements)
           /\ \A s : In(s, a \o b) <=> In(s, a) \/ In(s, b)
           /\ CarriesAfter(a) /\ CarriesAfter(b) => CarriesAfter(a \o b)
           /\ /\ Distinct(a) /\ Distinct(b)
              /\ \A s, t : In(s, a) /\ In(t, b) /\ s.op = "add" /\ t.op = "add" =>
                    s.column # t.column
              => Distinct(a \o b)
<1> DEFINE c == a \o b
<1>1. c \in Seq(PlainStatements) /\ Len(c) = Len(a) + Len(b) /\ Len(a) \in Nat /\ Len(b) \in Nat
  OBVIOUS
<1>2. \A i \in 1..Len(a) : i \in 1..Len(c) /\ c[i] = a[i]
  BY <1>1
<1>3. \A i \in 1..Len(b) : i + Len(a) \in 1..Len(c) /\ c[i + Len(a)] = b[i]
  BY <1>1
<1>4. \A i \in 1..Len(c) : \/ i \in 1..Len(a) /\ c[i] = a[i]
                           \/ i - Len(a) \in 1..Len(b) /\ c[i] = b[i - Len(a)]
  BY <1>1
<1> HIDE DEF c
<1>5. ASSUME NEW s PROVE In(s, c) <=> In(s, a) \/ In(s, b)
  <2>1. ASSUME In(s, c) PROVE In(s, a) \/ In(s, b)
    BY <1>4, <2>1 DEF In
  <2>2. ASSUME In(s, a) PROVE In(s, c)
    BY <1>2, <2>2 DEF In
  <2>3. ASSUME In(s, b) PROVE In(s, c)
    BY <1>3, <2>3 DEF In
  <2>4. QED
    BY <2>1, <2>2, <2>3
<1>6. ASSUME CarriesAfter(a), CarriesAfter(b) PROVE CarriesAfter(c)
  <2> SUFFICES ASSUME NEW i \in 1..Len(c), c[i].op = "add", c[i].column = "projected_bytes"
               PROVE  \E j \in (i + 1)..Len(c) : c[j].op = "carry"
    BY DEF CarriesAfter
  <2>1. CASE i \in 1..Len(a) /\ c[i] = a[i]
    <3>1. PICK j \in (i + 1)..Len(a) : a[j].op = "carry"
      BY <1>6, <2>1 DEF CarriesAfter
    <3>2. j \in (i + 1)..Len(c) /\ c[j] = a[j]
      BY <1>1, <1>2, <2>1
    <3>3. QED
      BY <3>1, <3>2
  <2>2. CASE i - Len(a) \in 1..Len(b) /\ c[i] = b[i - Len(a)]
    <3>1. PICK j \in (i - Len(a) + 1)..Len(b) : b[j].op = "carry"
      BY <1>6, <2>2 DEF CarriesAfter
    <3>2. j + Len(a) \in (i + 1)..Len(c) /\ c[j + Len(a)] = b[j]
      BY <1>1, <1>3, <2>2
    <3>3. QED
      BY <3>1, <3>2
  <2>3. QED
    BY <1>4, <2>1, <2>2
<1>7. ASSUME Distinct(a), Distinct(b),
             \A s, t : In(s, a) /\ In(t, b) /\ s.op = "add" /\ t.op = "add" => s.column # t.column
      PROVE  Distinct(c)
  <2> SUFFICES ASSUME NEW i \in 1..Len(c), NEW j \in 1..Len(c), i # j,
                      c[i].op = "add", c[j].op = "add"
               PROVE  c[i].column # c[j].column
    BY DEF Distinct
  <2>1. CASE i \in 1..Len(a) /\ c[i] = a[i] /\ j \in 1..Len(a) /\ c[j] = a[j]
    BY <1>7, <2>1 DEF Distinct
  <2>2. CASE /\ i - Len(a) \in 1..Len(b) /\ c[i] = b[i - Len(a)]
             /\ j - Len(a) \in 1..Len(b) /\ c[j] = b[j - Len(a)]
    <3>1. i - Len(a) # j - Len(a)
      BY <1>1
    <3>2. QED
      BY <1>7, <2>2, <3>1 DEF Distinct
  <2>3. CASE i \in 1..Len(a) /\ c[i] = a[i] /\ j - Len(a) \in 1..Len(b) /\ c[j] = b[j - Len(a)]
    BY <1>7, <2>3 DEF In
  <2>4. CASE j \in 1..Len(a) /\ c[j] = a[j] /\ i - Len(a) \in 1..Len(b) /\ c[i] = b[i - Len(a)]
    <3>1. In(c[j], a) /\ In(c[i], b)
      BY <2>4 DEF In
    <3>2. QED
      BY <1>7, <3>1
  <2>5. QED
    BY <1>4, <2>1, <2>2, <2>3, <2>4
<1>8. QED
  BY <1>1, <1>5, <1>6, <1>7 DEF c

-----------------------------------------------------------------------------
(***************************************************************************)
(* What a file of version v has: the tables and columns it must have, and  *)
(* the tables it may have, since versions 1 and 4 may be cut off halfway.  *)
(***************************************************************************)
Required(v) == IF v >= 10 THEN Base10 ELSE IF v >= 4 THEN Base4 ELSE IF v >= 1 THEN Base1 ELSE {}
Allowed(v)  == IF v >= 10 THEN Base10 ELSE IF v >= 3 THEN Base4 ELSE Base1

RequiredColumns(v) ==
    {c \in ColumnNames :
        \/ v >= 2 /\ c \in {"source_url", "claimed_at"}
        \/ v >= 3 /\ c \in {"projected_bytes", "actual_bytes"}
        \/ v >= 4 /\ c \in {"extras_json", "media_kind", "output_identity"}
        \/ v >= 5 /\ c = "collection_entry_id"
        \/ v >= 7 /\ c = "ytdlp_impersonated"
        \/ v >= 9 /\ c = "execution_identity"
        \/ v >= 11 /\ c = "real_duration"}

Carried(d) ==
    "projected_bytes" \in d.columns /\ "disk_reservations" \in DOMAIN d.tables =>
        d.tables["disk_reservations"] \subseteq d.carried

Joined5(d) == d.tables["download_jobs"] \subseteq d.tables["job_subscribers"]

Consistent(d, v) ==
    /\ IsFile(d)
    /\ Required(v) \subseteq DOMAIN d.tables
    /\ DOMAIN d.tables \subseteq Allowed(v)
    /\ RequiredColumns(v) \subseteq d.columns
    /\ Carried(d)
    /\ v >= 5 => Joined5(d)

(* What is left of version v leads there from the file d.                  *)
Fits(s, v, d) ==
    /\ s.op = "script" => v \in {1, 4}
    /\ s.op = "carry" => v = 3
    /\ s.op = "creators" => v = 5
    /\ s.op = "if missing" => s.table \in Allowed(v)
    /\ s.op = "add" => s.table \in DOMAIN d.tables /\ s.column \notin d.columns

Due(left, v, d) ==
    /\ left \in Seq(PlainStatements) /\ Distinct(left) /\ CarriesAfter(left)
    /\ \A s : In(s, left) => Fits(s, v, d)
    /\ Required(v - 1) \subseteq DOMAIN d.tables
    /\ DOMAIN d.tables \subseteq Allowed(v)
    /\ RequiredColumns(v - 1) \subseteq d.columns
    /\ \A t \in Required(v) \ DOMAIN d.tables : In(IfMissing(t), left)
    /\ \A c \in RequiredColumns(v) \ d.columns : \E s : In(s, left) /\ s.op = "add" /\ s.column = c
    /\ Carried(d) \/ \E s : In(s, left) /\ s.op = "carry"
    /\ v >= 5 => Joined5(d) \/ \E s : In(s, left) /\ s.op = "creators"

PlainVersions == (1..10) \ {6}

Protected == {"download_jobs", "media_sessions", "disk_reservations", "job_subscribers"}
Keeps(d, r) ==
    \A t \in Protected : t \in DOMAIN d.tables => t \in DOMAIN r.tables /\ d.tables[t] \subseteq r.tables[t]

LEMMA AllDone ==
    ASSUME NEW v \in PlainVersions, NEW d, IsFile(d), Due(<<>>, v, d)
    PROVE  Consistent(d, v)
<1>1. \A s : ~In(s, <<>>)
  BY DEF In
<1>2. QED
  BY <1>1 DEF Due, Consistent

LEMMA OneDone ==
    ASSUME NEW v \in PlainVersions, NEW d, IsFile(d), NEW left, left # <<>>, Due(left, v, d),
           NEW r, r = After(Head(left), d)
    PROVE  /\ IsFile(r) /\ Due(Tail(left), v, r) /\ Keeps(d, r)
           /\ Head(left).op \in Ops
           /\ ~Fails(Head(left), d)
<1> DEFINE s == Head(left)
           rest == Tail(left)
<1>1. left \in Seq(PlainStatements)
  BY DEF Due
<1>2. /\ s \in PlainStatements /\ In(s, left)
      /\ rest \in Seq(PlainStatements)
      /\ \A x : In(x, left) => x = s \/ In(x, rest)
      /\ \A x : In(x, rest) => In(x, left)
  BY <1>1, Rest
<1>3. Distinct(rest) /\ CarriesAfter(rest)
  BY <1>1, Rest DEF Due
<1>4. s.op = "add" => \A x : In(x, rest) /\ x.op = "add" => x.column # s.column
  BY <1>1, Rest DEF Due
<1>5. s.op = "add" /\ s.column = "projected_bytes" => \E x : In(x, rest) /\ x.op = "carry"
  BY <1>1, Rest DEF Due
<1>6. Fits(s, v, d) /\ \A x : In(x, rest) => Fits(x, v, d)
  BY <1>2 DEF Due
<1>7. /\ s.op \in Ops
      /\ s.op = "if missing" => s.table \in Base10 /\ s = IfMissing(s.table)
      /\ s.op = "add" => s.table \in Base10 /\ s.column \in ColumnNames
  BY <1>2, PlainOps
<1> HIDE DEF s, rest
<1>8. ASSUME s.op = "creators" PROVE {"job_subscribers", "download_jobs"} \subseteq DOMAIN d.tables
  <2>1. v = 5
    BY <1>6, <1>8 DEF Fits
  <2>2. Required(v - 1) = Base4
    BY <2>1 DEF Required
  <2>3. QED
    BY <2>2 DEF Due, Base1, Base4
<1>9. Adds(s, d, r)
  BY <1>2, <1>8, PlainAfter DEF s
<1> USE DEF Adds
<1>10. Keeps(d, r)
  BY <1>9 DEF Keeps, Protected
<1>11. ~Fails(s, d)
  BY <1>6, <1>7 DEF Fails, Fits, Ops, Has
<1>12. ASSUME NEW x, In(x, rest) PROVE Fits(x, v, r)
  <2>1. Fits(x, v, d)
    BY <1>6, <1>12
  <2>2. x.op = "add" => x.column \notin r.columns
    BY <1>4, <1>9, <1>12, <2>1 DEF Fits
  <2>3. QED
    BY <1>9, <2>1, <2>2 DEF Fits
<1>13. DOMAIN r.tables \subseteq Allowed(v)
  BY <1>6, <1>9 DEF Due, Fits
<1>14. Required(v - 1) \subseteq DOMAIN r.tables /\ RequiredColumns(v - 1) \subseteq r.columns
  BY <1>9 DEF Due
<1>15. ASSUME NEW t \in Required(v) \ DOMAIN r.tables PROVE In(IfMissing(t), rest)
  <2>1. In(IfMissing(t), left)
    BY <1>9, <1>15 DEF Due
  <2>2. IfMissing(t).op = "if missing" /\ IfMissing(t).table = t
    BY DEF IfMissing
  <2>3. IfMissing(t) # s
    BY <1>9, <1>15, <2>2
  <2>4. QED
    BY <1>2, <2>1, <2>3
<1>16. ASSUME NEW c \in RequiredColumns(v) \ r.columns
       PROVE  \E x : In(x, rest) /\ x.op = "add" /\ x.column = c
  <2>1. PICK x : In(x, left) /\ x.op = "add" /\ x.column = c
    BY <1>9, <1>16 DEF Due
  <2>2. x # s
    BY <1>9, <1>16, <2>1
  <2>3. QED
    BY <1>2, <2>1, <2>2
<1>17. Carried(r) \/ \E x : In(x, rest) /\ x.op = "carry"
  <2>1. CASE s.op = "carry"
    BY <1>9, <2>1 DEF Carried
  <2>2. CASE s.op # "carry" /\ \E x : In(x, left) /\ x.op = "carry"
    BY <1>2, <2>2
  <2>3. CASE s.op # "carry" /\ Carried(d)
    <3>1. CASE s.op = "add" /\ s.column = "projected_bytes"
      BY <1>5, <3>1
    <3>2. CASE ~(s.op = "add" /\ s.column = "projected_bytes")
      BY <1>9, <2>3, <3>2 DEF Carried
    <3>3. QED
      BY <3>1, <3>2
  <2>4. QED
    BY <2>1, <2>2, <2>3 DEF Due
<1>18. ASSUME v >= 5 PROVE Joined5(r) \/ \E x : In(x, rest) /\ x.op = "creators"
  <2>1. {"job_subscribers", "download_jobs"} \subseteq DOMAIN d.tables
    BY <1>18 DEF Due, Required, Base1, Base4, Base10, PlainVersions
  <2>2. r.tables["download_jobs"] = d.tables["download_jobs"]
        /\ d.tables["job_subscribers"] \subseteq r.tables["job_subscribers"]
    BY <1>9, <2>1
  <2>3. CASE s.op = "creators"
    BY <1>9, <2>2, <2>3 DEF Joined5
  <2>4. CASE s.op # "creators"
    <3>1. CASE Joined5(d)
      BY <2>2, <3>1 DEF Joined5
    <3>2. CASE \E x : In(x, left) /\ x.op = "creators"
      BY <1>2, <2>4, <3>2
    <3>3. QED
      BY <1>18, <3>1, <3>2 DEF Due
  <2>5. QED
    BY <2>3, <2>4
<1>19. Due(rest, v, r)
  BY <1>2, <1>3, <1>12, <1>13, <1>14, <1>15, <1>16, <1>17, <1>18 DEF Due
<1>20. QED
  BY <1>7, <1>9, <1>10, <1>11, <1>19 DEF s, rest

(***************************************************************************)
(* Each version begins with what it needs.                                 *)
(***************************************************************************)
Orderly(m) == m \in Seq(PlainStatements) /\ Distinct(m) /\ CarriesAfter(m)

LEMMA DueAtFirst ==
    ASSUME NEW v \in PlainVersions, NEW d, Consistent(d, v - 1), NEW m, Orderly(m),
           \A s : In(s, m) => Fits(s, v, d),
           \A t \in Required(v) \ Required(v - 1) : In(IfMissing(t), m),
           \A c \in RequiredColumns(v) \ d.columns : \E s : In(s, m) /\ s.op = "add" /\ s.column = c,
           v = 5 => In(AddCreators, m)
    PROVE  Due(m, v, d)
<1>1. v \in Int /\ v - 1 \in Int
  BY DEF PlainVersions
<1>2. Allowed(v - 1) \subseteq Allowed(v)
  BY <1>1 DEF Allowed, Base1, Base4, Base10
<1>3. v >= 5 => Joined5(d) \/ \E s : In(s, m) /\ s.op = "creators"
  <2>1. CASE v = 5
    <3>1. AddCreators.op = "creators"
      BY DEF AddCreators
    <3>2. QED
      BY <2>1, <3>1
  <2>2. CASE v > 5
    BY <1>1, <2>2 DEF Consistent
  <2>3. QED
    BY <1>1, <2>1, <2>2
<1>4. \A t \in Required(v) \ DOMAIN d.tables : In(IfMissing(t), m)
  BY DEF Consistent
<1>5. QED
  BY <1>2, <1>3, <1>4 DEF Due, Consistent, Orderly

LEMMA NothingLeft == Orderly(<<>>) /\ \A s : ~In(s, <<>>)
    BY DEF Orderly, Distinct, CarriesAfter, In

(* A column that may be missing. *)
MayAdd(m, d, t, c) ==
    /\ Orderly(m)
    /\ \A s : In(s, m) => s.op = "add" /\ s.table = t /\ s.column = c /\ c \notin d.columns
    /\ c \notin d.columns => \E s : In(s, m) /\ s.op = "add" /\ s.column = c

LEMMA Missing ==
    ASSUME NEW d, NEW t \in Base10, NEW c \in ColumnNames, c # "projected_bytes"
    PROVE  MayAdd(AddMissing(d, t, c), d, t, c)
<1> DEFINE m == AddMissing(d, t, c)
<1> USE DEF MayAdd
<1>1. CASE c \in d.columns
  BY <1>1, NothingLeft DEF AddMissing
<1>2. CASE c \notin d.columns
  <2>1. PICK a : a = Add(t, c)
    OBVIOUS
  <2>2. a.op = "add" /\ a.table = t /\ a.column = c /\ a \in PlainStatements
    BY <2>1 DEF Add, PlainStatements
  <2>3. m = <<a>>
    BY <1>2, <2>1 DEF AddMissing
  <2>4. m \in Seq(PlainStatements) /\ \A s : In(s, m) <=> s = a
    BY <2>2, <2>3 DEF In
  <2>5. Distinct(m) /\ CarriesAfter(m)
    BY <2>2, <2>3 DEF Distinct, CarriesAfter
  <2>6. QED
    BY <1>2, <2>2, <2>4, <2>5 DEF Orderly
<1>3. QED
  BY <1>1, <1>2

(* Lists without a column to add are in order by themselves. *)
LEMMA NothingAdded ==
    ASSUME NEW m \in Seq(PlainStatements), \A i \in 1..Len(m) : m[i].op # "add"
    PROVE  Orderly(m)
    BY DEF Orderly, Distinct, CarriesAfter

LEMMA JoinedInOrder ==
    ASSUME NEW a, Orderly(a), NEW b, Orderly(b),
           \A s, t : In(s, a) /\ In(t, b) /\ s.op = "add" /\ t.op = "add" => s.column # t.column
    PROVE  Orderly(a \o b) /\ \A s : In(s, a \o b) <=> In(s, a) \/ In(s, b)
    BY Joined DEF Orderly

LEMMA Kinds ==
    /\ Script \in PlainStatements /\ Script.op = "script"
    /\ CarryReserved \in PlainStatements /\ CarryReserved.op = "carry"
    /\ AddCreators \in PlainStatements /\ AddCreators.op = "creators"
    /\ \A t \in Base10 : /\ IfMissing(t) \in PlainStatements
                         /\ IfMissing(t).op = "if missing" /\ IfMissing(t).table = t
<1>1. Script \in PlainStatements /\ Script.op = "script"
  BY DEF Script, PlainStatements
<1>2. CarryReserved \in PlainStatements /\ CarryReserved.op = "carry"
  BY DEF CarryReserved, PlainStatements
<1>3. AddCreators \in PlainStatements /\ AddCreators.op = "creators"
  BY DEF AddCreators, PlainStatements
<1>4. ASSUME NEW t \in Base10
      PROVE  /\ IfMissing(t) \in PlainStatements
             /\ IfMissing(t).op = "if missing" /\ IfMissing(t).table = t
  BY <1>4 DEF IfMissing, PlainStatements
<1>5. QED
  BY <1>1, <1>2, <1>3, <1>4

LEMMA One ==
    ASSUME NEW a \in PlainStatements, a.op # "add"
    PROVE  Orderly(<<a>>) /\ \A s : In(s, <<a>>) <=> s = a
<1>1. <<a>> \in Seq(PlainStatements) /\ \A s : In(s, <<a>>) <=> s = a
  BY DEF In
<1>2. \A i \in 1..Len(<<a>>) : <<a>>[i].op # "add"
  OBVIOUS
<1>3. QED
  BY <1>1, <1>2, NothingAdded

LEMMA Version1 ==
    ASSUME NEW d, Consistent(d, 0)
    PROVE  Due(migration_v1(d), 1, d)
<1> DEFINE m == migration_v1(d)
<1>1. PICK a, b, c, e \in PlainStatements :
         /\ a = IfMissing("users") /\ b = IfMissing("media_sessions")
         /\ c = IfMissing("download_jobs") /\ e = IfMissing("disk_reservations")
  BY Kinds DEF Base1, Base4, Base10
<1>2. PICK f \in PlainStatements : f = Script
  BY Kinds
<1>3. m = <<f, a, b, c, e>>
  BY <1>1, <1>2 DEF migration_v1
<1>a. m \in Seq(PlainStatements) /\ Len(m) = 5
      /\ m[1] = f /\ m[2] = a /\ m[3] = b /\ m[4] = c /\ m[5] = e
  BY <1>3
<1>b. \A i \in 1..5 : i = 1 \/ i = 2 \/ i = 3 \/ i = 4 \/ i = 5
  OBVIOUS
<1> HIDE DEF m
<1>4. \A s : In(s, m) <=> s \in {f, a, b, c, e}
  BY <1>a, <1>b DEF In
<1>5. /\ f.op = "script"
      /\ a.op = "if missing" /\ a.table = "users" /\ b.op = "if missing" /\ b.table = "media_sessions"
      /\ c.op = "if missing" /\ c.table = "download_jobs"
      /\ e.op = "if missing" /\ e.table = "disk_reservations"
  BY <1>1, <1>2, Kinds DEF Base1, Base4, Base10
<1>6. Orderly(m)
  BY <1>a, <1>b, <1>5, NothingAdded
<1>7. \A s : In(s, m) => Fits(s, 1, d)
  <2>1. Allowed(1) = Base1
    BY DEF Allowed
  <2>2. QED
    BY <1>4, <1>5, <2>1 DEF Fits, Base1
<1>8. \A t \in Required(1) : In(IfMissing(t), m)
  BY <1>1, <1>4 DEF Required, Base1
<1>9. RequiredColumns(1) = {}
  BY DEF RequiredColumns
<1>10. Due(m, 1, d)
  BY <1>6, <1>7, <1>8, <1>9, DueAtFirst, 1 - 1 = 0 DEF PlainVersions
<1>11. QED
  BY <1>10 DEF m

LEMMA Version2 ==
    ASSUME NEW d, Consistent(d, 1)
    PROVE  Due(migration_v2(d), 2, d)
<1> DEFINE a == AddMissing(d, "download_jobs", "source_url")
           b == AddMissing(d, "download_jobs", "claimed_at")
           m == a \o b
<1>1. "download_jobs" \in Base10 /\ Required(1) = Base1 /\ Required(2) = Base1
  BY DEF Base1, Base4, Base10, Required
<1>2. MayAdd(a, d, "download_jobs", "source_url")
  BY <1>1, Missing DEF ColumnNames
<1>3. MayAdd(b, d, "download_jobs", "claimed_at")
  BY <1>1, Missing DEF ColumnNames
<1> HIDE DEF a, b
<1> USE DEF MayAdd
<1>4. Orderly(m) /\ \A s : In(s, m) <=> In(s, a) \/ In(s, b)
  BY <1>2, <1>3, JoinedInOrder
<1> HIDE DEF m
<1>5. "download_jobs" \in DOMAIN d.tables
  BY <1>1 DEF Consistent, Base1
<1>6. \A s : In(s, m) => Fits(s, 2, d)
  BY <1>2, <1>3, <1>4, <1>5 DEF Fits
<1>7. \A c \in RequiredColumns(2) : c \in {"source_url", "claimed_at"}
  BY DEF RequiredColumns
<1>8. \A c \in RequiredColumns(2) \ d.columns : \E s : In(s, m) /\ s.op = "add" /\ s.column = c
  BY <1>2, <1>3, <1>4, <1>7
<1>9. Due(m, 2, d)
  BY <1>1, <1>4, <1>6, <1>8, DueAtFirst, 2 - 1 = 1 DEF PlainVersions
<1>10. QED
  BY <1>9 DEF m, a, b, migration_v2

LEMMA Version3 ==
    ASSUME NEW d, Consistent(d, 2)
    PROVE  Due(migration_v3(d), 3, d)
<1> DEFINE h == <<IfMissing("disk_reservations")>>
           x == IF "projected_bytes" \in d.columns THEN <<>>
                ELSE <<Add("disk_reservations", "projected_bytes"), CarryReserved>>
           a == AddMissing(d, "disk_reservations", "actual_bytes")
           m == h \o x \o a
<1>1. "disk_reservations" \in Base10 /\ Required(2) = Base1 /\ Required(3) = Base1
  BY DEF Base1, Base4, Base10, Required
<1>2. Orderly(h) /\ \A s : In(s, h) => s.op = "if missing" /\ s.table = "disk_reservations"
  <2>1. PICK i \in PlainStatements :
           i = IfMissing("disk_reservations") /\ i.op = "if missing" /\ i.table = "disk_reservations"
    BY <1>1, Kinds
  <2>2. Orderly(<<i>>) /\ \A s : In(s, <<i>>) <=> s = i
    BY <2>1, One
  <2>3. QED
    BY <2>1, <2>2
<1>3. /\ Orderly(x)
      /\ \A s : In(s, x) =>
            \/ s.op = "carry"
            \/ /\ s.op = "add" /\ s.table = "disk_reservations"
               /\ s.column = "projected_bytes" /\ "projected_bytes" \notin d.columns
      /\ "projected_bytes" \notin d.columns =>
            \E s : In(s, x) /\ s.op = "add" /\ s.column = "projected_bytes"
  <2>1. CASE "projected_bytes" \in d.columns
    BY <2>1, NothingLeft
  <2>2. CASE "projected_bytes" \notin d.columns
    <3>1. PICK p : p = Add("disk_reservations", "projected_bytes")
      OBVIOUS
    <3>a. p.op = "add" /\ p.table = "disk_reservations" /\ p.column = "projected_bytes"
      BY <3>1 DEF Add
    <3>b. p \in PlainStatements
      BY <1>1, <3>1 DEF Add, PlainStatements, ColumnNames
    <3>2. PICK c \in PlainStatements : c = CarryReserved /\ c.op = "carry"
      BY Kinds
    <3>3. x = <<p, c>>
      BY <2>2, <3>1, <3>2
    <3> HIDE DEF x
    <3>4. x \in Seq(PlainStatements) /\ Len(x) = 2 /\ x[1] = p /\ x[2] = c
      BY <3>3, <3>b, <3>2
    <3>5. \A i \in 1..2 : i = 1 \/ i = 2
      OBVIOUS
    <3>6. \A s : In(s, x) <=> s = p \/ s = c
      BY <3>4, <3>5 DEF In
    <3>7. Distinct(x)
      BY <3>a, <3>2, <3>4, <3>5 DEF Distinct
    <3>8. CarriesAfter(x)
      <4>1. 2 \in (1 + 1)..2
        OBVIOUS
      <4>2. QED
        BY <3>a, <3>2, <3>4, <3>5, <4>1 DEF CarriesAfter
    <3>9. QED
      BY <2>2, <3>a, <3>2, <3>4, <3>6, <3>7, <3>8 DEF Orderly
  <2>3. QED
    BY <2>1, <2>2
<1>4. MayAdd(a, d, "disk_reservations", "actual_bytes")
  BY <1>1, Missing DEF ColumnNames
<1> HIDE DEF h, x, a
<1> USE DEF MayAdd
<1>5. Orderly(h \o x) /\ \A s : In(s, h \o x) <=> In(s, h) \/ In(s, x)
  BY <1>2, <1>3, JoinedInOrder
<1>6. Orderly(m) /\ \A s : In(s, m) <=> In(s, h) \/ In(s, x) \/ In(s, a)
  <2>1. \A s, t : In(s, h \o x) /\ In(t, a) /\ s.op = "add" /\ t.op = "add" => s.column # t.column
    BY <1>2, <1>3, <1>4, <1>5
  <2>2. QED
    BY <1>4, <1>5, <2>1, JoinedInOrder
<1> HIDE DEF m
<1>7. "disk_reservations" \in DOMAIN d.tables /\ Base1 \subseteq Allowed(3)
  BY <1>1 DEF Consistent, Allowed, Base1, Base4
<1>8. ASSUME NEW s, In(s, m) PROVE Fits(s, 3, d)
  BY <1>2, <1>3, <1>4, <1>6, <1>7, <1>8 DEF Fits, Base1
<1>9. \A c \in RequiredColumns(3) \ d.columns : c \in {"projected_bytes", "actual_bytes"}
  BY DEF RequiredColumns, Consistent
<1>10. \A c \in RequiredColumns(3) \ d.columns : \E s : In(s, m) /\ s.op = "add" /\ s.column = c
  BY <1>3, <1>4, <1>6, <1>9
<1>11. Due(m, 3, d)
  BY <1>1, <1>6, <1>8, <1>10, DueAtFirst, 3 - 1 = 2 DEF PlainVersions
<1>12. QED
  BY <1>11 DEF m, h, x, a, migration_v3

LEMMA Version4 ==
    ASSUME NEW d, Consistent(d, 3)
    PROVE  Due(migration_v4(d), 4, d)
<1> DEFINE h == <<IfMissing("media_sessions")>>
           a == AddMissing(d, "media_sessions", "extras_json")
           b == AddMissing(d, "download_jobs", "media_kind")
           c == AddMissing(d, "download_jobs", "output_identity")
           l == <<Script, IfMissing("user_settings"), IfMissing("ui_drafts"),
                  IfMissing("telegram_file_cache"), IfMissing("job_subscribers"),
                  IfMissing("system_settings")>>
           new == {"user_settings", "ui_drafts", "telegram_file_cache", "job_subscribers",
                   "system_settings"}
           m == h \o a \o b \o c \o l
<1>1. /\ "media_sessions" \in Base10 /\ "download_jobs" \in Base10
      /\ Required(3) = Base1 /\ Required(4) = Base4 /\ Allowed(4) = Base4
  BY DEF Base1, Base4, Base10, Required, Allowed
<1>2. Orderly(h) /\ \A s : In(s, h) => s.op = "if missing" /\ s.table = "media_sessions"
  <2>1. PICK i \in PlainStatements :
           i = IfMissing("media_sessions") /\ i.op = "if missing" /\ i.table = "media_sessions"
    BY <1>1, Kinds
  <2>2. Orderly(<<i>>) /\ \A s : In(s, <<i>>) <=> s = i
    BY <2>1, One
  <2>3. QED
    BY <2>1, <2>2
<1>3. MayAdd(a, d, "media_sessions", "extras_json")
  BY <1>1, Missing DEF ColumnNames
<1>4. MayAdd(b, d, "download_jobs", "media_kind")
  BY <1>1, Missing DEF ColumnNames
<1>5. MayAdd(c, d, "download_jobs", "output_identity")
  BY <1>1, Missing DEF ColumnNames
<1>6. /\ Orderly(l)
      /\ \A s : In(s, l) => s.op = "script" \/ (s.op = "if missing" /\ s.table \in new)
      /\ \A t \in new : In(IfMissing(t), l)
  <2>1. PICK f, p, q, r, u, w \in PlainStatements :
           /\ f = Script /\ p = IfMissing("user_settings") /\ q = IfMissing("ui_drafts")
           /\ r = IfMissing("telegram_file_cache") /\ u = IfMissing("job_subscribers")
           /\ w = IfMissing("system_settings")
    BY Kinds DEF Base1, Base4, Base10
  <2>2. l = <<f, p, q, r, u, w>>
    BY <2>1
  <2> HIDE DEF l
  <2>3. /\ l \in Seq(PlainStatements) /\ Len(l) = 6
        /\ l[1] = f /\ l[2] = p /\ l[3] = q /\ l[4] = r /\ l[5] = u /\ l[6] = w
    BY <2>2
  <2>4. \A i \in 1..6 : i = 1 \/ i = 2 \/ i = 3 \/ i = 4 \/ i = 5 \/ i = 6
    OBVIOUS
  <2>5. \A s : In(s, l) <=> s \in {f, p, q, r, u, w}
    BY <2>3, <2>4 DEF In
  <2>6. /\ f.op = "script"
        /\ p.op = "if missing" /\ p.table = "user_settings"
        /\ q.op = "if missing" /\ q.table = "ui_drafts"
        /\ r.op = "if missing" /\ r.table = "telegram_file_cache"
        /\ u.op = "if missing" /\ u.table = "job_subscribers"
        /\ w.op = "if missing" /\ w.table = "system_settings"
    BY <2>1, Kinds DEF Base1, Base4, Base10
  <2>7. Orderly(l)
    BY <2>3, <2>4, <2>6, NothingAdded
  <2>8. QED
    BY <2>1, <2>5, <2>6, <2>7
<1> HIDE DEF h, a, b, c, l
<1> USE DEF MayAdd
<1>7. Orderly(h \o a) /\ \A s : In(s, h \o a) <=> In(s, h) \/ In(s, a)
  BY <1>2, <1>3, JoinedInOrder
<1>8. Orderly(h \o a \o b) /\ \A s : In(s, h \o a \o b) <=> In(s, h) \/ In(s, a) \/ In(s, b)
  <2>1. \A s, t : In(s, h \o a) /\ In(t, b) /\ s.op = "add" /\ t.op = "add" => s.column # t.column
    BY <1>2, <1>3, <1>4, <1>7
  <2>2. QED
    BY <1>4, <1>7, <2>1, JoinedInOrder
<1>9. /\ Orderly(h \o a \o b \o c)
      /\ \A s : In(s, h \o a \o b \o c) <=> In(s, h) \/ In(s, a) \/ In(s, b) \/ In(s, c)
  <2>1. \A s, t : In(s, h \o a \o b) /\ In(t, c) /\ s.op = "add" /\ t.op = "add" =>
           s.column # t.column
    BY <1>2, <1>3, <1>4, <1>5, <1>8
  <2>2. QED
    BY <1>5, <1>8, <2>1, JoinedInOrder
<1>10. Orderly(m) /\ \A s : In(s, m) <=> In(s, h) \/ In(s, a) \/ In(s, b) \/ In(s, c) \/ In(s, l)
  <2>1. \A s, t : In(s, h \o a \o b \o c) /\ In(t, l) /\ s.op = "add" /\ t.op = "add" =>
           s.column # t.column
    BY <1>6
  <2>2. Orderly(h \o a \o b \o c) /\ Orderly(l)
    BY <1>6, <1>9
  <2>3. Orderly(m) /\ \A s : In(s, m) <=> In(s, h \o a \o b \o c) \/ In(s, l)
    BY <2>1, <2>2, JoinedInOrder
  <2>4. QED
    BY <1>9, <2>3
<1> HIDE DEF m
<1>11. "media_sessions" \in DOMAIN d.tables /\ "download_jobs" \in DOMAIN d.tables
  BY <1>1 DEF Consistent, Base1
<1>12. new \subseteq Base4 /\ "media_sessions" \in Base4 /\ Base4 \ Base1 \subseteq new
  BY DEF Base1, Base4
<1> HIDE DEF new
<1>13. ASSUME NEW s, In(s, m) PROVE Fits(s, 4, d)
  BY <1>1, <1>2, <1>3, <1>4, <1>5, <1>6, <1>10, <1>11, <1>12, <1>13 DEF Fits
<1>14. \A t \in Required(4) \ Required(3) : In(IfMissing(t), m)
  BY <1>1, <1>6, <1>10, <1>12
<1>15. \A x \in RequiredColumns(4) \ d.columns : x \in {"extras_json", "media_kind", "output_identity"}
  BY DEF RequiredColumns, Consistent
<1>16. \A x \in RequiredColumns(4) \ d.columns : \E s : In(s, m) /\ s.op = "add" /\ s.column = x
  BY <1>3, <1>4, <1>5, <1>10, <1>15
<1>17. Due(m, 4, d)
  BY <1>10, <1>13, <1>14, <1>16, DueAtFirst, 4 - 1 = 3 DEF PlainVersions
<1>18. QED
  BY <1>17 DEF m, h, a, b, c, l, migration_v4

LEMMA Version5 ==
    ASSUME NEW d, Consistent(d, 4)
    PROVE  Due(migration_v5(d), 5, d)
<1> DEFINE a == AddMissing(d, "download_jobs", "collection_entry_id")
           l == <<AddCreators>>
           m == a \o l
<1>1. "download_jobs" \in Base10 /\ Required(4) = Base4 /\ Required(5) = Base4
  BY DEF Base1, Base4, Base10, Required
<1>2. MayAdd(a, d, "download_jobs", "collection_entry_id")
  BY <1>1, Missing DEF ColumnNames
<1>3. Orderly(l) /\ In(AddCreators, l) /\ \A s : In(s, l) => s.op = "creators"
  BY Kinds, One
<1> HIDE DEF a, l
<1> USE DEF MayAdd
<1>4. Orderly(m) /\ \A s : In(s, m) <=> In(s, a) \/ In(s, l)
  BY <1>2, <1>3, JoinedInOrder
<1> HIDE DEF m
<1>5. "download_jobs" \in DOMAIN d.tables
  BY <1>1 DEF Consistent, Base1, Base4
<1>6. \A s : In(s, m) => Fits(s, 5, d)
  BY <1>2, <1>3, <1>4, <1>5 DEF Fits
<1>7. \A c \in RequiredColumns(5) \ d.columns : c = "collection_entry_id"
  BY DEF RequiredColumns, Consistent
<1>8. \A c \in RequiredColumns(5) \ d.columns : \E s : In(s, m) /\ s.op = "add" /\ s.column = c
  BY <1>2, <1>4, <1>7
<1>9. Due(m, 5, d)
  BY <1>1, <1>3, <1>4, <1>6, <1>8, DueAtFirst, 5 - 1 = 4 DEF PlainVersions
<1>10. QED
  BY <1>9 DEF m, a, l, migration_v5

LEMMA Version7 ==
    ASSUME NEW d, Consistent(d, 6)
    PROVE  Due(migration_v7(d), 7, d)
<1> DEFINE m == AddMissing(d, "download_jobs", "ytdlp_impersonated")
<1>1. "download_jobs" \in Base10 /\ Required(6) = Base4 /\ Required(7) = Base4
  BY DEF Base1, Base4, Base10, Required
<1>2. MayAdd(m, d, "download_jobs", "ytdlp_impersonated")
  BY <1>1, Missing DEF ColumnNames
<1> HIDE DEF m
<1> USE DEF MayAdd
<1>3. "download_jobs" \in DOMAIN d.tables
  BY <1>1 DEF Consistent, Base1, Base4
<1>4. \A s : In(s, m) => Fits(s, 7, d)
  BY <1>2, <1>3 DEF Fits
<1>5. \A c \in RequiredColumns(7) \ d.columns : c = "ytdlp_impersonated"
  BY DEF RequiredColumns, Consistent
<1>6. \A c \in RequiredColumns(7) \ d.columns : \E s : In(s, m) /\ s.op = "add" /\ s.column = c
  BY <1>2, <1>5
<1>7. Due(m, 7, d)
  BY <1>1, <1>2, <1>4, <1>6, DueAtFirst, 7 - 1 = 6 DEF PlainVersions
<1>8. QED
  BY <1>7 DEF m, migration_v7

LEMMA Version8 ==
    ASSUME NEW d, Consistent(d, 7)
    PROVE  Due(migration_v8(d), 8, d)
<1>1. Required(8) = Required(7) /\ RequiredColumns(8) \subseteq d.columns
  BY DEF Required, RequiredColumns, Consistent
<1>2. Due(<<>>, 8, d)
  BY <1>1, NothingLeft, DueAtFirst, 8 - 1 = 7 DEF PlainVersions
<1>3. QED
  BY <1>2 DEF migration_v8

LEMMA Version9 ==
    ASSUME NEW d, Consistent(d, 8)
    PROVE  Due(migration_v9(d), 9, d)
<1> DEFINE m == AddMissing(d, "telegram_file_cache", "execution_identity")
<1>1. "telegram_file_cache" \in Base10 /\ Required(8) = Base4 /\ Required(9) = Base4
  BY DEF Base1, Base4, Base10, Required
<1>2. MayAdd(m, d, "telegram_file_cache", "execution_identity")
  BY <1>1, Missing DEF ColumnNames
<1> HIDE DEF m
<1> USE DEF MayAdd
<1>3. "telegram_file_cache" \in DOMAIN d.tables
  BY <1>1 DEF Consistent, Base1, Base4
<1>4. \A s : In(s, m) => Fits(s, 9, d)
  BY <1>2, <1>3 DEF Fits
<1>5. \A c \in RequiredColumns(9) \ d.columns : c = "execution_identity"
  BY DEF RequiredColumns, Consistent
<1>6. \A c \in RequiredColumns(9) \ d.columns : \E s : In(s, m) /\ s.op = "add" /\ s.column = c
  BY <1>2, <1>5
<1>7. Due(m, 9, d)
  BY <1>1, <1>2, <1>4, <1>6, DueAtFirst, 9 - 1 = 8 DEF PlainVersions
<1>8. QED
  BY <1>7 DEF m, migration_v9

LEMMA Version10 ==
    ASSUME NEW d, Consistent(d, 9)
    PROVE  Due(migration_v10(d), 10, d)
<1> DEFINE m == <<IfMissing("runtime_settings")>>
<1>1. /\ "runtime_settings" \in Base10 /\ Required(10) \ Required(9) = {"runtime_settings"}
      /\ Allowed(10) = Base10 /\ RequiredColumns(10) \subseteq d.columns
  BY DEF Base1, Base4, Base10, Required, Allowed, RequiredColumns, Consistent
<1>2. IfMissing("runtime_settings") \in PlainStatements
      /\ IfMissing("runtime_settings").op = "if missing"
      /\ IfMissing("runtime_settings").table = "runtime_settings"
  BY <1>1, Kinds
<1>3. Orderly(m) /\ \A s : In(s, m) <=> s = IfMissing("runtime_settings")
  BY <1>2, One
<1> HIDE DEF m
<1>4. \A s : In(s, m) => Fits(s, 10, d)
  BY <1>1, <1>2, <1>3 DEF Fits
<1>5. Due(m, 10, d)
  BY <1>1, <1>3, <1>4, DueAtFirst, 10 - 1 = 9 DEF PlainVersions
<1>6. QED
  BY <1>5 DEF m, migration_v10

-----------------------------------------------------------------------------
(***************************************************************************)
(* Versions 6 and 11 rebuild a table: its rows are elsewhere for a while.  *)
(***************************************************************************)
Gains(d, r, t, filled) ==
    /\ IsFile(r) /\ r.columns = d.columns /\ r.carried = d.carried
    /\ DOMAIN r.tables = DOMAIN d.tables \cup {t} /\ r.tables[t] = filled
    /\ \A u \in DOMAIN d.tables \ {t} : r.tables[u] = d.tables[u]

Loses(d, r, t) ==
    /\ IsFile(r) /\ r.columns = d.columns /\ r.carried = d.carried
    /\ DOMAIN r.tables = DOMAIN d.tables \ {t}
    /\ \A u \in DOMAIN d.tables \ {t} : r.tables[u] = d.tables[u]

LEMMA AfterDrop ==
    ASSUME NEW d, IsFile(d), NEW t
    PROVE  /\ Drop(t).op = "drop" /\ ~Fails(Drop(t), d)
           /\ Loses(d, After(Drop(t), d), t)
<1>1. Drop(t).op = "drop" /\ Drop(t).table = t
  BY DEF Drop
<1>2. After(Drop(t), d) = WithoutTable(d, t)
  BY <1>1 DEF After
<1>3. ~Fails(Drop(t), d)
  BY <1>1 DEF Fails
<1>4. QED
  BY <1>1, <1>2, <1>3, TableDropped DEF Loses

LEMMA AfterCreate ==
    ASSUME NEW d, IsFile(d), NEW t, t \notin DOMAIN d.tables
    PROVE  /\ Create(t).op = "create" /\ ~Fails(Create(t), d)
           /\ Gains(d, After(Create(t), d), t, {})
<1>1. Create(t).op = "create" /\ Create(t).table = t
  BY DEF Create
<1>2. After(Create(t), d) = WithTable(d, t, {})
  BY <1>1 DEF After
<1>3. ~Fails(Create(t), d)
  BY <1>1 DEF Fails, Has
<1>4. QED
  BY <1>1, <1>2, <1>3, TableAdded DEF Gains

LEMMA AfterCopy ==
    ASSUME NEW d, IsFile(d), NEW t \in DOMAIN d.tables, NEW u \in DOMAIN d.tables
    PROVE  /\ Copy(t, u).op = "copy" /\ ~Fails(Copy(t, u), d)
           /\ Gains(d, After(Copy(t, u), d), u, d.tables[u] \cup d.tables[t])
<1>1. Copy(t, u).op = "copy" /\ Copy(t, u).table = u /\ Copy(t, u).from = t
  BY DEF Copy
<1>2. After(Copy(t, u), d) = WithTable(d, u, d.tables[u] \cup d.tables[t])
  BY <1>1 DEF After
<1>3. ~Fails(Copy(t, u), d)
  BY <1>1 DEF Fails, Has
<1>4. QED
  BY <1>1, <1>2, <1>3, TableAdded DEF Gains

LEMMA AfterRename ==
    ASSUME NEW d, IsFile(d), NEW t \in DOMAIN d.tables, NEW u, u \notin DOMAIN d.tables
    PROVE  /\ Rename(t, u).op = "rename" /\ ~Fails(Rename(t, u), d)
           /\ \E m : Gains(d, m, u, d.tables[t]) /\ Loses(m, After(Rename(t, u), d), t)
<1>1. Rename(t, u).op = "rename" /\ Rename(t, u).table = u /\ Rename(t, u).from = t
  BY DEF Rename
<1>2. ~Fails(Rename(t, u), d)
  BY <1>1 DEF Fails, Has
<1>3. PICK m : m = WithTable(d, u, d.tables[t])
  OBVIOUS
<1>4. After(Rename(t, u), d) = WithoutTable(m, t)
  BY <1>1, <1>3 DEF After
<1>5. Gains(d, m, u, d.tables[t])
  BY <1>3, TableAdded DEF Gains
<1>6. Loses(m, After(Rename(t, u), d), t)
  BY <1>4, <1>5, TableDropped DEF Loses, Gains
<1>7. QED
  BY <1>1, <1>2, <1>5, <1>6

(* All but some tables are as before. *)
SameBut(d, r, some) ==
    /\ IsFile(r) /\ r.carried = d.carried
    /\ \A t : t \notin some => (t \in DOMAIN r.tables <=> t \in DOMAIN d.tables)
    /\ \A t \in DOMAIN d.tables \ some : r.tables[t] = d.tables[t]

(* Version 6, whose recipients have a new key.                             *)
Rekeyed(left, d, r) ==
    /\ SameBut(d, r, {"ui_drafts", "job_subscribers", "job_subscribers_v5"})
    /\ r.columns = d.columns
    /\ LET has(t) == t \in DOMAIN r.tables
           holds(t) == has(t) /\ r.tables[t] = d.tables["job_subscribers"]
       IN
       \/ /\ left = <<Drop("ui_drafts"), Create("ui_drafts"),
                      Rename("job_subscribers", "job_subscribers_v5"), Create("job_subscribers"),
                      Copy("job_subscribers_v5", "job_subscribers"), Drop("job_subscribers_v5")>>
          /\ has("ui_drafts") /\ holds("job_subscribers") /\ ~has("job_subscribers_v5")
       \/ /\ left = <<Create("ui_drafts"),
                      Rename("job_subscribers", "job_subscribers_v5"), Create("job_subscribers"),
                      Copy("job_subscribers_v5", "job_subscribers"), Drop("job_subscribers_v5")>>
          /\ ~has("ui_drafts") /\ holds("job_subscribers") /\ ~has("job_subscribers_v5")
       \/ /\ left = <<Rename("job_subscribers", "job_subscribers_v5"), Create("job_subscribers"),
                      Copy("job_subscribers_v5", "job_subscribers"), Drop("job_subscribers_v5")>>
          /\ has("ui_drafts") /\ holds("job_subscribers") /\ ~has("job_subscribers_v5")
       \/ /\ left = <<Create("job_subscribers"),
                      Copy("job_subscribers_v5", "job_subscribers"), Drop("job_subscribers_v5")>>
          /\ has("ui_drafts") /\ ~has("job_subscribers") /\ holds("job_subscribers_v5")
       \/ /\ left = <<Copy("job_subscribers_v5", "job_subscribers"), Drop("job_subscribers_v5")>>
          /\ has("ui_drafts") /\ has("job_subscribers") /\ r.tables["job_subscribers"] = {}
          /\ holds("job_subscribers_v5")
       \/ /\ left = <<Drop("job_subscribers_v5")>>
          /\ has("ui_drafts") /\ holds("job_subscribers") /\ holds("job_subscribers_v5")
       \/ /\ left = <<>>
          /\ has("ui_drafts") /\ holds("job_subscribers") /\ ~has("job_subscribers_v5")

(* Version 11, whose sessions have a REAL duration.                        *)
Retyped(left, d, r) ==
    /\ SameBut(d, r, {"media_sessions", "media_sessions_v11"})
    /\ LET has(t) == t \in DOMAIN r.tables
           holds(t) == has(t) /\ r.tables[t] = d.tables["media_sessions"]
       IN
       \/ /\ left = <<Create("media_sessions_v11"), Copy("media_sessions", "media_sessions_v11"),
                      Drop("media_sessions"), Rename("media_sessions_v11", "media_sessions"),
                      Add("media_sessions", "real_duration")>>
          /\ holds("media_sessions") /\ ~has("media_sessions_v11")
          /\ r.columns = d.columns /\ "real_duration" \notin d.columns
       \/ /\ left = <<Copy("media_sessions", "media_sessions_v11"),
                      Drop("media_sessions"), Rename("media_sessions_v11", "media_sessions"),
                      Add("media_sessions", "real_duration")>>
          /\ holds("media_sessions") /\ has("media_sessions_v11")
          /\ r.tables["media_sessions_v11"] = {}
          /\ r.columns = d.columns /\ "real_duration" \notin d.columns
       \/ /\ left = <<Drop("media_sessions"), Rename("media_sessions_v11", "media_sessions"),
                      Add("media_sessions", "real_duration")>>
          /\ holds("media_sessions") /\ holds("media_sessions_v11")
          /\ r.columns = d.columns /\ "real_duration" \notin d.columns
       \/ /\ left = <<Rename("media_sessions_v11", "media_sessions"),
                      Add("media_sessions", "real_duration")>>
          /\ ~has("media_sessions") /\ holds("media_sessions_v11")
          /\ r.columns = d.columns /\ "real_duration" \notin d.columns
       \/ /\ left = <<Add("media_sessions", "real_duration")>>
          /\ holds("media_sessions") /\ ~has("media_sessions_v11")
          /\ r.columns = d.columns /\ "real_duration" \notin d.columns
       \/ /\ left = <<>>
          /\ holds("media_sessions") /\ ~has("media_sessions_v11")
          /\ r.columns = d.columns \cup {"real_duration"}

(* A copied table. *)
LEMMA Filled == \A S : {} \cup S = S
    OBVIOUS

LEMMA RekeyStep ==
    ASSUME NEW d, NEW w, NEW left, left # <<>>, Rekeyed(left, d, w),
           NEW r, r = After(Head(left), w)
    PROVE  /\ Rekeyed(Tail(left), d, r)
           /\ Head(left).op # "script" /\ ~Fails(Head(left), w)
<1> DEFINE has(t) == t \in DOMAIN w.tables
           holds(t) == has(t) /\ w.tables[t] = d.tables["job_subscribers"]
<1>0. IsFile(w)
  BY DEF Rekeyed, SameBut
<1>1. CASE /\ left = <<Drop("ui_drafts"), Create("ui_drafts"),
                      Rename("job_subscribers", "job_subscribers_v5"), Create("job_subscribers"),
                      Copy("job_subscribers_v5", "job_subscribers"), Drop("job_subscribers_v5")>>
           /\ has("ui_drafts") /\ holds("job_subscribers") /\ ~has("job_subscribers_v5")
  <2>1. /\ Head(left) = Drop("ui_drafts")
        /\ Tail(left) = <<Create("ui_drafts"),
                      Rename("job_subscribers", "job_subscribers_v5"), Create("job_subscribers"),
                      Copy("job_subscribers_v5", "job_subscribers"), Drop("job_subscribers_v5")>>
    BY <1>1
  <2>2. Drop("ui_drafts").op = "drop" /\ ~Fails(Drop("ui_drafts"), w) /\ Loses(w, r, "ui_drafts")
    BY <1>0, <2>1, AfterDrop
  <2>3. QED
    BY <1>1, <2>1, <2>2 DEF Rekeyed, SameBut, Loses
<1>2. CASE /\ left = <<Create("ui_drafts"),
                      Rename("job_subscribers", "job_subscribers_v5"), Create("job_subscribers"),
                      Copy("job_subscribers_v5", "job_subscribers"), Drop("job_subscribers_v5")>>
           /\ ~has("ui_drafts") /\ holds("job_subscribers") /\ ~has("job_subscribers_v5")
  <2>1. /\ Head(left) = Create("ui_drafts")
        /\ Tail(left) = <<Rename("job_subscribers", "job_subscribers_v5"), Create("job_subscribers"),
                      Copy("job_subscribers_v5", "job_subscribers"), Drop("job_subscribers_v5")>>
    BY <1>2
  <2>2. Create("ui_drafts").op = "create" /\ ~Fails(Create("ui_drafts"), w)
        /\ Gains(w, r, "ui_drafts", {})
    BY <1>0, <1>2, <2>1, AfterCreate
  <2>3. QED
    BY <1>2, <2>1, <2>2 DEF Rekeyed, SameBut, Gains
<1>3. CASE /\ left = <<Rename("job_subscribers", "job_subscribers_v5"), Create("job_subscribers"),
                      Copy("job_subscribers_v5", "job_subscribers"), Drop("job_subscribers_v5")>>
           /\ has("ui_drafts") /\ holds("job_subscribers") /\ ~has("job_subscribers_v5")
  <2>1. /\ Head(left) = Rename("job_subscribers", "job_subscribers_v5")
        /\ Tail(left) = <<Create("job_subscribers"),
                      Copy("job_subscribers_v5", "job_subscribers"), Drop("job_subscribers_v5")>>
    BY <1>3
  <2>2. /\ Rename("job_subscribers", "job_subscribers_v5").op = "rename"
        /\ ~Fails(Rename("job_subscribers", "job_subscribers_v5"), w)
        /\ \E m : /\ Gains(w, m, "job_subscribers_v5", w.tables["job_subscribers"])
                  /\ Loses(m, r, "job_subscribers")
    BY <1>0, <1>3, <2>1, AfterRename
  <2>3. PICK m : /\ Gains(w, m, "job_subscribers_v5", w.tables["job_subscribers"])
                 /\ Loses(m, r, "job_subscribers")
    BY <2>2
  <2>4. QED
    BY <1>3, <2>1, <2>2, <2>3 DEF Rekeyed, SameBut, Gains, Loses
<1>4. CASE /\ left = <<Create("job_subscribers"),
                      Copy("job_subscribers_v5", "job_subscribers"), Drop("job_subscribers_v5")>>
           /\ has("ui_drafts") /\ ~has("job_subscribers") /\ holds("job_subscribers_v5")
  <2>1. /\ Head(left) = Create("job_subscribers")
        /\ Tail(left) = <<Copy("job_subscribers_v5", "job_subscribers"), Drop("job_subscribers_v5")>>
    BY <1>4
  <2>2. Create("job_subscribers").op = "create" /\ ~Fails(Create("job_subscribers"), w)
        /\ Gains(w, r, "job_subscribers", {})
    BY <1>0, <1>4, <2>1, AfterCreate
  <2>3. QED
    BY <1>4, <2>1, <2>2 DEF Rekeyed, SameBut, Gains
<1>5. CASE /\ left = <<Copy("job_subscribers_v5", "job_subscribers"), Drop("job_subscribers_v5")>>
           /\ has("ui_drafts") /\ has("job_subscribers") /\ w.tables["job_subscribers"] = {}
           /\ holds("job_subscribers_v5")
  <2>1. /\ Head(left) = Copy("job_subscribers_v5", "job_subscribers")
        /\ Tail(left) = <<Drop("job_subscribers_v5")>>
    BY <1>5
  <2>2. /\ Copy("job_subscribers_v5", "job_subscribers").op = "copy"
        /\ ~Fails(Copy("job_subscribers_v5", "job_subscribers"), w)
        /\ Gains(w, r, "job_subscribers",
                 w.tables["job_subscribers"] \cup w.tables["job_subscribers_v5"])
    BY <1>0, <1>5, <2>1, AfterCopy
  <2>3. w.tables["job_subscribers"] \cup w.tables["job_subscribers_v5"] = d.tables["job_subscribers"]
    BY <1>5, Filled
  <2>4. QED
    BY <1>5, <2>1, <2>2, <2>3 DEF Rekeyed, SameBut, Gains
<1>6. CASE /\ left = <<Drop("job_subscribers_v5")>>
           /\ has("ui_drafts") /\ holds("job_subscribers") /\ holds("job_subscribers_v5")
  <2>1. Head(left) = Drop("job_subscribers_v5") /\ Tail(left) = <<>>
    BY <1>6
  <2>2. /\ Drop("job_subscribers_v5").op = "drop" /\ ~Fails(Drop("job_subscribers_v5"), w)
        /\ Loses(w, r, "job_subscribers_v5")
    BY <1>0, <2>1, AfterDrop
  <2>3. QED
    BY <1>6, <2>1, <2>2 DEF Rekeyed, SameBut, Loses
<1>7. QED
  BY <1>1, <1>2, <1>3, <1>4, <1>5, <1>6 DEF Rekeyed

LEMMA RetypeStep ==
    ASSUME NEW d, NEW w, NEW left, left # <<>>, Retyped(left, d, w),
           NEW r, r = After(Head(left), w)
    PROVE  /\ Retyped(Tail(left), d, r)
           /\ Head(left).op # "script" /\ ~Fails(Head(left), w)
<1> DEFINE has(t) == t \in DOMAIN w.tables
           holds(t) == has(t) /\ w.tables[t] = d.tables["media_sessions"]
           same == w.columns = d.columns /\ "real_duration" \notin d.columns
<1>0. IsFile(w)
  BY DEF Retyped, SameBut
<1>1. CASE /\ left = <<Create("media_sessions_v11"), Copy("media_sessions", "media_sessions_v11"),
                      Drop("media_sessions"), Rename("media_sessions_v11", "media_sessions"),
                      Add("media_sessions", "real_duration")>>
           /\ holds("media_sessions") /\ ~has("media_sessions_v11") /\ same
  <2>1. /\ Head(left) = Create("media_sessions_v11")
        /\ Tail(left) = <<Copy("media_sessions", "media_sessions_v11"),
                      Drop("media_sessions"), Rename("media_sessions_v11", "media_sessions"),
                      Add("media_sessions", "real_duration")>>
    BY <1>1
  <2>2. /\ Create("media_sessions_v11").op = "create" /\ ~Fails(Create("media_sessions_v11"), w)
        /\ Gains(w, r, "media_sessions_v11", {})
    BY <1>0, <1>1, <2>1, AfterCreate
  <2>3. QED
    BY <1>1, <2>1, <2>2 DEF Retyped, SameBut, Gains
<1>2. CASE /\ left = <<Copy("media_sessions", "media_sessions_v11"),
                      Drop("media_sessions"), Rename("media_sessions_v11", "media_sessions"),
                      Add("media_sessions", "real_duration")>>
           /\ holds("media_sessions") /\ has("media_sessions_v11")
           /\ w.tables["media_sessions_v11"] = {} /\ same
  <2>1. /\ Head(left) = Copy("media_sessions", "media_sessions_v11")
        /\ Tail(left) = <<Drop("media_sessions"), Rename("media_sessions_v11", "media_sessions"),
                      Add("media_sessions", "real_duration")>>
    BY <1>2
  <2>2. /\ Copy("media_sessions", "media_sessions_v11").op = "copy"
        /\ ~Fails(Copy("media_sessions", "media_sessions_v11"), w)
        /\ Gains(w, r, "media_sessions_v11",
                 w.tables["media_sessions_v11"] \cup w.tables["media_sessions"])
    BY <1>0, <1>2, <2>1, AfterCopy
  <2>3. w.tables["media_sessions_v11"] \cup w.tables["media_sessions"] = d.tables["media_sessions"]
    BY <1>2, Filled
  <2>4. QED
    BY <1>2, <2>1, <2>2, <2>3 DEF Retyped, SameBut, Gains
<1>3. CASE /\ left = <<Drop("media_sessions"), Rename("media_sessions_v11", "media_sessions"),
                      Add("media_sessions", "real_duration")>>
           /\ holds("media_sessions") /\ holds("media_sessions_v11") /\ same
  <2>1. /\ Head(left) = Drop("media_sessions")
        /\ Tail(left) = <<Rename("media_sessions_v11", "media_sessions"),
                      Add("media_sessions", "real_duration")>>
    BY <1>3
  <2>2. /\ Drop("media_sessions").op = "drop" /\ ~Fails(Drop("media_sessions"), w)
        /\ Loses(w, r, "media_sessions")
    BY <1>0, <2>1, AfterDrop
  <2>3. QED
    BY <1>3, <2>1, <2>2 DEF Retyped, SameBut, Loses
<1>4. CASE /\ left = <<Rename("media_sessions_v11", "media_sessions"),
                      Add("media_sessions", "real_duration")>>
           /\ ~has("media_sessions") /\ holds("media_sessions_v11") /\ same
  <2>1. /\ Head(left) = Rename("media_sessions_v11", "media_sessions")
        /\ Tail(left) = <<Add("media_sessions", "real_duration")>>
    BY <1>4
  <2>2. /\ Rename("media_sessions_v11", "media_sessions").op = "rename"
        /\ ~Fails(Rename("media_sessions_v11", "media_sessions"), w)
        /\ \E m : /\ Gains(w, m, "media_sessions", w.tables["media_sessions_v11"])
                  /\ Loses(m, r, "media_sessions_v11")
    BY <1>0, <1>4, <2>1, AfterRename
  <2>3. PICK m : /\ Gains(w, m, "media_sessions", w.tables["media_sessions_v11"])
                 /\ Loses(m, r, "media_sessions_v11")
    BY <2>2
  <2>4. QED
    BY <1>4, <2>1, <2>2, <2>3 DEF Retyped, SameBut, Gains, Loses
<1>5. CASE /\ left = <<Add("media_sessions", "real_duration")>>
           /\ holds("media_sessions") /\ ~has("media_sessions_v11") /\ same
  <2>1. Head(left) = Add("media_sessions", "real_duration") /\ Tail(left) = <<>>
    BY <1>5
  <2>2. PICK s : s = Add("media_sessions", "real_duration")
    OBVIOUS
  <2>3. s.op = "add" /\ s.table = "media_sessions" /\ s.column = "real_duration"
    BY <2>2 DEF Add
  <2>4. r = With(w, "real_duration") /\ ~Fails(s, w)
    BY <1>5, <2>1, <2>2, <2>3 DEF After, Fails, Has
  <2>5. IsFile(r) /\ r.tables = w.tables /\ r.carried = w.carried
        /\ r.columns = w.columns \cup {"real_duration"}
    BY <1>0, <2>4, ColumnAdded
  <2>6. QED
    BY <1>5, <2>1, <2>2, <2>3, <2>4, <2>5 DEF Retyped, SameBut
<1>6. QED
  BY <1>1, <1>2, <1>3, <1>4, <1>5 DEF Retyped

-----------------------------------------------------------------------------
(***************************************************************************)
(* The migrations.                                                         *)
(***************************************************************************)
SchemaInv ==
    /\ version \in 0..11
    /\ inTransaction \in BOOLEAN
    /\ Consistent(db, version)
    /\ applying = 0 \/ (applying = version + 1 /\ applying <= 11)
    /\ applying = 0 => todo = <<>> /\ work = db
    /\ applying \in PlainVersions =>
          /\ IsFile(work) /\ Due(todo, applying, work) /\ Keeps(db, work)
          /\ ~inTransaction => work = db /\ applying \in {1, 4}
    /\ applying = 6 => inTransaction /\ Rekeyed(todo, db, work)
    /\ applying = 11 => inTransaction /\ Retyped(todo, db, work)

LEMMA KeepsItself == ASSUME NEW d PROVE Keeps(d, d)
    BY DEF Keeps

LEMMA KeepsOn ==
    ASSUME NEW c, NEW d, NEW e, Keeps(c, d), Keeps(d, e)
    PROVE  Keeps(c, e)
    BY DEF Keeps

(* Between two versions nothing is under way. *)
LEMMA Settled ==
    ASSUME version \in 0..11, inTransaction = FALSE, Consistent(db, version),
           applying = 0, todo = <<>>, work = db
    PROVE  SchemaInv
<1>1. 0 \notin PlainVersions
  BY DEF PlainVersions
<1>2. applying \notin PlainVersions
  BY <1>1
<1>3. ~(applying = 6) /\ ~(applying = 11)
  OBVIOUS
<1>4. inTransaction \in BOOLEAN
  OBVIOUS
<1>5. QED
  BY <1>2, <1>3, <1>4, Zenon DEF SchemaInv

LEMMA SettledNext ==
    ASSUME version' \in 0..11, inTransaction' = FALSE, Consistent(db', version'),
           applying' = 0, todo' = <<>>, work' = db'
    PROVE  SchemaInv'
<1>1. 0 \notin PlainVersions
  BY DEF PlainVersions
<1>2. applying' \notin PlainVersions
  BY <1>1
<1>3. ~(applying' = 6) /\ ~(applying' = 11)
  OBVIOUS
<1>4. inTransaction' \in BOOLEAN
  OBVIOUS
<1>5. QED
  BY <1>2, <1>3, <1>4, Zenon DEF SchemaInv

LEMMA SchemaFirst == SchemaInit => SchemaInv
<1> SUFFICES ASSUME SchemaInit PROVE SchemaInv
  OBVIOUS
<1>1. version \in 0..11 /\ applying = 0 /\ todo = <<>> /\ work = db /\ inTransaction = FALSE
  BY DEF SchemaInit
<1>2. Consistent(db, version)
  <2>1. CASE version = 0 /\ db = NoFile
    <3>1. IsFile(db) /\ DOMAIN db.tables = {} /\ db.columns = {"real_duration"}
      BY <2>1 DEF NoFile, IsFile
    <3>2. Required(0) = {} /\ RequiredColumns(0) = {}
      BY DEF Required, RequiredColumns
    <3>3. QED
      BY <2>1, <3>1, <3>2 DEF Consistent, Carried
  <2>2. CASE version = 1 /\ (db = FirstFile \/ db = With(FirstFile, "real_duration"))
    <3>1. IsFile(FirstFile) /\ DOMAIN FirstFile.tables = Base1 /\ FirstFile.columns = {}
      BY DEF FirstFile, IsFile, Base1
    <3>2. IsFile(db) /\ DOMAIN db.tables = Base1 /\ "projected_bytes" \notin db.columns
      <4>1. CASE db = FirstFile
        BY <3>1, <4>1
      <4>2. CASE db = With(FirstFile, "real_duration")
        <5>1. IsFile(db) /\ db.tables = FirstFile.tables /\ db.columns = {} \cup {"real_duration"}
          BY <3>1, <4>2, ColumnAdded
        <5>2. QED
          BY <3>1, <5>1
      <4>3. QED
        BY <2>2, <4>1, <4>2
    <3>3. Required(1) = Base1 /\ Allowed(1) = Base1 /\ RequiredColumns(1) = {}
      BY DEF Required, Allowed, RequiredColumns
    <3>4. QED
      BY <2>2, <3>2, <3>3 DEF Consistent, Carried
  <2>3. QED
    BY <2>1, <2>2 DEF SchemaInit
<1>3. QED
  BY <1>1, <1>2, Settled

LEMMA BeginKeepsSchema == SchemaInv /\ Begin => SchemaInv'
<1> SUFFICES ASSUME SchemaInv, Begin PROVE SchemaInv'
  OBVIOUS
<1>1. /\ version \in 0..10 /\ applying' = version + 1 /\ work' = db /\ inTransaction' = TRUE
      /\ db' = db /\ version' = version
  BY DEF Begin, SchemaInv, CURRENT_SCHEMA_VERSION
<1>2. Consistent(db, version)
  BY DEF SchemaInv
<1>3. PICK v \in 1..11 : v = version + 1 /\ version = v - 1
  BY <1>1
<1>4. todo' = Migration(v, db)
  BY <1>3 DEF Begin
<1>5. v \in PlainVersions => Due(todo', v, db)
  <2>1. CASE v = 1
    BY <1>2, <1>3, <1>4, <2>1, Version1, 1 - 1 = 0 DEF Migration
  <2>2. CASE v = 2
    BY <1>2, <1>3, <1>4, <2>2, Version2, 2 - 1 = 1 DEF Migration
  <2>3. CASE v = 3
    BY <1>2, <1>3, <1>4, <2>3, Version3, 3 - 1 = 2 DEF Migration
  <2>4. CASE v = 4
    BY <1>2, <1>3, <1>4, <2>4, Version4, 4 - 1 = 3 DEF Migration
  <2>5. CASE v = 5
    BY <1>2, <1>3, <1>4, <2>5, Version5, 5 - 1 = 4 DEF Migration
  <2>7. CASE v = 7
    BY <1>2, <1>3, <1>4, <2>7, Version7, 7 - 1 = 6 DEF Migration
  <2>8. CASE v = 8
    BY <1>2, <1>3, <1>4, <2>8, Version8, 8 - 1 = 7 DEF Migration
  <2>9. CASE v = 9
    BY <1>2, <1>3, <1>4, <2>9, Version9, 9 - 1 = 8 DEF Migration
  <2>10. CASE v = 10
    BY <1>2, <1>3, <1>4, <2>10, Version10, 10 - 1 = 9 DEF Migration
  <2>11. v \in PlainVersions =>
            v = 1 \/ v = 2 \/ v = 3 \/ v = 4 \/ v = 5 \/ v = 7 \/ v = 8 \/ v = 9 \/ v = 10
    BY DEF PlainVersions
  <2>12. QED
    BY <2>1, <2>2, <2>3, <2>4, <2>5, <2>7, <2>8, <2>9, <2>10, <2>11
<1>6. ASSUME v = 6 PROVE Rekeyed(todo', db, db)
  <2>1. version = 5
    BY <1>3, <1>6
  <2>2. /\ "ui_drafts" \in DOMAIN db.tables /\ "job_subscribers" \in DOMAIN db.tables
        /\ "job_subscribers_v5" \notin DOMAIN db.tables /\ IsFile(db)
    BY <1>2, <2>1 DEF Consistent, Required, Allowed, Base1, Base4
  <2>3. todo' = migration_v6(db)
    BY <1>4, <1>6 DEF Migration
  <2>4. QED
    BY <2>2, <2>3 DEF Rekeyed, SameBut, migration_v6
<1>7. ASSUME v = 11 PROVE Retyped(todo', db, db)
  <2>1. version = 10
    BY <1>3, <1>7
  <2>2. /\ "media_sessions" \in DOMAIN db.tables
        /\ "media_sessions_v11" \notin DOMAIN db.tables /\ IsFile(db)
    BY <1>2, <2>1 DEF Consistent, Required, Allowed, Base1, Base4, Base10
  <2>3. todo' = migration_v11(db)
    BY <1>4, <1>7 DEF Migration
  <2>4. CASE "real_duration" \in db.columns
    <3>1. todo' = <<>> /\ db.columns = db.columns \cup {"real_duration"}
      BY <2>3, <2>4 DEF migration_v11
    <3>2. QED
      BY <2>2, <3>1 DEF Retyped, SameBut
  <2>5. CASE "real_duration" \notin db.columns
    BY <2>2, <2>3, <2>5 DEF Retyped, SameBut, migration_v11
  <2>6. QED
    BY <2>4, <2>5
<1>8. applying' = v /\ v # 0 /\ v <= 11 /\ IsFile(db)
  BY <1>1, <1>2, <1>3 DEF Consistent
<1>9. Consistent(db', version') /\ version' \in 0..11 /\ v = version' + 1
  BY <1>1, <1>2, <1>3
<1>10. QED
  BY <1>1, <1>5, <1>6, <1>7, <1>8, <1>9, KeepsItself DEF SchemaInv

LEMMA StatementKeepsSchema == SchemaInv /\ Statement => SchemaInv' /\ Keeps(db, db')
<1> SUFFICES ASSUME SchemaInv, Statement PROVE SchemaInv' /\ Keeps(db, db')
  OBVIOUS
<1>1. /\ todo # <<>> /\ work' = After(Head(todo), work) /\ todo' = Tail(todo)
      /\ inTransaction' = (inTransaction /\ Head(todo).op # "script")
      /\ db' = IF inTransaction' THEN db ELSE work'
      /\ version' = version /\ applying' = applying
  BY DEF Statement
<1>2. PICK v \in 1..11 : v = applying /\ version = v - 1
  BY <1>1 DEF SchemaInv
<1>3. CASE v \in PlainVersions
  <2>1. /\ IsFile(work) /\ Due(todo, v, work) /\ Keeps(db, work)
        /\ ~inTransaction => work = db /\ v \in {1, 4}
    BY <1>2, <1>3 DEF SchemaInv
  <2>2. /\ IsFile(work') /\ Due(todo', v, work') /\ Keeps(work, work')
    BY <1>1, <1>3, <2>1, OneDone
  <2>3. Keeps(db, work')
    BY <2>1, <2>2, KeepsOn
  <2>4. Keeps(db, db') /\ Keeps(db', work')
    BY <1>1, <2>3, KeepsItself
  <2>5. ASSUME ~inTransaction' PROVE v \in {1, 4} /\ db' = work'
    <3>1. CASE Head(todo).op = "script"
      <4>1. todo \in Seq(PlainStatements)
        BY <2>1 DEF Due
      <4>2. In(Head(todo), todo)
        BY <1>1, <4>1, Rest
      <4>3. QED
        BY <1>1, <2>1, <2>5, <3>1, <4>2 DEF Due, Fits
    <3>2. CASE Head(todo).op # "script"
      BY <1>1, <2>1, <2>5, <3>2 DEF SchemaInv
    <3>3. QED
      BY <3>1, <3>2
  <2>6. Consistent(db', version)
    <3>1. CASE inTransaction'
      BY <1>1, <3>1 DEF SchemaInv
    <3>2. CASE ~inTransaction'
      <4>1. v \in {1, 4} /\ db' = work'
        BY <2>5, <3>2
      <4>2. Required(v - 1) \subseteq DOMAIN work'.tables /\ RequiredColumns(v - 1) \subseteq work'.columns
        BY <2>2 DEF Due
      <4>3. Allowed(v) = Allowed(v - 1)
        BY <4>1 DEF Allowed
      <4>4. DOMAIN work'.tables \subseteq Allowed(v - 1)
        BY <2>2, <4>3 DEF Due
      <4>5. Carried(work')
        <5>1. ASSUME NEW s, In(s, todo'), s.op = "carry" PROVE FALSE
          <6>1. Fits(s, v, work')
            BY <2>2, <5>1 DEF Due
          <6>2. QED
            BY <4>1, <5>1, <6>1 DEF Fits
        <5>2. Carried(work') \/ \E s : In(s, todo') /\ s.op = "carry"
          BY <2>2 DEF Due
        <5>3. QED
          BY <5>1, <5>2
      <4>6. ~(v - 1 >= 5)
        BY <4>1
      <4>7. QED
        BY <1>2, <2>2, <4>1, <4>2, <4>4, <4>5, <4>6 DEF Consistent
    <3>3. QED
      BY <3>1, <3>2
  <2>7. v # 6 /\ v # 11 /\ v # 0
    BY <1>3 DEF PlainVersions
  <2>8. inTransaction' \in BOOLEAN
    BY <1>1
  <2>9. SchemaInv'
    BY <1>1, <1>2, <2>2, <2>4, <2>5, <2>6, <2>7, <2>8 DEF SchemaInv
  <2>10. QED
    BY <2>4, <2>9
<1>4. CASE v = 6
  <2>1. inTransaction /\ Rekeyed(todo, db, work)
    BY <1>2, <1>4 DEF SchemaInv
  <2>2. Rekeyed(todo', db, work') /\ Head(todo).op # "script"
    BY <1>1, <2>1, RekeyStep
  <2>3. inTransaction' = TRUE /\ db' = db
    BY <1>1, <2>1, <2>2
  <2>4. 6 \notin PlainVersions
    BY DEF PlainVersions
  <2>5. SchemaInv'
    BY <1>1, <1>2, <1>4, <2>2, <2>3, <2>4 DEF SchemaInv
  <2>6. QED
    BY <2>3, <2>5, KeepsItself
<1>5. CASE v = 11
  <2>1. inTransaction /\ Retyped(todo, db, work)
    BY <1>2, <1>5 DEF SchemaInv
  <2>2. Retyped(todo', db, work') /\ Head(todo).op # "script"
    BY <1>1, <2>1, RetypeStep
  <2>3. inTransaction' = TRUE /\ db' = db
    BY <1>1, <2>1, <2>2
  <2>4. 11 \notin PlainVersions
    BY DEF PlainVersions
  <2>5. SchemaInv'
    BY <1>1, <1>2, <1>5, <2>2, <2>3, <2>4 DEF SchemaInv
  <2>6. QED
    BY <2>3, <2>5, KeepsItself
<1>6. QED
  BY <1>3, <1>4, <1>5 DEF PlainVersions

LEMMA Recorded ==
    ASSUME SchemaInv, applying # 0, todo = <<>>
    PROVE  Consistent(work, applying) /\ Keeps(db, work)
<1>1. PICK v \in 1..11 : v = applying /\ version = v - 1
  BY DEF SchemaInv
<1>2. CASE v \in PlainVersions
  BY <1>1, <1>2, AllDone DEF SchemaInv
<1>3. CASE v = 6
  <2>1. Rekeyed(<<>>, db, work) /\ Consistent(db, 5)
    BY <1>1, <1>3 DEF SchemaInv
  <2>2. /\ SameBut(db, work, {"ui_drafts", "job_subscribers", "job_subscribers_v5"})
        /\ work.columns = db.columns
        /\ "ui_drafts" \in DOMAIN work.tables /\ "job_subscribers" \in DOMAIN work.tables
        /\ work.tables["job_subscribers"] = db.tables["job_subscribers"]
        /\ "job_subscribers_v5" \notin DOMAIN work.tables
    BY <2>1 DEF Rekeyed
  <2>3. /\ Required(5) = Base4 /\ Required(6) = Base4 /\ Allowed(5) = Base4 /\ Allowed(6) = Base4
        /\ RequiredColumns(6) = RequiredColumns(5)
    BY DEF Required, Allowed, RequiredColumns
  <2>4. /\ \A t \in Base4 : t \in DOMAIN db.tables
        /\ "disk_reservations" \in Base4 /\ "download_jobs" \in Base4
    BY <2>1, <2>3 DEF Consistent, Base1, Base4
  <2>5. Required(6) \subseteq DOMAIN work.tables
    <3>1. ASSUME NEW t \in Base4 PROVE t \in DOMAIN work.tables
      <4>1. t \in DOMAIN db.tables /\ t # "job_subscribers_v5"
        BY <2>4 DEF Base1, Base4
      <4>2. QED
        BY <2>2, <4>1 DEF SameBut
    <3>2. QED
      BY <2>3, <3>1
  <2>6. DOMAIN work.tables \subseteq Allowed(6)
    BY <2>1, <2>2, <2>3 DEF SameBut, Consistent, Base4
  <2>7. work.tables["disk_reservations"] = db.tables["disk_reservations"]
        /\ work.tables["download_jobs"] = db.tables["download_jobs"]
    BY <2>2, <2>4 DEF SameBut
  <2>8. Consistent(work, 6)
    BY <2>1, <2>2, <2>3, <2>4, <2>5, <2>6, <2>7 DEF Consistent, SameBut, Carried, Joined5
  <2>9. Keeps(db, work)
    BY <2>2 DEF Keeps, Protected, SameBut
  <2>10. QED
    BY <1>1, <1>3, <2>8, <2>9
<1>4. CASE v = 11
  <2>1. Retyped(<<>>, db, work) /\ Consistent(db, 10)
    BY <1>1, <1>4 DEF SchemaInv
  <2>2. /\ SameBut(db, work, {"media_sessions", "media_sessions_v11"})
        /\ work.columns = db.columns \cup {"real_duration"}
        /\ "media_sessions" \in DOMAIN work.tables
        /\ work.tables["media_sessions"] = db.tables["media_sessions"]
        /\ "media_sessions_v11" \notin DOMAIN work.tables
    BY <2>1 DEF Retyped
  <2>3. /\ Required(10) = Base10 /\ Required(11) = Base10
        /\ Allowed(10) = Base10 /\ Allowed(11) = Base10
        /\ RequiredColumns(11) \subseteq RequiredColumns(10) \cup {"real_duration"}
    BY DEF Required, Allowed, RequiredColumns
  <2>4. /\ \A t \in Base10 : t \in DOMAIN db.tables
        /\ "disk_reservations" \in Base10 /\ "download_jobs" \in Base10
        /\ "job_subscribers" \in Base10
    BY <2>1, <2>3 DEF Consistent, Base1, Base4, Base10
  <2>5. Required(11) \subseteq DOMAIN work.tables
    <3>1. ASSUME NEW t \in Base10 PROVE t \in DOMAIN work.tables
      <4>1. t \in DOMAIN db.tables /\ t # "media_sessions_v11"
        BY <2>4 DEF Base1, Base4, Base10
      <4>2. QED
        BY <2>2, <4>1 DEF SameBut
    <3>2. QED
      BY <2>3, <3>1
  <2>6. DOMAIN work.tables \subseteq Allowed(11)
    BY <2>1, <2>2, <2>3 DEF SameBut, Consistent, Base1, Base4, Base10
  <2>7. /\ work.tables["disk_reservations"] = db.tables["disk_reservations"]
        /\ work.tables["download_jobs"] = db.tables["download_jobs"]
        /\ work.tables["job_subscribers"] = db.tables["job_subscribers"]
    BY <2>2, <2>4 DEF SameBut
  <2>8. Consistent(work, 11)
    <3>1. RequiredColumns(11) \subseteq work.columns
      BY <2>1, <2>2, <2>3 DEF Consistent
    <3>2. Carried(work) /\ Joined5(work) /\ IsFile(work)
      BY <2>1, <2>2, <2>4, <2>7 DEF Consistent, SameBut, Carried, Joined5
    <3>3. QED
      BY <2>5, <2>6, <3>1, <3>2 DEF Consistent
  <2>9. Keeps(db, work)
    BY <2>2 DEF Keeps, Protected, SameBut
  <2>10. QED
    BY <1>1, <1>4, <2>8, <2>9
<1>5. QED
  BY <1>2, <1>3, <1>4 DEF PlainVersions

LEMMA MigrateKeepsSchema == SchemaInv /\ Migrate => SchemaInv' /\ Keeps(db, db')
<1> SUFFICES ASSUME SchemaInv, Migrate PROVE SchemaInv' /\ Keeps(db, db')
  OBVIOUS
<1>1. CASE Begin
  <2>1. db' = db
    BY <1>1 DEF Begin
  <2>2. QED
    BY <1>1, <2>1, BeginKeepsSchema, KeepsItself
<1>2. CASE Statement
  BY <1>2, StatementKeepsSchema
<1>3. CASE Record
  <2>1. /\ applying # 0 /\ todo = <<>> /\ version' = applying /\ db' = work /\ applying' = 0
        /\ inTransaction' = FALSE /\ work' = work /\ todo' = todo
    BY <1>3 DEF Record
  <2>2. Consistent(work, applying) /\ Keeps(db, work)
    BY <2>1, Recorded
  <2>3. version' \in 0..11
    BY <2>1 DEF SchemaInv
  <2>4. Consistent(db', version') /\ todo' = <<>> /\ work' = db'
    BY <2>1, <2>2
  <2>5. SchemaInv'
    BY <2>1, <2>3, <2>4, SettledNext
  <2>6. QED
    BY <2>1, <2>2, <2>5
<1>4. CASE CrashWhileMigrating
  <2>1. /\ work' = db /\ todo' = <<>> /\ applying' = 0 /\ inTransaction' = FALSE
        /\ db' = db /\ version' = version
    BY <1>4 DEF CrashWhileMigrating
  <2>2. Consistent(db', version') /\ version' \in 0..11 /\ work' = db'
    BY <2>1 DEF SchemaInv
  <2>3. SchemaInv'
    BY <2>1, <2>2, SettledNext
  <2>4. QED
    BY <2>1, <2>3, KeepsItself
<1>5. QED
  BY <1>1, <1>2, <1>3, <1>4 DEF Migrate

(* Whatever else happens leaves the file's shape alone. *)
LEMMA NextKeepsSchema == SchemaInv /\ [Next]_vars => SchemaInv' /\ Keeps(db, db')
<1> SUFFICES ASSUME SchemaInv, [Next]_vars PROVE SchemaInv' /\ Keeps(db, db')
  OBVIOUS
<1>1. CASE Migrate
  BY <1>1, MigrateKeepsSchema
<1>2. CASE UNCHANGED schema
  BY <1>2, KeepsItself DEF schema, SchemaInv
<1>3. CASE Start
  BY <1>2, <1>3 DEF Start, schemaVars
<1>4. CASE Crash
  BY <1>2, <1>4 DEF Crash
<1>5. CASE UNCHANGED vars
  BY <1>2, <1>5 DEF vars, schemaVars
<1>6. CASE up /\ Running /\ UNCHANGED <<schemaVars, up>>
  BY <1>2, <1>6 DEF schemaVars
<1>7. CASE up /\ Refuse /\ UNCHANGED <<schema, up>>
  BY <1>2, <1>7
<1>8. QED
  BY <1>1, <1>3, <1>4, <1>5, <1>6, <1>7 DEF Next

LEMMA SchemaInvHolds == Spec => []SchemaInv
<1>1. Init => SchemaInv
  BY SchemaFirst DEF Init
<1>2. QED
  BY <1>1, NextKeepsSchema, PTL DEF Spec

LEMMA SchemaIsRight == SchemaInv => MigrationsAreRepeatable
<1> SUFFICES ASSUME SchemaInv PROVE MigrationsAreRepeatable
  OBVIOUS
<1>1. MigrationsSucceed
  <2> SUFFICES ASSUME todo # <<>> PROVE ~Fails(Head(todo), work)
    BY DEF MigrationsSucceed
  <2>1. PICK v \in 1..11 : v = applying /\ version = v - 1
    BY DEF SchemaInv
  <2>2. CASE v \in PlainVersions
    BY <2>1, <2>2, OneDone DEF SchemaInv
  <2>3. CASE v = 6
    BY <2>1, <2>3, RekeyStep DEF SchemaInv
  <2>4. CASE v = 11
    BY <2>1, <2>4, RetypeStep DEF SchemaInv
  <2>5. QED
    BY <2>2, <2>3, <2>4 DEF PlainVersions
<1>2. ASSUME SchemaIsCurrent PROVE ReadyWhenCurrent
  <2>1. Consistent(db, 11)
    BY <1>2 DEF SchemaInv, SchemaIsCurrent, CURRENT_SCHEMA_VERSION
  <2>2. Required(11) = Base10 /\ Allowed(11) = Base10
    BY DEF Required, Allowed
  <2>3. DOMAIN db.tables = Base10
    BY <2>1, <2>2 DEF Consistent
  <2>4. \A c \in {"source_url", "projected_bytes", "actual_bytes", "extras_json", "output_identity",
            "collection_entry_id", "ytdlp_impersonated", "execution_identity", "real_duration"} :
          c \in RequiredColumns(11)
    BY DEF RequiredColumns, ColumnNames
  <2>5. db.tables["disk_reservations"] \subseteq db.carried
    BY <2>1, <2>3, <2>4 DEF Consistent, Carried, Base1, Base4, Base10
  <2>6. db.tables["download_jobs"] \subseteq db.tables["job_subscribers"]
    BY <2>1 DEF Consistent, Joined5
  <2>7. QED
    BY <2>1, <2>3, <2>4, <2>5, <2>6 DEF ReadyWhenCurrent, Consistent, Base1, Base4, Base10
<1>3. ~SchemaIsCurrent => ReadyWhenCurrent
  BY DEF ReadyWhenCurrent
<1>4. QED
  BY <1>1, <1>2, <1>3 DEF MigrationsAreRepeatable

(* database.py:_run_migrations: from a file of any release, cut off         *)
(* anywhere and any number of times, no statement of a later start fails,  *)
(* and the schema that is reached is complete.                             *)
THEOREM UpgradesCanBeRepeated == Spec => []MigrationsAreRepeatable
  BY SchemaInvHolds, SchemaIsRight, PTL

(* No row of jobs, sessions, reservations or recipients is ever missing     *)
(* from the committed file, though two migrations rebuild a table.         *)
THEOREM UpgradesLoseNoRow == Spec => RowsAreKept
<1>1. SchemaInv /\ [Next]_vars =>
        [\A t \in {"download_jobs", "media_sessions", "disk_reservations", "job_subscribers"} :
            Has(db, t) => Has(db', t) /\ db.tables[t] \subseteq db'.tables[t]]_db
  BY NextKeepsSchema DEF Keeps, Protected, Has
<1>2. QED
  BY <1>1, SchemaInvHolds, PTL DEF Spec, RowsAreKept
-----------------------------------------------------------------------------
(***************************************************************************)
(* The presses and the two lines they wait in: the statements handed to    *)
(* the database thread (queue), and its answers (results).                 *)
(***************************************************************************)
WaitPcs  == {"check", "set", "reset", "last", "asks", "consumes", "saves", "reads", "looks"}
PressPcs == WaitPcs \cup {"idle", "offered", "answers", "done", "failed", "gone"}

Replies == BOOLEAN \cup {None, Failed, "user", "suspended", "admin"}

PressRecords ==
    [op : Operations \cup {Idle}, pc : PressPcs, got : Values \cup Profiles \cup Replies,
     read : SUBSET Profiles, off : SUBSET Profiles, overtaken : SUBSET Profiles]

Statements ==
         [do : {"get user"}, user : Users] \cup [do : {"get session"}, profile : Profiles]
    \cup [do : {"set_runtime_setting", "delete_runtime_setting"}, key : Keys,
          value : Values \cup {None}]
    \cup [do : {"scheduler_paused"}, on : BOOLEAN] \cup [do : {"operation"}]
    \cup [do : {"save_ui_draft", "delete_ui_draft", "consume_ui_draft"}, token : Presses]
    \cup [do : {"session_disabled"}, profile : Profiles, on : BOOLEAN]
    \cup [do : {"put user"}, user : Users, as : {"user", "suspended"}]

Requests == [press : Presses, statement : Statements]
Answers  == [press : Presses, value : Replies]

Entries(line) == {line[i] : i \in 1..Len(line)}
Waits(line, p) == \E i \in 1..Len(line) : line[i].press = p
OncePer(line) == \A i, j \in 1..Len(line) : line[i].press = line[j].press => i = j

(* The last entry of E in the line, and that there is none.                *)
LastOf(line, E, e) ==
    /\ e \in E
    /\ \E i \in 1..Len(line) : line[i] = e /\ \A j \in (i + 1)..Len(line) : line[j] \notin E
NoneOf(line, E) == \A i \in 1..Len(line) : line[i] \notin E

RowsInv ==
    /\ up \in BOOLEAN /\ _paused \in BOOLEAN /\ pausedRow \in BOOLEAN
    /\ setting \in [Keys -> Values] /\ _overrides \subseteq Keys
    /\ stored \in [Keys -> Values \cup {None}]
    /\ _disabled \subseteq Profiles /\ disabledRows \subseteq Profiles
    /\ users \in [Users -> {None, "user", "suspended", "admin"}]
    /\ drafts \subseteq Presses /\ expired \subseteq Presses
    /\ faults \in 0..MaxFaults
    /\ performed \in [Presses -> 0..1]

LineInv ==
    /\ queue \in Seq(Requests) /\ results \in Seq(Answers)
    /\ OncePer(queue) /\ OncePer(results)
    /\ \A p \in Presses :
        /\ ~(Waits(queue, p) /\ Waits(results, p))
        /\ Waits(queue, p) \/ Waits(results, p) => up /\ press[p].pc \in WaitPcs

(* How far a press is tells which button it was, and what it has read.     *)
Fitting(r) ==
    /\ r.pc = "idle" => r.op = Idle
    /\ r.pc # "idle" => r.op \in Operations
    /\ r.pc \in {"idle", "check"} => r.got = None /\ r.read = {}
    /\ r.pc = "set" => r.op.op \in {"perf", "resource"} /\ r.got \in Values
    /\ r.pc = "reset" => r.op.op = "perfreset"
    /\ r.pc = "last" => r.op.op \in {"pause", "dismiss", "confirm", "allow", "disallow", "user"}
    /\ r.pc \in {"asks", "offered"} => r.op.op = "ask"
    /\ r.pc \in {"consumes", "answers", "saves"} => r.op.op = "confirm"
    /\ r.pc = "saves" => r.got \in BOOLEAN
    /\ r.pc = "reads" => r.op.op = "refresh" /\ r.got \in Profiles
    /\ r.pc = "looks" => r.op.op = "user"
    /\ r.off \subseteq r.read /\ r.overtaken \subseteq r.read

PressInv ==
    /\ press \in [Presses -> PressRecords]
    /\ \A p \in Presses :
        /\ Fitting(press[p])
        /\ press[p].op.op \in {"confirm", "dismiss"} => Offered(press[p].op.token)
        /\ press[p].pc = "saves" => What(p) \in Profiles
        /\ ~up => press[p].pc \notin WaitPcs \cup {"answers"}

(* The button o is an /allow, and s is its statement.                      *)
Allows(o, s) == o = [op |-> "allow", target |-> s.user] /\ s.as = "user"

(* The statement that the press p waits for.                               *)
Asked(p, s) ==
    /\ press[p].pc = "check" => s.do = "get user"
    /\ press[p].pc = "set" =>
          s.do = "set_runtime_setting" /\ s.key = KeyOf(p) /\ s.value = press[p].got
    /\ press[p].pc = "reset" => s.do = "delete_runtime_setting" /\ s.key = Limit /\ s.value = None
    /\ press[p].pc = "last" =>
          \/ press[p].op.op = "pause" /\ s.do = "scheduler_paused" /\ s.on = press[p].op.on
          \/ press[p].op.op = "dismiss" /\ s.do = "delete_ui_draft" /\ s.token = press[p].op.token
          \/ press[p].op.op = "confirm" /\ s.do = "operation"
          \/ /\ press[p].op.op \in {"allow", "disallow", "user"} /\ s.do = "put user"
             /\ s.user \in Owners => Allows(press[p].op, s)
    /\ press[p].pc = "asks" => s.do = "save_ui_draft" /\ s.token = p
    /\ press[p].pc = "consumes" => s.do = "consume_ui_draft" /\ s.token = press[p].op.token
    /\ press[p].pc = "saves" =>
          s.do = "session_disabled" /\ s.profile = What(p) /\ s.on = press[p].got
    /\ press[p].pc = "reads" =>
          s.do = "get session" /\ s.profile = press[p].got /\ press[p].got \notin press[p].read
    /\ press[p].pc = "looks" => s.do = "get user"

StatementInv == \A e \in Entries(queue) : Asked(e.press, e.statement)

(* A setting is as stored, or the last answer to a write of it will make it so. *)
WritesOf(k) ==
    {e \in Answers : press[e.press].pc \in {"set", "reset"} /\ KeyOf(e.press) = k /\ e.value # Failed}
Written(p) == IF press[p].pc = "set" THEN press[p].got ELSE None
Matches(k) ==
    /\ setting[k] = IF stored[k] = None THEN Bootstrap[k] ELSE stored[k]
    /\ k \in _overrides <=> stored[k] # None

SettingFits(k) ==
    \/ NoneOf(results, WritesOf(k)) /\ Matches(k)
    \/ \E e \in Entries(results) : LastOf(results, WritesOf(k), e) /\ stored[k] = Written(e.press)
SettingInv == up => \A k \in Keys : SettingFits(k)

(* The pause is as stored, or the last statement about it will make it so, *)
(* unless that of the press that asked for the pause in force was refused. *)
PauseRequests == {e \in Requests : e.statement.do = "scheduler_paused"}
PauseRefused ==
    \E p \in Presses :
        /\ press[p].op = [op |-> "pause", on |-> _paused]
        /\ \/ press[p].pc = "failed"
           \/ press[p].pc = "last" /\ [press |-> p, value |-> Failed] \in Entries(results)

PauseInv ==
    up => \/ PauseRefused
          \/ NoneOf(queue, PauseRequests) /\ _paused = pausedRow
          \/ \E e \in Entries(queue) : LastOf(queue, PauseRequests, e) /\ e.statement.on = _paused

(* The same of a session, unless a refresh was overtaken by its button.    *)
SavesOf(x) == {e \in Answers : press[e.press].pc = "saves" /\ What(e.press) = x /\ e.value # Failed}
Overtaken(x) == \E p \in Presses : x \in press[p].overtaken

SessionFits(x) ==
    \/ Overtaken(x)
    \/ NoneOf(results, SavesOf(x)) /\ (x \in _disabled <=> x \in disabledRows)
    \/ \E e \in Entries(results) :
          LastOf(results, SavesOf(x), e) /\ (x \in disabledRows <=> press[e.press].got = FALSE)
SessionInv == up => \A x \in Profiles : SessionFits(x)

(* What a refresh has read is still so, unless it was overtaken.           *)
ReadAs(p, x) ==
    x \in press[p].off \/ (x = press[p].got /\ [press |-> p, value |-> TRUE] \in Entries(results))

ReadInv ==
    \A p \in Presses : press[p].pc = "reads" =>
        /\ \A x \in press[p].read \ press[p].overtaken : ReadAs(p, x) <=> x \in disabledRows
        /\ \A e \in Entries(results) :
              e.press = p /\ e.value # Failed =>
                  press[p].got \in press[p].read \ press[p].off /\ e.value \in BOOLEAN

(* Who has used up the confirmation t.                                     *)
Holds(q, t) ==
    /\ press[q].op.op \in {"confirm", "dismiss"} /\ press[q].op.token = t
    /\ \/ press[q].pc = "answers"
       \/ press[q].pc = "done" /\ press[q].op.op = "dismiss" /\ press[q].got = TRUE
       \/ press[q].pc \in {"consumes", "last"} /\ [press |-> q, value |-> TRUE] \in Entries(results)

TokenInv ==
    \A t \in Presses :
        /\ \A q, r \in Presses : Holds(q, t) /\ Holds(r, t) => q = r
        /\ t \in drafts \/ performed[t] # 0 => \A q \in Presses : ~Holds(q, t)
        /\ t \in drafts => performed[t] = 0
        /\ performed[t] # 0 => press[t].pc = "offered"

(* Whoever took away the rights of an owner has had the answer, or has it  *)
(* waiting, that it is written.                                            *)
HasAllowed(p, u) ==
    /\ press[p].op = [op |-> "allow", target |-> u]
    /\ \/ press[p].pc = "done"
       \/ press[p].pc = "last" /\ [press |-> p, value |-> None] \in Entries(results)

OwnerInv ==
    \A u \in Owners :
        /\ users[u] # "suspended"
        /\ up => users[u] = "admin" \/ \E p \in Presses : HasAllowed(p, u)

AdminInv ==
    /\ RowsInv /\ LineInv /\ PressInv /\ StatementInv
    /\ SettingInv /\ PauseInv /\ SessionInv /\ ReadInv /\ TokenInv /\ OwnerInv

-----------------------------------------------------------------------------
(***************************************************************************)
(* Lines.                                                                  *)
(***************************************************************************)
LEMMA LineEntries ==
    ASSUME NEW S, NEW line \in Seq(S)
    PROVE  /\ \A e \in Entries(line) : e \in S
           /\ \A p : Waits(line, p) <=> \E e \in Entries(line) : e.press = p
           /\ OncePer(line) => \A e, f \in Entries(line) : e.press = f.press => e = f
           /\ \A E : NoneOf(line, E) <=> \A e \in Entries(line) : e \notin E
           /\ \A E, e : LastOf(line, E, e) => e \in Entries(line) /\ e \in E
BY DEF Entries, Waits, OncePer, NoneOf, LastOf

LEMMA LineTail ==
    ASSUME NEW S, NEW line \in Seq(S), line # <<>>
    PROVE  /\ Head(line) \in S /\ Tail(line) \in Seq(S) /\ Len(Tail(line)) = Len(line) - 1
           /\ Len(line) \in Nat
           /\ Head(line) \in Entries(line)
           /\ \A e \in Entries(line) : e = Head(line) \/ e \in Entries(Tail(line))
           /\ \A e \in Entries(Tail(line)) : e \in Entries(line)
           /\ OncePer(line) => /\ OncePer(Tail(line)) /\ ~Waits(Tail(line), Head(line).press)
                               /\ \A e \in Entries(Tail(line)) : e.press # Head(line).press
           /\ \A E, e : LastOf(line, E, e) =>
                LastOf(Tail(line), E, e) \/ (e = Head(line) /\ NoneOf(Tail(line), E))
<1> DEFINE rest == Tail(line)
<1>1. /\ Len(line) \in Nat \ {0} /\ Head(line) = line[1] /\ Head(line) \in S
      /\ rest \in Seq(S) /\ Len(rest) = Len(line) - 1
  OBVIOUS
<1>2. \A i \in 1..Len(rest) : i + 1 \in 1..Len(line) /\ rest[i] = line[i + 1]
  BY <1>1
<1>3. \A i \in 1..Len(line) : i = 1 \/ (i - 1 \in 1..Len(rest) /\ rest[i - 1] = line[i])
  BY <1>1, <1>2
<1> HIDE DEF rest
<1>4. Head(line) \in Entries(line)
  BY <1>1 DEF Entries
<1>5. \A e \in Entries(line) : e = Head(line) \/ e \in Entries(rest)
  BY <1>1, <1>3 DEF Entries
<1>6. \A e \in Entries(rest) : e \in Entries(line)
  BY <1>1, <1>2 DEF Entries
<1>7. ASSUME OncePer(line)
      PROVE  /\ OncePer(rest) /\ ~Waits(rest, Head(line).press)
             /\ \A e \in Entries(rest) : e.press # Head(line).press
  <2>1. ASSUME NEW i \in 1..Len(rest), NEW j \in 1..Len(rest), rest[i].press = rest[j].press
        PROVE  i = j
    <3>1. i + 1 = j + 1
      BY <1>2, <1>7, <2>1 DEF OncePer
    <3>2. QED
      BY <1>1, <3>1
  <2>2. ASSUME NEW i \in 1..Len(rest) PROVE rest[i].press # Head(line).press
    <3>1. i + 1 \in 1..Len(line) /\ rest[i] = line[i + 1] /\ 1 \in 1..Len(line) /\ i + 1 # 1
      BY <1>1, <1>2
    <3>2. QED
      BY <1>1, <1>7, <3>1 DEF OncePer
  <2>3. QED
    BY <2>1, <2>2 DEF OncePer, Waits, Entries
<1>8. ASSUME NEW E, NEW e, LastOf(line, E, e)
      PROVE  LastOf(rest, E, e) \/ (e = Head(line) /\ NoneOf(rest, E))
  <2>1. PICK i \in 1..Len(line) : line[i] = e /\ \A j \in (i + 1)..Len(line) : line[j] \notin E
    BY <1>8 DEF LastOf
  <2>2. CASE i = 1
    <3>1. ASSUME NEW j \in 1..Len(rest) PROVE rest[j] \notin E
      <4>1. j + 1 \in (1 + 1)..Len(line) /\ rest[j] = line[j + 1]
        BY <1>1, <1>2
      <4>2. QED
        BY <2>1, <2>2, <4>1
    <3>2. QED
      BY <1>1, <2>1, <2>2, <3>1 DEF NoneOf
  <2>3. CASE i # 1
    <3>1. i - 1 \in 1..Len(rest) /\ rest[i - 1] = e
      BY <1>3, <2>1, <2>3
    <3>2. ASSUME NEW j \in ((i - 1) + 1)..Len(rest) PROVE rest[j] \notin E
      <4>1. j \in 1..Len(rest) /\ j + 1 \in (i + 1)..Len(line) /\ rest[j] = line[j + 1]
        BY <1>1, <1>2, <3>1
      <4>2. QED
        BY <2>1, <4>1
    <3>3. e \in E
      BY <1>8 DEF LastOf
    <3>4. QED
      BY <3>1, <3>2, <3>3 DEF LastOf
  <2>4. QED
    BY <2>2, <2>3
<1>9. QED
  BY <1>1, <1>4, <1>5, <1>6, <1>7, <1>8 DEF rest

LEMMA LineAppend ==
    ASSUME NEW S, NEW line \in Seq(S), NEW x \in S
    PROVE  /\ Append(line, x) \in Seq(S) /\ Len(Append(line, x)) = Len(line) + 1
           /\ Len(line) \in Nat
           /\ x \in Entries(Append(line, x))
           /\ \A e \in Entries(line) : e \in Entries(Append(line, x))
           /\ \A e \in Entries(Append(line, x)) : e = x \/ e \in Entries(line)
           /\ OncePer(line) /\ ~Waits(line, x.press) => OncePer(Append(line, x))
           /\ \A E : x \in E => LastOf(Append(line, x), E, x)
           /\ \A E, e : x \notin E /\ LastOf(line, E, e) => LastOf(Append(line, x), E, e)
<1> DEFINE longer == Append(line, x)
           n == Len(line)
<1>1. /\ n \in Nat /\ longer \in Seq(S) /\ Len(longer) = n + 1 /\ longer[n + 1] = x
      /\ \A i \in 1..n : longer[i] = line[i]
  OBVIOUS
<1>2. \A i \in 1..(n + 1) : i = n + 1 \/ i \in 1..n
  BY <1>1
<1>3. \A i \in 1..n : i \in 1..(n + 1)
  BY <1>1
<1>4. n + 1 \in 1..(n + 1)
  BY <1>1
<1> HIDE DEF longer
<1>5. x \in Entries(longer)
  BY <1>1, <1>4 DEF Entries
<1>6. \A e \in Entries(line) : e \in Entries(longer)
  BY <1>1, <1>3 DEF Entries
<1>7. \A e \in Entries(longer) : e = x \/ e \in Entries(line)
  BY <1>1, <1>2 DEF Entries
<1>8. ASSUME OncePer(line), ~Waits(line, x.press) PROVE OncePer(longer)
  <2> SUFFICES ASSUME NEW i \in 1..(n + 1), NEW j \in 1..(n + 1), longer[i].press = longer[j].press
               PROVE  i = j
    BY <1>1 DEF OncePer
  <2>1. CASE i \in 1..n /\ j \in 1..n
    BY <1>1, <1>8, <2>1 DEF OncePer
  <2>2. CASE i \in 1..n /\ j = n + 1
    BY <1>1, <1>8, <2>2 DEF Waits
  <2>3. CASE i = n + 1 /\ j \in 1..n
    BY <1>1, <1>8, <2>3 DEF Waits
  <2>4. QED
    BY <1>2, <2>1, <2>2, <2>3
<1>9. ASSUME NEW E, x \in E PROVE LastOf(longer, E, x)
  <2>1. \A j \in ((n + 1) + 1)..(n + 1) : FALSE
    BY <1>1
  <2>2. QED
    BY <1>1, <1>4, <1>9, <2>1 DEF LastOf
<1>10. ASSUME NEW E, NEW e, x \notin E, LastOf(line, E, e) PROVE LastOf(longer, E, e)
  <2>1. PICK i \in 1..n : line[i] = e /\ \A j \in (i + 1)..n : line[j] \notin E
    BY <1>10 DEF LastOf
  <2>2. ASSUME NEW j \in (i + 1)..(n + 1) PROVE longer[j] \notin E
    <3>1. j = n + 1 \/ (j \in (i + 1)..n /\ j \in 1..n)
      BY <1>1
    <3>2. QED
      BY <1>1, <1>10, <2>1, <3>1
  <2>3. e \in E /\ i \in 1..(n + 1) /\ longer[i] = e
    BY <1>1, <1>3, <1>10, <2>1 DEF LastOf
  <2>4. QED
    BY <1>1, <2>2, <2>3 DEF LastOf
<1>11. QED
  BY <1>1, <1>5, <1>6, <1>7, <1>8, <1>9, <1>10 DEF longer

LEMMA SameLast ==
    ASSUME NEW S, NEW line \in Seq(S), NEW E, NEW F,
           \A e \in Entries(line) : e \in E <=> e \in F
    PROVE  /\ NoneOf(line, E) => NoneOf(line, F)
           /\ \A e : LastOf(line, E, e) => LastOf(line, F, e)
<1>1. NoneOf(line, E) => NoneOf(line, F)
  BY DEF NoneOf, Entries
<1>2. ASSUME NEW e, LastOf(line, E, e) PROVE LastOf(line, F, e)
  <2>1. PICK i \in 1..Len(line) : line[i] = e /\ \A j \in (i + 1)..Len(line) : line[j] \notin E
    BY <1>2 DEF LastOf
  <2>2. ASSUME NEW j \in (i + 1)..Len(line) PROVE line[j] \notin F
    <3>1. j \in 1..Len(line)
      OBVIOUS
    <3>2. line[j] \in Entries(line)
      BY <3>1 DEF Entries
    <3>3. QED
      BY <2>1, <3>2
  <2>3. e \in Entries(line)
    BY <2>1 DEF Entries
  <2>4. e \in F
    BY <1>2, <2>3 DEF LastOf
  <2>5. QED
    BY <2>1, <2>2, <2>4 DEF LastOf
<1>3. QED
  BY <1>1, <1>2

-----------------------------------------------------------------------------
(***************************************************************************)
(* A step of one press.                                                    *)
(***************************************************************************)
LEMMA OperationFields ==
    ASSUME NEW o \in Operations
    PROVE  /\ o.op # "none"
           /\ o.op = "perf" => o.step \in {-1, 1}
           /\ o.op = "resource" => o.mode \in Values
           /\ o.op = "pause" => o.on \in BOOLEAN
           /\ o.op = "ask" => o.what \in Profiles \cup {"operation"}
           /\ o.op \in {"confirm", "dismiss"} => o.token \in Presses
           /\ o.op \in {"allow", "disallow", "user"} => o.target \in Users
<1>1. CASE o \in [op : {"perf"}, step : {-1, 1}]
  BY <1>1
<1>2. CASE o \in [op : {"perfreset"}]
  BY <1>2
<1>3. CASE o \in [op : {"resource"}, mode : Values]
  BY <1>3
<1>4. CASE o \in [op : {"pause"}, on : BOOLEAN]
  BY <1>4
<1>5. CASE o \in [op : {"refresh"}]
  BY <1>5
<1>6. CASE o \in [op : {"ask"}, what : Profiles \cup {"operation"}]
  BY <1>6
<1>7. CASE o \in [op : {"confirm", "dismiss"}, token : Presses]
  BY <1>7
<1>8. CASE o \in [op : {"allow", "disallow", "user"}, target : Users]
  BY <1>8
<1>9. QED
  BY <1>1, <1>2, <1>3, <1>4, <1>5, <1>6, <1>7, <1>8 DEF Operations

Rewritten(p, r) ==
    /\ press' \in [Presses -> PressRecords]
    /\ press'[p] = r
    /\ \A q \in Presses \ {p} : press'[q] = press[q]

LEMMA Rewrites ==
    ASSUME press \in [Presses -> PressRecords], NEW p \in Presses, NEW r \in PressRecords,
           press' = [press EXCEPT ![p] = r]
    PROVE  Rewritten(p, r)
BY DEF Rewritten

LEMMA RecordFields ==
    ASSUME NEW r \in PressRecords
    PROVE  /\ r.op \in Operations \cup {Idle} /\ r.pc \in PressPcs
           /\ r.got \in Values \cup Profiles \cup Replies
           /\ r.read \subseteq Profiles /\ r.off \subseteq Profiles /\ r.overtaken \subseteq Profiles
BY DEF PressRecords

LEMMA GoesOn ==
    ASSUME press \in [Presses -> PressRecords], NEW p \in Presses, NEW c \in PressPcs,
           press' = [press EXCEPT ![p].pc = c]
    PROVE  /\ Rewritten(p, press'[p])
           /\ press'[p].op = press[p].op /\ press'[p].pc = c /\ press'[p].got = press[p].got
           /\ press'[p].read = press[p].read /\ press'[p].off = press[p].off
           /\ press'[p].overtaken = press[p].overtaken
<1> DEFINE r == [press[p] EXCEPT !.pc = c]
<1>1. press[p] \in PressRecords
  OBVIOUS
<1>2. /\ r \in PressRecords /\ r.op = press[p].op /\ r.pc = c /\ r.got = press[p].got
      /\ r.read = press[p].read /\ r.off = press[p].off /\ r.overtaken = press[p].overtaken
  BY <1>1 DEF PressRecords
<1>3. press' = [press EXCEPT ![p] = r]
  OBVIOUS
<1> HIDE DEF r
<1>4. Rewritten(p, r)
  BY <1>2, <1>3, Rewrites
<1>5. press'[p] = r
  BY <1>4 DEF Rewritten
<1>6. QED
  BY <1>2, <1>4, <1>5

LEMMA GoesOnWith ==
    ASSUME press \in [Presses -> PressRecords], NEW p \in Presses, NEW c \in PressPcs,
           NEW g \in Values \cup Profiles \cup Replies,
           press' = [press EXCEPT ![p].pc = c, ![p].got = g]
    PROVE  /\ Rewritten(p, press'[p])
           /\ press'[p].op = press[p].op /\ press'[p].pc = c /\ press'[p].got = g
           /\ press'[p].read = press[p].read /\ press'[p].off = press[p].off
           /\ press'[p].overtaken = press[p].overtaken
<1> DEFINE r == [press[p] EXCEPT !.pc = c, !.got = g]
<1>1. press[p] \in PressRecords
  OBVIOUS
<1>2. /\ r \in PressRecords /\ r.op = press[p].op /\ r.pc = c /\ r.got = g
      /\ r.read = press[p].read /\ r.off = press[p].off /\ r.overtaken = press[p].overtaken
  BY <1>1 DEF PressRecords
<1>3. press' = [press EXCEPT ![p] = r]
  OBVIOUS
<1> HIDE DEF r
<1>4. Rewritten(p, r)
  BY <1>2, <1>3, Rewrites
<1>5. press'[p] = r
  BY <1>4 DEF Rewritten
<1>6. QED
  BY <1>2, <1>4, <1>5

(* What the task of a press does between two awaits: it takes the answer   *)
(* it waited for, if any, and hands over its next statement, if any.       *)
Turn(p) ==
    /\ p \in Presses /\ up /\ up'
    /\ press[p].pc \notin {"offered", "failed"}
    /\ Rewritten(p, press'[p])
    /\ Fitting(press'[p])
    /\ press'[p].overtaken = press[p].overtaken
    /\ \/ press'[p].op = press[p].op
       \/ press[p].pc = "idle"
    /\ press'[p].op.op \in {"confirm", "dismiss"} => Offered(press'[p].op.token)
    /\ press'[p].pc = "saves" => What(p)' \in Profiles
    /\ \/ results' = results /\ press[p].pc \notin WaitPcs
       \/ results # <<>> /\ Head(results).press = p /\ results' = Tail(results)
    /\ \/ queue' = queue
       \/ \E s \in Statements :
             /\ queue' = Append(queue, [press |-> p, statement |-> s])
             /\ press'[p].pc \in WaitPcs /\ Asked(p, s)'

(* What of the lines a turn leaves to the others is as it was.             *)
LEMMA OthersWait ==
    ASSUME LineInv, PressInv, NEW p, Turn(p)
    PROVE  /\ results' \in Seq(Answers)
           /\ OncePer(results') /\ ~Waits(results', p) /\ ~Waits(queue, p)
           /\ \A e \in Entries(results') : e \in Entries(results) /\ e.press \in Presses \ {p}
           /\ \A e \in Entries(results) : e \in Entries(results') \/ e.press = p
           /\ \A e \in Entries(queue) : e.press \in Presses \ {p}
           /\ \A E, e : e \in Entries(results') /\ LastOf(results, E, e) => LastOf(results', E, e)
           /\ \A E : NoneOf(results, E) => NoneOf(results', E)
           /\ \A E, e : LastOf(results, E, e) /\ e \notin Entries(results') => NoneOf(results', E)
<1>1. /\ queue \in Seq(Requests) /\ results \in Seq(Answers) /\ OncePer(results)
      /\ p \in Presses
  BY DEF LineInv, Turn
<1>2. ~Waits(queue, p)
  <2>1. press[p].pc \notin WaitPcs \/ Waits(results, p)
    <3>1. CASE results # <<>> /\ Head(results).press = p /\ results' = Tail(results)
      <4>1. Head(results) \in Entries(results)
        BY <1>1, <3>1, LineTail
      <4>2. QED
        BY <1>1, <3>1, <4>1, LineEntries
    <3>2. QED
      BY <3>1 DEF Turn
  <2>2. QED
    BY <1>1, <2>1 DEF LineInv
<1>3. \A e \in Entries(queue) : e.press \in Presses \ {p}
  <2>1. ASSUME NEW e \in Entries(queue) PROVE e.press \in Presses
    <3>1. e \in Requests
      BY <1>1, LineEntries
    <3>2. QED
      BY <3>1 DEF Requests
  <2>2. ASSUME NEW e \in Entries(queue) PROVE e.press # p
    BY <1>1, <1>2, LineEntries
  <2>3. QED
    BY <2>1, <2>2
<1>4. ASSUME NEW e \in Entries(results) PROVE e.press \in Presses
  <2>1. e \in Answers
    BY <1>1, LineEntries
  <2>2. QED
    BY <2>1 DEF Answers
<1>5. CASE results' = results /\ press[p].pc \notin WaitPcs
  <2>1. ~Waits(results, p)
    BY <1>1, <1>5 DEF LineInv
  <2>2. \A e \in Entries(results) : e.press # p
    BY <1>1, <2>1, LineEntries
  <2>3. \A E, e : LastOf(results, E, e) => e \in Entries(results)
    BY <1>1, LineEntries
  <2>4. QED
    BY <1>1, <1>2, <1>3, <1>4, <1>5, <2>1, <2>2, <2>3
<1>6. CASE results # <<>> /\ Head(results).press = p /\ results' = Tail(results)
  <2>1. /\ Tail(results) \in Seq(Answers)
        /\ OncePer(Tail(results)) /\ ~Waits(Tail(results), p)
        /\ \A e \in Entries(results) : e = Head(results) \/ e \in Entries(Tail(results))
        /\ \A e \in Entries(Tail(results)) : e \in Entries(results)
        /\ \A e \in Entries(Tail(results)) : e.press # p
        /\ \A E, e : LastOf(results, E, e) =>
                LastOf(Tail(results), E, e) \/ (e = Head(results) /\ NoneOf(Tail(results), E))
    BY <1>1, <1>6, LineTail
  <2>2. ASSUME NEW E, NoneOf(results, E) PROVE NoneOf(Tail(results), E)
    <3>1. \A e \in Entries(results) : e \notin E
      BY <1>1, <2>2, LineEntries
    <3>2. QED
      BY <2>1, <3>1, LineEntries
  <2>3. ASSUME NEW E, NEW e, e \in Entries(Tail(results)), LastOf(results, E, e)
        PROVE LastOf(Tail(results), E, e)
    BY <1>6, <2>1, <2>3
  <2>4. ASSUME NEW E, NEW e, e \notin Entries(Tail(results)), LastOf(results, E, e)
        PROVE NoneOf(Tail(results), E)
    <3>1. LastOf(Tail(results), E, e) => e \in Entries(Tail(results))
      BY <2>1, LineEntries
    <3>2. QED
      BY <2>1, <2>4, <3>1
  <2>5. QED
    BY <1>1, <1>2, <1>3, <1>4, <1>6, <2>1, <2>2, <2>3, <2>4
<1>7. QED
  BY <1>5, <1>6 DEF Turn

(* A confirmation keeps what it asked for.                                 *)
LEMMA TokensStay ==
    ASSUME PressInv, NEW p, Turn(p), NEW q \in Presses,
           press'[q].op.op \in {"confirm", "dismiss"},
           q # p => press[q].op = press'[q].op
    PROVE  /\ press'[q].op.token \in Presses \ {p}
           /\ press[press'[q].op.token].pc = "offered"
           /\ press'[press'[q].op.token] = press[press'[q].op.token]
<1>1. press'[q].op \in Operations
  <2>1. press'[q] \in PressRecords
    BY DEF Turn, Rewritten
  <2>2. press'[q].op \in Operations \cup {Idle}
    BY <2>1, RecordFields
  <2>3. QED
    BY <2>2 DEF Idle
<1>2. press'[q].op.token \in Presses
  BY <1>1, OperationFields
<1>3. Offered(press'[q].op.token)
  <2>1. CASE q = p
    BY <2>1 DEF Turn
  <2>2. CASE q # p
    BY <2>2 DEF PressInv
  <2>3. QED
    BY <2>1, <2>2
<1>4. press'[q].op.token # p
  BY <1>3 DEF Turn, Offered
<1>5. press'[press'[q].op.token] = press[press'[q].op.token]
  BY <1>2, <1>4 DEF Turn, Rewritten
<1>6. QED
  BY <1>2, <1>3, <1>4, <1>5 DEF Offered

LEMMA TurnKeepsLines ==
    ASSUME LineInv, PressInv, StatementInv, NEW p, Turn(p)
    PROVE  LineInv' /\ PressInv' /\ StatementInv'
<1>1. /\ p \in Presses /\ up /\ up'
      /\ Rewritten(p, press'[p])
      /\ queue \in Seq(Requests) /\ OncePer(queue)
  BY DEF Turn, LineInv
<1>2. /\ results' \in Seq(Answers)
      /\ OncePer(results') /\ ~Waits(results', p) /\ ~Waits(queue, p)
      /\ \A e \in Entries(results') : e \in Entries(results) /\ e.press \in Presses \ {p}
      /\ \A e \in Entries(queue) : e.press \in Presses \ {p}
  BY OthersWait
<1>3. \A q \in Presses \ {p} : press'[q] = press[q]
  BY <1>1 DEF Rewritten
<1>4. ASSUME NEW q \in Presses \ {p}, Waits(queue, q) \/ Waits(results', q)
      PROVE  /\ Waits(results', q) => Waits(results, q)
             /\ ~(Waits(queue, q) /\ Waits(results', q)) /\ press'[q].pc \in WaitPcs
  <2>1. Waits(results', q) => Waits(results, q)
    <3>1. results \in Seq(Answers)
      BY DEF LineInv
    <3>2. QED
      BY <1>2, <3>1, LineEntries
  <2>2. QED
    BY <1>3, <1>4, <2>1 DEF LineInv
<1>5. ASSUME NEW q \in Presses \ {p}, press[q].op.op \in {"confirm", "dismiss"}
      PROVE  What(q)' = What(q) /\ Offered(press[q].op.token) /\ Offered(press[q].op.token)'
  <2>1. press'[q].op = press[q].op
    BY <1>3
  <2>2. press[press[q].op.token].pc = "offered" /\ press'[press[q].op.token] = press[press[q].op.token]
    BY <1>5, <2>1, TokensStay
  <2>3. QED
    BY <2>1, <2>2 DEF What, Offered
<1>6. PressInv'
  <2>1. press' \in [Presses -> PressRecords]
    BY <1>1 DEF Rewritten
  <2>2. ASSUME NEW q \in Presses
        PROVE  Fitting(press'[q])
    BY <1>3 DEF Turn, PressInv
  <2>3. ASSUME NEW q \in Presses, press'[q].op.op \in {"confirm", "dismiss"}
        PROVE  Offered(press[q].op.token)'
    <3>1. CASE q = p
      <4>1. press[press'[q].op.token].pc = "offered" /\ press'[press'[q].op.token] = press[press'[q].op.token]
        BY <2>3, <3>1, TokensStay
      <4>2. QED
        BY <4>1 DEF Offered
    <3>2. CASE q # p
      BY <1>3, <1>5, <2>3, <3>2
    <3>3. QED
      BY <3>1, <3>2
  <2>4. ASSUME NEW q \in Presses, press'[q].pc = "saves"
        PROVE  What(q)' \in Profiles
    <3>1. CASE q = p
      BY <2>4, <3>1 DEF Turn
    <3>2. CASE q # p
      <4>1. press[q].pc = "saves" /\ press[q].op.op = "confirm"
        BY <1>3, <2>4, <3>2 DEF PressInv, Fitting
      <4>2. QED
        BY <1>5, <3>2, <4>1 DEF PressInv
    <3>3. QED
      BY <3>1, <3>2
  <2>5. QED
    BY <1>1, <2>1, <2>2, <2>3, <2>4 DEF PressInv
<1>7. ASSUME NEW e \in Entries(queue) PROVE Asked(e.press, e.statement)'
  <2>1. PICK q : q = e.press
    OBVIOUS
  <2>2. PICK s : s = e.statement
    OBVIOUS
  <2>3. q \in Presses \ {p} /\ Asked(q, s)
    BY <1>2, <2>1, <2>2 DEF StatementInv
  <2>4. press'[q] = press[q] /\ KeyOf(q)' = KeyOf(q)
    BY <1>3, <2>3 DEF KeyOf
  <2>5. press[q].pc = "saves" => What(q)' = What(q)
    <3>1. press[q].pc = "saves" => press[q].op.op = "confirm"
      BY <2>3 DEF PressInv, Fitting
    <3>2. QED
      BY <1>5, <2>3, <3>1
  <2>6. Asked(q, s)'
    BY <2>3, <2>4, <2>5 DEF Asked
  <2>7. QED
    BY <2>1, <2>2, <2>6
<1>8. CASE queue' = queue
  <2>1. LineInv'
    BY <1>1, <1>2, <1>4, <1>8 DEF LineInv
  <2>2. StatementInv'
    BY <1>7, <1>8 DEF StatementInv
  <2>3. QED
    BY <1>6, <2>1, <2>2
<1>9. ASSUME NEW s \in Statements, queue' = Append(queue, [press |-> p, statement |-> s]),
             press'[p].pc \in WaitPcs, Asked(p, s)'
      PROVE  LineInv' /\ StatementInv'
  <2>1. PICK x : x = [press |-> p, statement |-> s]
    OBVIOUS
  <2>2. x \in Requests /\ x.press = p /\ x.statement = s
    BY <1>1, <2>1 DEF Requests
  <2>3. /\ queue' \in Seq(Requests) /\ OncePer(queue')
        /\ \A e \in Entries(queue') : e = x \/ e \in Entries(queue)
    BY <1>1, <1>2, <1>9, <2>1, <2>2, LineAppend
  <2>4. ASSUME NEW q \in Presses, Waits(queue', q) PROVE q = p \/ Waits(queue, q)
    BY <1>1, <2>2, <2>3, <2>4, LineEntries
  <2>5. ASSUME NEW q \in Presses
        PROVE  /\ ~(Waits(queue', q) /\ Waits(results', q))
               /\ Waits(queue', q) \/ Waits(results', q) => press'[q].pc \in WaitPcs
    <3>1. CASE q = p
      BY <1>2, <1>9, <3>1
    <3>2. CASE q # p
      BY <1>4, <2>4, <3>2
    <3>3. QED
      BY <3>1, <3>2
  <2>6. LineInv'
    BY <1>1, <1>2, <2>3, <2>5 DEF LineInv
  <2>7. ASSUME NEW e \in Entries(queue') PROVE Asked(e.press, e.statement)'
    BY <1>7, <1>9, <2>2, <2>3
  <2>8. QED
    BY <2>6, <2>7 DEF StatementInv
<1>10. QED
  BY <1>6, <1>8, <1>9 DEF Turn

(* The other invariants, as far as the turn leaves their variables alone.  *)
NoWrite(p) ==
    press[p].pc \in {"set", "reset", "saves"} =>
        \A e \in Entries(results) : e.press = p => e.value = Failed

LEMMA TurnKeepsSetting ==
    ASSUME LineInv, PressInv, NEW p, Turn(p), NEW k \in Keys, SettingFits(k),
           \A e \in Entries(results) : e \in WritesOf(k) => e.press # p,
           setting'[k] = setting[k], k \in _overrides' <=> k \in _overrides, stored' = stored
    PROVE  SettingFits(k)'
<1>1. /\ results' \in Seq(Answers) /\ results \in Seq(Answers)
      /\ \A e \in Entries(results') : e \in Entries(results) /\ e.press \in Presses \ {p}
      /\ \A e \in Entries(results) : e \in Entries(results') \/ e.press = p
      /\ \A E, e : e \in Entries(results') /\ LastOf(results, E, e) => LastOf(results', E, e)
      /\ \A E : NoneOf(results, E) => NoneOf(results', E)
  BY OthersWait DEF LineInv
<1>2. \A q \in Presses \ {p} : press'[q] = press[q]
  BY DEF Turn, Rewritten
<1>3. ASSUME NEW e \in Entries(results') PROVE e \in WritesOf(k) <=> e \in WritesOf(k)'
  <2>1. press'[e.press] = press[e.press]
    BY <1>1, <1>2
  <2>2. QED
    BY <2>1 DEF WritesOf, KeyOf
<1>4. CASE NoneOf(results, WritesOf(k)) /\ Matches(k)
  <2>1. NoneOf(results', WritesOf(k))
    BY <1>1, <1>4
  <2>2. NoneOf(results', WritesOf(k)')
    BY <1>1, <1>3, <2>1, SameLast
  <2>3. Matches(k)'
    BY <1>4 DEF Matches
  <2>4. QED
    BY <2>2, <2>3 DEF SettingFits
<1>5. ASSUME NEW e \in Entries(results), LastOf(results, WritesOf(k), e), stored[k] = Written(e.press)
      PROVE  /\ e \in Entries(results') /\ LastOf(results', WritesOf(k)', e)
             /\ stored'[k] = Written(e.press)'
  <2>1. e \in WritesOf(k)
    BY <1>5 DEF LastOf
  <2>2. e \in Entries(results')
    BY <1>1, <2>1
  <2>3. LastOf(results', WritesOf(k), e)
    BY <1>1, <1>5, <2>2
  <2>4. LastOf(results', WritesOf(k)', e)
    BY <1>1, <1>3, <2>3, SameLast
  <2>5. press'[e.press] = press[e.press]
    BY <1>1, <1>2, <2>2
  <2>6. QED
    BY <1>5, <2>2, <2>4, <2>5 DEF Written
<1>6. QED
  BY <1>4, <1>5 DEF SettingFits

LEMMA TurnKeepsSettings ==
    ASSUME LineInv, PressInv, SettingInv, NEW p, Turn(p),
           press[p].pc \notin {"set", "reset"} \/ NoWrite(p),
           setting' = setting, _overrides' = _overrides, stored' = stored
    PROVE  SettingInv'
<1>1. ASSUME NEW k \in Keys PROVE SettingFits(k)'
  <2>1. SettingFits(k)
    BY DEF SettingInv, Turn
  <2>2. \A e \in Entries(results) : e \in WritesOf(k) => e.press # p
    BY DEF WritesOf, NoWrite
  <2>3. QED
    BY <2>1, <2>2, TurnKeepsSetting
<1>2. QED
  BY <1>1 DEF SettingInv

LEMMA TurnKeepsPause ==
    ASSUME LineInv, PressInv, PauseInv, NEW p, Turn(p),
           _paused' = _paused, pausedRow' = pausedRow,
           \A e \in Entries(queue') : e \in Entries(queue) \/ e.statement.do # "scheduler_paused",
           [press |-> p, value |-> Failed] \in Entries(results) => press'[p].pc = "failed"
    PROVE  PauseInv'
<1>1. /\ results' \in Seq(Answers)
      /\ \A e \in Entries(results) : e \in Entries(results') \/ e.press = p
      /\ queue \in Seq(Requests)
  BY OthersWait DEF LineInv
<1>2. /\ \A q \in Presses \ {p} : press'[q] = press[q]
      /\ p \in Presses /\ press[p].pc # "failed" /\ up
  BY DEF Turn, Rewritten
<1>3. ASSUME PauseRefused PROVE PauseRefused'
  <2>1. PICK q \in Presses :
          /\ press[q].op = [op |-> "pause", on |-> _paused]
          /\ \/ press[q].pc = "failed"
             \/ press[q].pc = "last" /\ [press |-> q, value |-> Failed] \in Entries(results)
    BY <1>3 DEF PauseRefused
  <2>2. CASE q # p
    <3>1. press'[q] = press[q]
      BY <1>2, <2>2
    <3>2. [press |-> q, value |-> Failed].press # p
      BY <2>2
    <3>3. [press |-> q, value |-> Failed] \in Entries(results)
            => [press |-> q, value |-> Failed] \in Entries(results')
      BY <1>1, <3>2
    <3>4. QED
      BY <2>1, <3>1, <3>3 DEF PauseRefused
  <2>3. CASE q = p
    <3>1. press'[p].pc = "failed" /\ press[p].pc = "last"
      BY <1>2, <2>1, <2>3
    <3>2. press'[p].op = press[p].op
      BY <3>1 DEF Turn
    <3>3. QED
      BY <1>2, <2>1, <2>3, <3>1, <3>2 DEF PauseRefused
  <2>4. QED
    BY <2>2, <2>3
<1>4. PauseRequests' = PauseRequests
  BY DEF PauseRequests
<1>5. CASE queue' = queue
  BY <1>2, <1>3, <1>4, <1>5 DEF PauseInv
<1>6. ASSUME NEW s \in Statements, queue' = Append(queue, [press |-> p, statement |-> s])
      PROVE  PauseInv'
  <2>1. PICK x : x = [press |-> p, statement |-> s]
    OBVIOUS
  <2>2. x \in Requests /\ x.press = p /\ x.statement = s
    BY <1>2, <2>1 DEF Requests
  <2>3. /\ x \in Entries(queue') /\ queue' \in Seq(Requests)
        /\ \A e \in Entries(queue') : e = x \/ e \in Entries(queue)
        /\ \A e \in Entries(queue) : e \in Entries(queue')
        /\ \A E, e : x \notin E /\ LastOf(queue, E, e) => LastOf(queue', E, e)
    BY <1>1, <1>6, <2>1, <2>2, LineAppend
  <2>4. x \notin PauseRequests
    <3>1. ~Waits(queue, p)
      BY OthersWait
    <3>2. x \notin Entries(queue)
      BY <1>1, <2>2, <3>1, LineEntries
    <3>3. QED
      BY <2>3, <3>2 DEF PauseRequests
  <2>5. CASE NoneOf(queue, PauseRequests) /\ _paused = pausedRow
    <3>1. NoneOf(queue', PauseRequests)
      BY <1>1, <2>3, <2>4, <2>5, LineEntries
    <3>2. QED
      BY <1>4, <2>5, <3>1 DEF PauseInv
  <2>6. ASSUME NEW e \in Entries(queue), LastOf(queue, PauseRequests, e), e.statement.on = _paused
        PROVE  PauseInv'
    BY <1>4, <2>3, <2>4, <2>6 DEF PauseInv
  <2>7. CASE PauseRefused
    BY <1>3, <2>7 DEF PauseInv
  <2>8. QED
    BY <1>2, <2>5, <2>6, <2>7 DEF PauseInv
<1>7. QED
  BY <1>5, <1>6 DEF Turn

LEMMA OvertakenStays ==
    ASSUME PressInv, NEW p, Turn(p), NEW x, Overtaken(x)
    PROVE  Overtaken(x)'
BY DEF Overtaken, Turn, Rewritten

LEMMA SavesStay ==
    ASSUME LineInv, PressInv, NEW p, Turn(p), NEW x, NEW e \in Entries(results')
    PROVE  e \in SavesOf(x) <=> e \in SavesOf(x)'
<1>1. press'[e.press] = press[e.press] /\ e.press \in Presses \ {p}
  BY OthersWait DEF Turn, Rewritten
<1>2. press[e.press].pc = "saves" => What(e.press)' = What(e.press)
  <2>1. press[e.press].pc = "saves" => press[e.press].op.op = "confirm"
    BY <1>1 DEF PressInv, Fitting
  <2>2. QED
    BY <1>1, <2>1, TokensStay DEF What
<1>3. QED
  BY <1>1, <1>2 DEF SavesOf

LEMMA TurnKeepsSession ==
    ASSUME LineInv, PressInv, NEW p, Turn(p), NEW x \in Profiles, SessionFits(x),
           \A e \in Entries(results) : e \in SavesOf(x) => e.press # p,
           (x \in _disabled' <=> x \in _disabled) \/ (x \in _disabled' <=> x \in disabledRows),
           disabledRows' = disabledRows
    PROVE  SessionFits(x)'
<1>1. /\ results' \in Seq(Answers) /\ results \in Seq(Answers)
      /\ \A e \in Entries(results') : e \in Entries(results) /\ e.press \in Presses \ {p}
      /\ \A e \in Entries(results) : e \in Entries(results') \/ e.press = p
      /\ \A E, e : e \in Entries(results') /\ LastOf(results, E, e) => LastOf(results', E, e)
      /\ \A E : NoneOf(results, E) => NoneOf(results', E)
  BY OthersWait DEF LineInv
<1>2. \A q \in Presses \ {p} : press'[q] = press[q]
  BY DEF Turn, Rewritten
<1>3. \A e \in Entries(results') : e \in SavesOf(x) <=> e \in SavesOf(x)'
  BY SavesStay
<1>4. CASE NoneOf(results, SavesOf(x)) /\ (x \in _disabled <=> x \in disabledRows)
  <2>1. NoneOf(results', SavesOf(x))
    BY <1>1, <1>4
  <2>2. NoneOf(results', SavesOf(x)')
    BY <1>1, <1>3, <2>1, SameLast
  <2>3. QED
    BY <1>4, <2>2 DEF SessionFits
<1>5. ASSUME NEW e \in Entries(results), LastOf(results, SavesOf(x), e),
             x \in disabledRows <=> press[e.press].got = FALSE
      PROVE  /\ e \in Entries(results') /\ LastOf(results', SavesOf(x)', e)
             /\ x \in disabledRows' <=> press'[e.press].got = FALSE
  <2>1. e \in SavesOf(x)
    BY <1>5 DEF LastOf
  <2>2. e \in Entries(results')
    BY <1>1, <2>1
  <2>3. LastOf(results', SavesOf(x), e)
    BY <1>1, <1>5, <2>2
  <2>4. LastOf(results', SavesOf(x)', e)
    BY <1>1, <1>3, <2>3, SameLast
  <2>5. press'[e.press] = press[e.press]
    BY <1>1, <1>2, <2>2
  <2>6. QED
    BY <1>5, <2>2, <2>4, <2>5
<1>6. Overtaken(x) => Overtaken(x)'
  BY OvertakenStays
<1>7. QED
  BY <1>4, <1>5, <1>6 DEF SessionFits

LEMMA TurnKeepsSessions ==
    ASSUME LineInv, PressInv, SessionInv, NEW p, Turn(p),
           press[p].pc # "saves" \/ NoWrite(p),
           _disabled' = _disabled, disabledRows' = disabledRows
    PROVE  SessionInv'
<1>1. ASSUME NEW x \in Profiles PROVE SessionFits(x)'
  <2>1. SessionFits(x)
    BY DEF SessionInv, Turn
  <2>2. \A e \in Entries(results) : e \in SavesOf(x) => e.press # p
    BY DEF SavesOf, NoWrite
  <2>3. QED
    BY <2>1, <2>2, TurnKeepsSession
<1>2. QED
  BY <1>1 DEF SessionInv

LEMMA TurnKeepsReads ==
    ASSUME LineInv, PressInv, ReadInv, NEW p, Turn(p), disabledRows' = disabledRows
    PROVE  /\ \A q \in Presses \ {p} : press[q].pc = "reads" =>
                /\ \A x \in press'[q].read \ press'[q].overtaken : ReadAs(q, x)' <=> x \in disabledRows'
                /\ \A e \in Entries(results') :
                      e.press = q /\ e.value # Failed =>
                          press'[q].got \in press'[q].read \ press'[q].off /\ e.value \in BOOLEAN
           /\ press'[p].pc # "reads" => ReadInv'
<1>1. /\ \A e \in Entries(results') : e \in Entries(results)
      /\ \A e \in Entries(results) : e \in Entries(results') \/ e.press = p
  BY OthersWait
<1>2. \A q \in Presses \ {p} : press'[q] = press[q]
  BY DEF Turn, Rewritten
<1>3. ASSUME NEW q \in Presses \ {p}, press[q].pc = "reads"
      PROVE  /\ \A x \in press'[q].read \ press'[q].overtaken : ReadAs(q, x)' <=> x \in disabledRows'
             /\ \A e \in Entries(results') :
                   e.press = q /\ e.value # Failed =>
                       press'[q].got \in press'[q].read \ press'[q].off /\ e.value \in BOOLEAN
  <2>1. press'[q] = press[q]
    BY <1>2
  <2>2. [press |-> q, value |-> TRUE].press = q
    OBVIOUS
  <2>3. [press |-> q, value |-> TRUE] \in Entries(results')
          <=> [press |-> q, value |-> TRUE] \in Entries(results)
    BY <1>1, <2>2
  <2>4. ASSUME NEW x PROVE ReadAs(q, x)' <=> ReadAs(q, x)
    BY <2>1, <2>3 DEF ReadAs
  <2>5. \A x \in press'[q].read \ press'[q].overtaken : ReadAs(q, x)' <=> x \in disabledRows'
    BY <1>3, <2>1, <2>4 DEF ReadInv
  <2>6. \A e \in Entries(results') :
                   e.press = q /\ e.value # Failed =>
                       press'[q].got \in press'[q].read \ press'[q].off /\ e.value \in BOOLEAN
    BY <1>1, <1>3, <2>1 DEF ReadInv
  <2>7. QED
    BY <2>5, <2>6
<1>4. press'[p].pc # "reads" => ReadInv'
  BY <1>2, <1>3 DEF ReadInv
<1>5. QED
  BY <1>3, <1>4

(* Whoever else holds a confirmation, holds it as before.                  *)
LEMMA OthersHold ==
    ASSUME LineInv, PressInv, NEW p, Turn(p), NEW q \in Presses \ {p}, NEW t
    PROVE  Holds(q, t)' <=> Holds(q, t)
<1>1. /\ \A e \in Entries(results') : e \in Entries(results)
      /\ \A e \in Entries(results) : e \in Entries(results') \/ e.press = p
  BY OthersWait
<1>2. press'[q] = press[q]
  BY DEF Turn, Rewritten
<1>3. [press |-> q, value |-> TRUE].press = q
  OBVIOUS
<1>4. [press |-> q, value |-> TRUE] \in Entries(results')
        <=> [press |-> q, value |-> TRUE] \in Entries(results)
  BY <1>1, <1>3
<1>5. QED
  BY <1>2, <1>4 DEF Holds

LEMMA TurnKeepsTokens ==
    ASSUME LineInv, PressInv, TokenInv, NEW p, Turn(p),
           drafts' = drafts, performed' = performed,
           \A t \in Presses : Holds(p, t)' => Holds(p, t)
    PROVE  TokenInv'
<1>1. \A q, t \in Presses : Holds(q, t)' => Holds(q, t)
  BY OthersHold
<1>2. \A t \in Presses : press[t].pc = "offered" => press'[t].pc = "offered"
  BY DEF Turn, Rewritten
<1>3. ASSUME NEW t \in Presses
      PROVE  /\ \A q, r \in Presses : Holds(q, t)' /\ Holds(r, t)' => q = r
             /\ t \in drafts \/ performed[t] # 0 => \A q \in Presses : ~Holds(q, t)'
             /\ t \in drafts => performed[t] = 0
             /\ performed[t] # 0 => press'[t].pc = "offered"
  BY <1>1, <1>2 DEF TokenInv
<1>4. QED
  BY <1>3 DEF TokenInv

(* A press that had its answer, or has it waiting, ends.                   *)
EndsIfAnswered(p) ==
    press[p].pc \in {"last", "done"} =>
        press'[p].pc = "done" \/ [press |-> p, value |-> Failed] \in Entries(results)

LEMMA TurnKeepsOwners ==
    ASSUME LineInv, PressInv, OwnerInv, NEW p, Turn(p), EndsIfAnswered(p), users' = users
    PROVE  OwnerInv'
<1>1. /\ p \in Presses /\ up /\ \A q \in Presses \ {p} : press'[q] = press[q]
      /\ results \in Seq(Answers) /\ OncePer(results)
      /\ \A e \in Entries(results) : e \in Entries(results') \/ e.press = p
  BY OthersWait DEF Turn, Rewritten, LineInv
<1>2. ASSUME NEW u, NEW q \in Presses, HasAllowed(q, u) PROVE HasAllowed(q, u)'
  <2>1. [press |-> q, value |-> None].press = q /\ [press |-> q, value |-> Failed].press = q
    OBVIOUS
  <2>2. CASE q # p
    <3>1. press'[q] = press[q]
      BY <1>1, <2>2
    <3>2. [press |-> q, value |-> None] \in Entries(results) =>
            [press |-> q, value |-> None] \in Entries(results')
      BY <1>1, <2>1, <2>2
    <3>3. QED
      BY <1>2, <3>1, <3>2 DEF HasAllowed
  <2>3. CASE q = p
    <3>1. press[p].pc \in {"last", "done"} /\ press[p].op = [op |-> "allow", target |-> u]
      BY <1>2, <2>3 DEF HasAllowed
    <3>2. press'[p].op = press[p].op
      BY <3>1 DEF Turn
    <3>3. press'[p].pc = "done"
      <4>1. CASE press[p].pc = "last"
        <5>1. [press |-> p, value |-> None] \in Entries(results)
          BY <1>2, <2>3, <4>1 DEF HasAllowed
        <5>2. [press |-> p, value |-> None].value # [press |-> p, value |-> Failed].value
          BY NameAssumption
        <5>3. [press |-> p, value |-> Failed] \notin Entries(results)
          BY <1>1, <2>1, <2>3, <5>1, <5>2, LineEntries
        <5>4. QED
          BY <3>1, <5>3 DEF EndsIfAnswered
      <4>2. CASE press[p].pc = "done"
        <5>1. ~Waits(results, p)
          BY <1>1, <4>2 DEF LineInv, WaitPcs
        <5>2. [press |-> p, value |-> Failed] \notin Entries(results)
          BY <1>1, <2>1, <2>3, <5>1, LineEntries
        <5>3. QED
          BY <3>1, <5>2 DEF EndsIfAnswered
      <4>3. QED
        BY <3>1, <4>1, <4>2
    <3>4. QED
      BY <2>3, <3>1, <3>2, <3>3 DEF HasAllowed
  <2>4. QED
    BY <2>2, <2>3
<1>3. ASSUME NEW u \in Owners
      PROVE  users'[u] # "suspended" /\ (users'[u] = "admin" \/ \E q \in Presses : HasAllowed(q, u)')
  BY <1>1, <1>2 DEF OwnerInv
<1>4. QED
  BY <1>3 DEF OwnerInv

-----------------------------------------------------------------------------
(***************************************************************************)
(* Turns that change nothing but the press and the lines.                  *)
(***************************************************************************)
Quiet(p) ==
    /\ Turn(p) /\ NoWrite(p)
    /\ NothingElse /\ faults' = faults
    /\ \A e \in Entries(queue') : e \in Entries(queue) \/ e.statement.do # "scheduler_paused"
    /\ [press |-> p, value |-> Failed] \in Entries(results) => press'[p].pc = "failed"
    /\ \A t \in Presses : Holds(p, t)' => Holds(p, t)
    /\ press'[p].pc # "reads" /\ EndsIfAnswered(p)

LEMMA QuietKeeps ==
    ASSUME AdminInv, NEW p, Quiet(p)
    PROVE  AdminInv'
<1>1. LineInv /\ PressInv /\ StatementInv /\ Turn(p) /\ NoWrite(p)
  BY DEF AdminInv, Quiet
<1>2. /\ setting' = setting /\ _overrides' = _overrides /\ _paused' = _paused
      /\ _disabled' = _disabled /\ stored' = stored /\ pausedRow' = pausedRow
      /\ disabledRows' = disabledRows /\ users' = users /\ drafts' = drafts
      /\ expired' = expired /\ performed' = performed /\ faults' = faults
  BY DEF Quiet, NothingElse, memory, rows
<1>3. LineInv' /\ PressInv' /\ StatementInv'
  BY <1>1, TurnKeepsLines
<1>4. SettingInv'
  BY <1>1, <1>2, TurnKeepsSettings DEF AdminInv
<1>5. PauseInv'
  BY <1>1, <1>2, TurnKeepsPause DEF AdminInv, Quiet
<1>6. SessionInv'
  BY <1>1, <1>2, TurnKeepsSessions DEF AdminInv
<1>7. ReadInv'
  BY <1>1, <1>2, TurnKeepsReads DEF AdminInv, Quiet
<1>8. TokenInv'
  BY <1>1, <1>2, TurnKeepsTokens DEF AdminInv, Quiet
<1>9. RowsInv' /\ OwnerInv'
  BY <1>1, <1>2, TurnKeepsOwners DEF AdminInv, RowsInv, Quiet, Turn
<1>10. QED
  BY <1>3, <1>4, <1>5, <1>6, <1>7, <1>8, <1>9 DEF AdminInv

LEMMA Resuming ==
    ASSUME LineInv, NEW p \in Presses, NEW pc, Resumed(p, pc)
    PROVE  /\ up /\ results # <<>> /\ Head(results).press = p /\ results' = Tail(results)
           /\ press[p].pc = pc
           /\ Answer \in Replies \ {Failed} /\ Head(results) = [press |-> p, value |-> Answer]
           /\ Head(results) \in Entries(results)
           /\ \A e \in Entries(results) : e.press = p => e = Head(results)
           /\ [press |-> p, value |-> Failed] \notin Entries(results)
<1>1. /\ results # <<>> /\ Head(results).press = p /\ Head(results).value # Failed
      /\ press[p].pc = pc /\ results' = Tail(results)
      /\ results \in Seq(Answers) /\ OncePer(results)
  BY DEF Resumed, LineInv
<1>2. Head(results) \in Answers /\ Head(results) \in Entries(results)
  BY <1>1, LineTail
<1>3. Head(results) = [press |-> Head(results).press, value |-> Head(results).value]
      /\ Head(results).value \in Replies
  BY <1>2 DEF Answers
<1>4. \A e \in Entries(results) : e.press = p => e = Head(results)
  BY <1>1, <1>2, LineEntries
<1>5. [press |-> p, value |-> Failed] \notin Entries(results)
  <2>1. /\ [press |-> p, value |-> Failed].press = p
        /\ [press |-> p, value |-> Failed].value = Failed
    OBVIOUS
  <2>2. [press |-> p, value |-> Failed] # Head(results)
    BY <1>1, <2>1
  <2>3. QED
    BY <1>4, <2>1, <2>2
<1>6. Waits(results, p)
  BY <1>1, <1>2, LineEntries
<1>7. QED
  BY <1>1, <1>2, <1>3, <1>4, <1>5, <1>6 DEF Answer, LineInv

(* The press is over.                                                      *)
LEMMA EndsTurn ==
    ASSUME LineInv, PressInv, NEW p \in Presses, NEW pc, Resumed(p, pc), Ends(p), up'
    PROVE  /\ Turn(p) /\ queue' = queue
           /\ press'[p].pc = "done" /\ press'[p].op = press[p].op /\ press'[p].got = press[p].got
<1>1. /\ up /\ results # <<>> /\ Head(results).press = p /\ results' = Tail(results)
      /\ press[p].pc = pc /\ press \in [Presses -> PressRecords] /\ Fitting(press[p])
      /\ Waits(results, p)
  <2>1. results \in Seq(Answers)
    BY DEF LineInv
  <2>2. QED
    BY <2>1, Resuming, LineEntries DEF PressInv
<1>2. press[p].pc \in WaitPcs
  BY <1>1 DEF LineInv
<1>3. "done" \in PressPcs
  BY DEF PressPcs
<1>4. /\ Rewritten(p, press'[p]) /\ queue' = queue
      /\ press'[p].op = press[p].op /\ press'[p].pc = "done" /\ press'[p].got = press[p].got
      /\ press'[p].read = press[p].read /\ press'[p].off = press[p].off
      /\ press'[p].overtaken = press[p].overtaken
  BY <1>1, <1>3, GoesOn DEF Ends, Goes
<1>5. Fitting(press'[p])
  BY <1>1, <1>2, <1>4 DEF Fitting, WaitPcs
<1>6. press[p].op.op \in {"confirm", "dismiss"} => Offered(press[p].op.token)
  BY DEF PressInv
<1>7. press[p].pc \notin {"offered", "failed"}
  BY <1>2 DEF WaitPcs
<1>8. QED
  BY <1>1, <1>4, <1>5, <1>6, <1>7 DEF Turn

LEMMA QuietEnd ==
    ASSUME AdminInv, NEW p \in Presses, NEW pc \in {"check", "looks"}, Resumed(p, pc), Ends(p),
           NothingElse, up', faults' = faults
    PROVE  AdminInv'
<1>1. LineInv /\ PressInv
  BY DEF AdminInv
<1>2. /\ Turn(p) /\ queue' = queue /\ press'[p].pc = "done" /\ press'[p].op = press[p].op
      /\ press'[p].got = press[p].got
      /\ press[p].pc = pc /\ [press |-> p, value |-> Failed] \notin Entries(results)
  BY <1>1, EndsTurn, Resuming
<1>3. NoWrite(p)
  BY <1>2 DEF NoWrite
<1>4. ASSUME NEW t, Holds(p, t)' PROVE FALSE
  <2>1. press[p].op.op = "dismiss" /\ press[p].got = TRUE
    BY <1>2, <1>4 DEF Holds
  <2>2. CASE pc = "check"
    <3>1. press[p].got = None
      BY <1>1, <1>2, <2>2 DEF PressInv, Fitting
    <3>2. QED
      BY <2>1, <3>1, NameAssumption
  <2>3. CASE pc = "looks"
    BY <1>1, <1>2, <2>1, <2>3 DEF PressInv, Fitting
  <2>4. QED
    BY <2>2, <2>3
<1>5. Quiet(p)
  BY <1>2, <1>3, <1>4 DEF Quiet, EndsIfAnswered
<1>6. QED
  BY <1>5, QuietKeeps

(* The press waits for its next statement.                                 *)
Suits(o, p, c, s) ==
    \/ /\ c = "reset" /\ o.op = "perfreset"
       /\ s.do = "delete_runtime_setting" /\ s.key = Limit /\ s.value = None
    \/ c = "last" /\ o.op = "dismiss" /\ s.do = "delete_ui_draft" /\ s.token = o.token
    \/ /\ c = "last" /\ o.op \in {"allow", "disallow", "user"} /\ s.do = "put user"
       /\ s.user \in Owners => Allows(o, s)
    \/ c = "asks" /\ o.op = "ask" /\ s.do = "save_ui_draft" /\ s.token = p
    \/ c = "consumes" /\ o.op = "confirm" /\ s.do = "consume_ui_draft" /\ s.token = o.token
    \/ c = "looks" /\ o.op = "user" /\ s.do = "get user"

LEMMA QuietAwait ==
    ASSUME AdminInv, NEW p \in Presses, NEW pc \in {"check", "looks"}, Resumed(p, pc),
           NEW c, NEW s \in Statements, Awaits(p, c, s), Suits(press[p].op, p, c, s),
           NothingElse, up', faults' = faults
    PROVE  AdminInv'
<1>1. LineInv /\ PressInv
  BY DEF AdminInv
<1>2. /\ up /\ results # <<>> /\ Head(results).press = p /\ results' = Tail(results)
      /\ press[p].pc = pc /\ press \in [Presses -> PressRecords] /\ Fitting(press[p])
      /\ [press |-> p, value |-> Failed] \notin Entries(results)
      /\ queue \in Seq(Requests)
  BY <1>1, Resuming DEF PressInv, LineInv
<1>3. c \in {"reset", "last", "asks", "consumes", "looks"}
  BY DEF Suits
<1>4. c \in PressPcs /\ c \in WaitPcs
  BY <1>3 DEF PressPcs, WaitPcs
<1>5. /\ Rewritten(p, press'[p]) /\ queue' = Append(queue, [press |-> p, statement |-> s])
      /\ press'[p].op = press[p].op /\ press'[p].pc = c /\ press'[p].got = press[p].got
      /\ press'[p].read = press[p].read /\ press'[p].off = press[p].off
      /\ press'[p].overtaken = press[p].overtaken
  BY <1>2, <1>4, GoesOn DEF Awaits, Goes, Hands
<1>6. Fitting(press'[p])
  BY <1>2, <1>3, <1>5 DEF Fitting, Suits
<1>7. Asked(p, s)'
  BY <1>3, <1>5 DEF Asked, Suits
<1>8. press[p].op.op \in {"confirm", "dismiss"} => Offered(press[p].op.token)
  BY <1>1 DEF PressInv
<1>9. Turn(p)
  BY <1>2, <1>3, <1>4, <1>5, <1>6, <1>7, <1>8 DEF Turn
<1>10. NoWrite(p)
  BY <1>2 DEF NoWrite
<1>11. ASSUME NEW e \in Entries(queue') PROVE e \in Entries(queue) \/ e.statement.do # "scheduler_paused"
  <2>1. PICK x : x = [press |-> p, statement |-> s]
    OBVIOUS
  <2>2. x \in Requests /\ x.statement = s
    BY <2>1 DEF Requests
  <2>3. e = x \/ e \in Entries(queue)
    BY <1>2, <1>5, <2>1, <2>2, LineAppend
  <2>4. s.do # "scheduler_paused"
    BY DEF Suits
  <2>5. QED
    BY <2>2, <2>3, <2>4
<1>12. ASSUME NEW t, Holds(p, t)' PROVE FALSE
  <2>1. [press |-> p, value |-> TRUE] \in Entries(results')
    BY <1>3, <1>5, <1>12 DEF Holds
  <2>2. [press |-> p, value |-> TRUE].press = p
    OBVIOUS
  <2>3. QED
    BY <1>1, <1>9, <2>1, <2>2, OthersWait
<1>13. Quiet(p)
  BY <1>2, <1>3, <1>5, <1>9, <1>10, <1>11, <1>12 DEF Quiet, EndsIfAnswered
<1>14. QED
  BY <1>13, QuietKeeps

LEMMA OperationOf ==
    ASSUME PressInv, NEW p \in Presses, press[p].pc # "idle"
    PROVE  /\ press[p].op \in Operations
           /\ press[p].op.op = "perf" => press[p].op.step \in {-1, 1}
           /\ press[p].op.op = "resource" => press[p].op.mode \in Values
           /\ press[p].op.op = "pause" => press[p].op.on \in BOOLEAN
           /\ press[p].op.op = "ask" => press[p].op.what \in Profiles \cup {"operation"}
           /\ press[p].op.op \in {"confirm", "dismiss"} => press[p].op.token \in Presses
           /\ press[p].op.op \in {"allow", "disallow", "user"} => press[p].op.target \in Users
BY OperationFields DEF PressInv, Fitting

(* The records of the pause and of /allow have no other fields.            *)
LEMMA OperationIs ==
    ASSUME PressInv, NEW p \in Presses, press[p].pc # "idle"
    PROVE  /\ press[p].op.op = "pause" =>
                 press[p].op = [op |-> "pause", on |-> press[p].op.on]
           /\ press[p].op.op = "allow" =>
                 press[p].op = [op |-> "allow", target |-> press[p].op.target]
<1>1. PICK o \in Operations : o = press[p].op
  BY OperationOf
<1>2. o.op = "pause" => o = [op |-> "pause", on |-> o.on]
  BY DEF Operations
<1>3. o.op = "allow" => o = [op |-> "allow", target |-> o.target]
  BY DEF Operations
<1>4. QED
  BY <1>1, <1>2, <1>3

LEMMA StatementsAre ==
    /\ \A u \in Users : [do |-> "get user", user |-> u] \in Statements
    /\ \A x \in Profiles : [do |-> "get session", profile |-> x] \in Statements
    /\ \A k \in Keys, v \in Values :
          [do |-> "set_runtime_setting", key |-> k, value |-> v] \in Statements
    /\ [do |-> "delete_runtime_setting", key |-> Limit, value |-> None] \in Statements
    /\ \A b \in BOOLEAN : [do |-> "scheduler_paused", on |-> b] \in Statements
    /\ [do |-> "operation"] \in Statements
    /\ \A t \in Presses : /\ [do |-> "save_ui_draft", token |-> t] \in Statements
                          /\ [do |-> "delete_ui_draft", token |-> t] \in Statements
                          /\ [do |-> "consume_ui_draft", token |-> t] \in Statements
    /\ \A x \in Profiles, b \in BOOLEAN :
          [do |-> "session_disabled", profile |-> x, on |-> b] \in Statements
    /\ \A u \in Users, a \in {"user", "suspended"} :
          [do |-> "put user", user |-> u, as |-> a] \in Statements
BY DEF Statements, Keys

LEMMA DenyKeeps ==
    ASSUME AdminInv, NEW p \in Presses, Deny(p), up', faults' = faults
    PROVE  AdminInv'
BY QuietEnd DEF Deny

LEMMA ResetKeeps ==
    ASSUME AdminInv, NEW p \in Presses, Reset(p), up', faults' = faults
    PROVE  AdminInv'
<1>1. PICK s : s = [do |-> "delete_runtime_setting", key |-> Limit, value |-> None]
  OBVIOUS
<1>2. /\ s \in Statements /\ s.do = "delete_runtime_setting" /\ s.key = Limit /\ s.value = None
  BY <1>1, StatementsAre
<1>3. /\ Resumed(p, "check") /\ press[p].op.op = "perfreset" /\ NothingElse
      /\ Awaits(p, "reset", s)
  BY <1>1 DEF Reset, Admitted
<1>4. Suits(press[p].op, p, "reset", s)
  BY <1>2, <1>3 DEF Suits
<1>5. QED
  BY <1>2, <1>3, <1>4, QuietAwait

LEMMA AskKeeps ==
    ASSUME AdminInv, NEW p \in Presses, Ask(p), up', faults' = faults
    PROVE  AdminInv'
<1>1. PICK s : s = [do |-> "save_ui_draft", token |-> p]
  OBVIOUS
<1>2. /\ s \in Statements /\ s.do = "save_ui_draft" /\ s.token = p
  BY <1>1, StatementsAre
<1>3. /\ Resumed(p, "check") /\ press[p].op.op = "ask" /\ NothingElse /\ Awaits(p, "asks", s)
  BY <1>1 DEF Ask, Admitted
<1>4. Suits(press[p].op, p, "asks", s)
  BY <1>2, <1>3 DEF Suits
<1>5. QED
  BY <1>2, <1>3, <1>4, QuietAwait

LEMMA DismissKeeps ==
    ASSUME AdminInv, NEW p \in Presses, Dismiss(p), up', faults' = faults
    PROVE  AdminInv'
<1>1. PICK s : s = [do |-> "delete_ui_draft", token |-> press[p].op.token]
  OBVIOUS
<1>2. /\ Resumed(p, "check") /\ press[p].op.op = "dismiss" /\ NothingElse /\ Awaits(p, "last", s)
  BY <1>1 DEF Dismiss, Admitted
<1>3. press[p].op.token \in Presses
  BY <1>2, OperationOf DEF AdminInv, Resumed
<1>4. /\ s \in Statements /\ s.do = "delete_ui_draft" /\ s.token = press[p].op.token
  BY <1>1, <1>3, StatementsAre
<1>5. Suits(press[p].op, p, "last", s)
  BY <1>2, <1>4 DEF Suits
<1>6. QED
  BY <1>2, <1>4, <1>5, QuietAwait

LEMMA ConfirmKeeps ==
    ASSUME AdminInv, NEW p \in Presses, Confirm(p), up', faults' = faults
    PROVE  AdminInv'
<1>1. PICK s : s = [do |-> "consume_ui_draft", token |-> press[p].op.token]
  OBVIOUS
<1>2. /\ Resumed(p, "check") /\ press[p].op.op = "confirm" /\ NothingElse
      /\ Awaits(p, "consumes", s)
  BY <1>1 DEF Confirm, Admitted
<1>3. press[p].op.token \in Presses
  BY <1>2, OperationOf DEF AdminInv, Resumed
<1>4. /\ s \in Statements /\ s.do = "consume_ui_draft" /\ s.token = press[p].op.token
  BY <1>1, <1>3, StatementsAre
<1>5. Suits(press[p].op, p, "consumes", s)
  BY <1>2, <1>4 DEF Suits
<1>6. QED
  BY <1>2, <1>4, <1>5, QuietAwait

(* A user's row is rewritten: allow, disallow and the button of the list.  *)
LEMMA PutUserKeeps ==
    ASSUME AdminInv, NEW p \in Presses, NEW pc \in {"check", "looks"}, Resumed(p, pc),
           press[p].op.op \in {"allow", "disallow", "user"}, NEW a \in {"user", "suspended"},
           press[p].op.target \in Owners => press[p].op.op = "allow" /\ a = "user",
           Awaits(p, "last", [do |-> "put user", user |-> press[p].op.target, as |-> a]),
           NothingElse, up', faults' = faults
    PROVE  AdminInv'
<1>1. PICK s : s = [do |-> "put user", user |-> press[p].op.target, as |-> a]
  OBVIOUS
<1>2. press[p].op.target \in Users
  BY OperationOf DEF AdminInv, Resumed
<1>3. /\ s \in Statements /\ s.do = "put user" /\ s.user = press[p].op.target /\ s.as = a
  BY <1>1, <1>2, StatementsAre
<1>4. Awaits(p, "last", s)
  BY <1>1
<1>5. Suits(press[p].op, p, "last", s)
  <2>1. press[p].pc # "idle"
    BY DEF Resumed
  <2>2. s.user \in Owners => Allows(press[p].op, s)
    BY <1>3, <2>1, OperationIs DEF Allows, AdminInv
  <2>3. QED
    BY <1>3, <2>2 DEF Suits
<1>6. QED
  BY <1>3, <1>4, <1>5, QuietAwait

LEMMA AllowKeeps ==
    ASSUME AdminInv, NEW p \in Presses, Allow(p), up', faults' = faults
    PROVE  AdminInv'
BY PutUserKeeps DEF Allow, Admitted

LEMMA DisallowKeeps ==
    ASSUME AdminInv, NEW p \in Presses, Disallow(p), up', faults' = faults
    PROVE  AdminInv'
<1>1. CASE press[p].op.target \in Owners
  BY <1>1, QuietEnd DEF Disallow, Admitted
<1>2. CASE press[p].op.target \notin Owners
  BY <1>2, PutUserKeeps DEF Disallow, Admitted
<1>3. QED
  BY <1>1, <1>2

LEMMA LookAtUserKeeps ==
    ASSUME AdminInv, NEW p \in Presses, LookAtUser(p), up', faults' = faults
    PROVE  AdminInv'
<1>1. PICK s : s = [do |-> "get user", user |-> press[p].op.target]
  OBVIOUS
<1>2. /\ Resumed(p, "check") /\ press[p].op.op = "user" /\ NothingElse /\ Awaits(p, "looks", s)
  BY <1>1 DEF LookAtUser, Admitted
<1>3. press[p].op.target \in Users
  BY <1>2, OperationOf DEF AdminInv, Resumed
<1>4. /\ s \in Statements /\ s.do = "get user"
  BY <1>1, <1>3, StatementsAre
<1>5. Suits(press[p].op, p, "looks", s)
  BY <1>2, <1>4 DEF Suits
<1>6. QED
  BY <1>2, <1>4, <1>5, QuietAwait

LEMMA ToggleUserKeeps ==
    ASSUME AdminInv, NEW p \in Presses, ToggleUser(p), up', faults' = faults
    PROVE  AdminInv'
<1>1. Resumed(p, "looks") /\ NothingElse
  BY DEF ToggleUser
<1>2. CASE ~MayToggle(p)
  BY <1>1, <1>2, QuietEnd DEF ToggleUser
<1>3. CASE MayToggle(p)
  <2>1. PICK a \in {"user", "suspended"} : a = IF Answer = "user" THEN "suspended" ELSE "user"
    OBVIOUS
  <2>2. Awaits(p, "last", [do |-> "put user", user |-> press[p].op.target, as |-> a])
    BY <1>3, <2>1 DEF ToggleUser
  <2>3. press[p].op.target \notin Owners
    BY <1>3 DEF MayToggle
  <2>4. press[p].op.op = "user"
    BY <1>1 DEF AdminInv, PressInv, Fitting, Resumed
  <2>5. QED
    BY <1>1, <2>2, <2>3, <2>4, PutUserKeeps
<1>4. QED
  BY <1>2, <1>3

LEMMA PressKeeps ==
    ASSUME AdminInv, NEW p \in Presses, Press(p), up, up', faults' = faults
    PROVE  AdminInv'
<1>1. /\ LineInv /\ PressInv /\ press[p].pc = "idle" /\ results' = results
      /\ press \in [Presses -> PressRecords] /\ Fitting(press[p]) /\ NothingElse
  BY DEF AdminInv, PressInv, Press, NothingElse, memory, rows
<1>2. PICK o \in Operations :
        /\ o.op \in {"confirm", "dismiss"} => Offered(o.token)
        /\ press' = [press EXCEPT ![p].op = o, ![p].pc = "check"]
  BY DEF Press
<1>3. PICK u \in Owners : Hands(p, [do |-> "get user", user |-> u])
  BY DEF Press
<1>4. PICK s : s = [do |-> "get user", user |-> u]
  OBVIOUS
<1>5. s \in Statements /\ s.do = "get user" /\ queue' = Append(queue, [press |-> p, statement |-> s])
  BY <1>3, <1>4, StatementsAre DEF Users, Hands
<1>6. PICK r : r = [press[p] EXCEPT !.op = o, !.pc = "check"]
  OBVIOUS
<1>7. /\ press[p] \in PressRecords /\ "check" \in PressPcs /\ "check" \in WaitPcs
  BY <1>1 DEF PressPcs, WaitPcs
<1>8. /\ r \in PressRecords /\ r.op = o /\ r.pc = "check" /\ r.got = press[p].got
      /\ r.read = press[p].read /\ r.off = press[p].off /\ r.overtaken = press[p].overtaken
  BY <1>6, <1>7 DEF PressRecords
<1>9. press' = [press EXCEPT ![p] = r]
  BY <1>2, <1>6
<1>10. Rewritten(p, r) /\ press'[p] = r
  BY <1>1, <1>8, <1>9, Rewrites DEF Rewritten
<1>11. Fitting(press'[p])
  BY <1>1, <1>8, <1>10 DEF Fitting
<1>12. Asked(p, s)'
  BY <1>5, <1>8, <1>10 DEF Asked
<1>13. press[p].pc \notin WaitPcs /\ press[p].pc \notin {"offered", "failed"}
  BY <1>1 DEF WaitPcs
<1>14. Turn(p)
  BY <1>1, <1>2, <1>5, <1>7, <1>8, <1>10, <1>11, <1>12, <1>13 DEF Turn
<1>15. NoWrite(p)
  BY <1>1 DEF NoWrite
<1>16. ASSUME NEW e \in Entries(queue') PROVE e \in Entries(queue) \/ e.statement.do # "scheduler_paused"
  <2>1. PICK x : x = [press |-> p, statement |-> s]
    OBVIOUS
  <2>2. x \in Requests /\ x.statement = s /\ queue \in Seq(Requests)
    BY <1>1, <1>5, <2>1 DEF Requests, LineInv
  <2>3. e = x \/ e \in Entries(queue)
    BY <1>5, <2>1, <2>2, LineAppend
  <2>4. QED
    BY <1>5, <2>2, <2>3
<1>17. ASSUME NEW t, Holds(p, t)' PROVE FALSE
  BY <1>8, <1>10, <1>17 DEF Holds
<1>18. [press |-> p, value |-> Failed] \notin Entries(results)
  <2>1. ~Waits(results, p)
    BY <1>1, <1>13 DEF LineInv
  <2>2. [press |-> p, value |-> Failed].press = p
    OBVIOUS
  <2>3. QED
    BY <1>1, <2>1, <2>2, LineEntries DEF LineInv
<1>19. Quiet(p)
  BY <1>1, <1>8, <1>10, <1>14, <1>15, <1>16, <1>17, <1>18 DEF Quiet, EndsIfAnswered
<1>20. QED
  BY <1>19, QuietKeeps

LEMMA SetKeeps ==
    ASSUME AdminInv, NEW p \in Presses, Resumed(p, "check"), press[p].op.op \in {"perf", "resource"},
           NEW value, Set(p, KeyOf(p), value), NothingElse, up', faults' = faults
    PROVE  AdminInv'
<1>1. LineInv /\ PressInv
  BY DEF AdminInv
<1>2. CASE ~validate(value)
  BY <1>2, QuietEnd DEF Set
<1>3. CASE validate(value)
  <2>1. /\ up /\ results # <<>> /\ Head(results).press = p /\ results' = Tail(results)
        /\ press[p].pc = "check" /\ press \in [Presses -> PressRecords] /\ Fitting(press[p])
        /\ [press |-> p, value |-> Failed] \notin Entries(results)
        /\ queue \in Seq(Requests)
    BY <1>1, Resuming DEF PressInv, LineInv
  <2>2. PICK s : s = [do |-> "set_runtime_setting", key |-> KeyOf(p), value |-> value]
    OBVIOUS
  <2>3. value \in Values /\ KeyOf(p) \in Keys
    BY <1>3 DEF validate, KeyOf, Keys
  <2>4. /\ s \in Statements /\ s.do = "set_runtime_setting" /\ s.key = KeyOf(p) /\ s.value = value
    BY <2>2, <2>3, StatementsAre
  <2>5. /\ queue' = Append(queue, [press |-> p, statement |-> s])
        /\ press' = [press EXCEPT ![p].pc = "set", ![p].got = value]
    BY <1>3, <2>2 DEF Set, Hands
  <2>6. "set" \in PressPcs /\ "set" \in WaitPcs
    BY DEF PressPcs, WaitPcs
  <2>7. /\ Rewritten(p, press'[p])
        /\ press'[p].op = press[p].op /\ press'[p].pc = "set" /\ press'[p].got = value
        /\ press'[p].read = press[p].read /\ press'[p].off = press[p].off
        /\ press'[p].overtaken = press[p].overtaken
    BY <2>1, <2>3, <2>5, <2>6, GoesOnWith
  <2>8. Fitting(press'[p])
    BY <2>1, <2>3, <2>7 DEF Fitting
  <2>9. Asked(p, s)'
    BY <2>4, <2>7 DEF Asked, KeyOf
  <2>10. Turn(p)
    BY <1>1, <2>1, <2>4, <2>5, <2>6, <2>7, <2>8, <2>9 DEF Turn, PressInv
  <2>11. NoWrite(p)
    BY <2>1 DEF NoWrite
  <2>12. ASSUME NEW e \in Entries(queue') PROVE e \in Entries(queue) \/ e.statement.do # "scheduler_paused"
    <3>1. PICK x : x = [press |-> p, statement |-> s]
      OBVIOUS
    <3>2. x \in Requests /\ x.statement = s
      BY <2>4, <3>1 DEF Requests
    <3>3. e = x \/ e \in Entries(queue)
      BY <2>1, <2>5, <3>1, <3>2, LineAppend
    <3>4. QED
      BY <2>4, <3>2, <3>3
  <2>13. ASSUME NEW t, Holds(p, t)' PROVE FALSE
    BY <2>7, <2>13 DEF Holds
  <2>14. Quiet(p)
    BY <2>1, <2>7, <2>10, <2>11, <2>12, <2>13 DEF Quiet, EndsIfAnswered
  <2>15. QED
    BY <2>14, QuietKeeps
<1>4. QED
  BY <1>2, <1>3

LEMMA AdjustKeeps ==
    ASSUME AdminInv, NEW p \in Presses, Adjust(p), up', faults' = faults
    PROVE  AdminInv'
<1>1. press[p].op.op = "perf" /\ Resumed(p, "check") /\ NothingElse
  BY DEF Adjust, Admitted
<1>2. KeyOf(p) = Limit
  BY <1>1 DEF KeyOf
<1>3. QED
  BY <1>1, <1>2, SetKeeps DEF Adjust

LEMMA ChooseKeeps ==
    ASSUME AdminInv, NEW p \in Presses, Choose(p), up', faults' = faults
    PROVE  AdminInv'
<1>1. press[p].op.op = "resource" /\ Resumed(p, "check") /\ NothingElse
  BY DEF Choose, Admitted
<1>2. KeyOf(p) = Mode
  BY <1>1 DEF KeyOf
<1>3. QED
  BY <1>1, <1>2, SetKeeps DEF Choose

(* The press goes to a point where it waits for no statement.              *)
LEMMA RestTurn ==
    ASSUME LineInv, PressInv, NEW p \in Presses,
           NEW c \in {"offered", "done", "answers", "failed"},
           NEW g \in Values \cup Profiles \cup Replies,
           \/ press' = [press EXCEPT ![p].pc = c] /\ g = press[p].got
           \/ press' = [press EXCEPT ![p].pc = c, ![p].got = g],
           c = "offered" => press[p].op.op = "ask",
           c = "answers" => press[p].op.op = "confirm",
           queue' = queue, up, up',
           press[p].pc \in WaitPcs \cup {"answers"},
           \/ results' = results /\ press[p].pc \notin WaitPcs
           \/ results # <<>> /\ Head(results).press = p /\ results' = Tail(results)
    PROVE  /\ Turn(p)
           /\ press'[p].pc = c /\ press'[p].op = press[p].op /\ press'[p].got = g
<1>1. press \in [Presses -> PressRecords] /\ Fitting(press[p]) /\ c \in PressPcs
  BY DEF PressInv, PressPcs
<1>2. /\ Rewritten(p, press'[p])
      /\ press'[p].op = press[p].op /\ press'[p].pc = c /\ press'[p].got = g
      /\ press'[p].read = press[p].read /\ press'[p].off = press[p].off
      /\ press'[p].overtaken = press[p].overtaken
  <2>1. CASE press' = [press EXCEPT ![p].pc = c] /\ g = press[p].got
    BY <1>1, <2>1, GoesOn
  <2>2. CASE press' = [press EXCEPT ![p].pc = c, ![p].got = g]
    BY <1>1, <2>2, GoesOnWith
  <2>3. QED
    BY <2>1, <2>2
<1>3. press[p].pc \notin {"offered", "failed", "idle"}
  BY DEF WaitPcs
<1>4. Fitting(press'[p])
  BY <1>1, <1>2, <1>3 DEF Fitting
<1>5. press[p].op.op \in {"confirm", "dismiss"} => Offered(press[p].op.token)
  BY DEF PressInv
<1>6. c # "saves"
  OBVIOUS
<1>7. QED
  BY <1>2, <1>3, <1>4, <1>5, <1>6 DEF Turn

LEMMA FinishKeeps ==
    ASSUME AdminInv, NEW p \in Presses, Finish(p), up', faults' = faults
    PROVE  AdminInv'
<1>1. /\ LineInv /\ PressInv /\ NothingElse /\ queue' = queue
      /\ Resumed(p, "last") /\ press' = [press EXCEPT ![p].pc = "done", ![p].got = Answer]
  BY DEF AdminInv, Finish, NothingElse, memory, rows
<1>2. /\ up /\ results # <<>> /\ Head(results).press = p /\ results' = Tail(results)
      /\ press[p].pc = "last" /\ Answer \in Replies
      /\ Head(results) = [press |-> p, value |-> Answer] /\ Head(results) \in Entries(results)
      /\ [press |-> p, value |-> Failed] \notin Entries(results)
  BY <1>1, Resuming
<1>3. /\ Turn(p) /\ press'[p].pc = "done" /\ press'[p].op = press[p].op /\ press'[p].got = Answer
  <2>1. "last" \in WaitPcs
    BY DEF WaitPcs
  <2>2. QED
    BY <1>1, <1>2, <2>1, RestTurn
<1>4. NoWrite(p)
  BY <1>2 DEF NoWrite
<1>5. ASSUME NEW t, Holds(p, t)' PROVE Holds(p, t)
  <2>1. /\ press[p].op.op = "dismiss" /\ press[p].op.token = t /\ Answer = TRUE
    BY <1>3, <1>5 DEF Holds
  <2>2. [press |-> p, value |-> TRUE] \in Entries(results)
    BY <1>2, <2>1
  <2>3. QED
    BY <1>2, <2>1, <2>2 DEF Holds
<1>6. Quiet(p)
  BY <1>1, <1>2, <1>3, <1>4, <1>5 DEF Quiet, EndsIfAnswered
<1>7. QED
  BY <1>6, QuietKeeps

LEMMA OfferKeeps ==
    ASSUME AdminInv, NEW p \in Presses, Offer(p), up', faults' = faults
    PROVE  AdminInv'
<1>1. /\ LineInv /\ PressInv /\ NothingElse /\ queue' = queue /\ Resumed(p, "asks")
  BY DEF AdminInv, Offer, NothingElse, memory, rows
<1>2. PICK c \in {"offered", "done"} : press' = [press EXCEPT ![p].pc = c]
  BY DEF Offer, Goes
<1>3. /\ up /\ results # <<>> /\ Head(results).press = p /\ results' = Tail(results)
      /\ press[p].pc = "asks" /\ press[p].op.op = "ask"
      /\ [press |-> p, value |-> Failed] \notin Entries(results)
      /\ press[p].got \in Values \cup Profiles \cup Replies
  BY <1>1, Resuming, RecordFields DEF PressInv, Fitting
<1>4. /\ Turn(p) /\ press'[p].pc = c /\ press'[p].op = press[p].op
  <2>1. "asks" \in WaitPcs
    BY DEF WaitPcs
  <2>2. PICK g \in Values \cup Profiles \cup Replies : g = press[p].got
    BY <1>3
  <2>3. /\ c \in {"offered", "done", "answers", "failed"}
        /\ c = "offered" => press[p].op.op = "ask"
        /\ c = "answers" => press[p].op.op = "confirm"
        /\ press[p].pc \in WaitPcs \cup {"answers"}
    BY <1>2, <1>3, <2>1
  <2>4. press' = [press EXCEPT ![p].pc = c]
    BY <1>2
  <2>5. QED
    BY <1>1, <1>3, <2>2, <2>3, <2>4, RestTurn
<1>5. NoWrite(p)
  BY <1>3 DEF NoWrite
<1>6. ASSUME NEW t, Holds(p, t)' PROVE FALSE
  BY <1>3, <1>4, <1>6 DEF Holds
<1>7. Quiet(p)
  BY <1>1, <1>3, <1>4, <1>5, <1>6 DEF Quiet, EndsIfAnswered
<1>8. QED
  BY <1>7, QuietKeeps

LEMMA ConsumeKeeps ==
    ASSUME AdminInv, NEW p \in Presses, Consume(p), up', faults' = faults
    PROVE  AdminInv'
<1>1. /\ LineInv /\ PressInv /\ NothingElse /\ queue' = queue /\ Resumed(p, "consumes")
  BY DEF AdminInv, Consume, NothingElse, memory, rows
<1>2. PICK c \in {"answers", "done"} :
        press' = [press EXCEPT ![p].pc = c] /\ (c = "answers" => Answer = TRUE)
  BY DEF Consume, Goes
<1>3. /\ up /\ results # <<>> /\ Head(results).press = p /\ results' = Tail(results)
      /\ press[p].pc = "consumes" /\ press[p].op.op = "confirm"
      /\ [press |-> p, value |-> Failed] \notin Entries(results)
      /\ Head(results) = [press |-> p, value |-> Answer] /\ Head(results) \in Entries(results)
      /\ press[p].got \in Values \cup Profiles \cup Replies
  BY <1>1, Resuming, RecordFields DEF PressInv, Fitting
<1>4. /\ Turn(p) /\ press'[p].pc = c /\ press'[p].op = press[p].op
  <2>1. "consumes" \in WaitPcs
    BY DEF WaitPcs
  <2>2. PICK g \in Values \cup Profiles \cup Replies : g = press[p].got
    BY <1>3
  <2>3. /\ c \in {"offered", "done", "answers", "failed"}
        /\ c = "offered" => press[p].op.op = "ask"
        /\ c = "answers" => press[p].op.op = "confirm"
        /\ press[p].pc \in WaitPcs \cup {"answers"}
    BY <1>2, <1>3, <2>1
  <2>4. press' = [press EXCEPT ![p].pc = c]
    BY <1>2
  <2>5. QED
    BY <1>1, <1>3, <2>2, <2>3, <2>4, RestTurn
<1>5. NoWrite(p)
  BY <1>3 DEF NoWrite
<1>6. ASSUME NEW t, Holds(p, t)' PROVE Holds(p, t)
  <2>1. c = "answers" /\ press[p].op.token = t
    BY <1>3, <1>4, <1>6 DEF Holds
  <2>2. [press |-> p, value |-> TRUE] \in Entries(results)
    BY <1>2, <1>3, <2>1
  <2>3. QED
    BY <1>3, <2>1, <2>2 DEF Holds
<1>7. Quiet(p)
  BY <1>1, <1>2, <1>3, <1>4, <1>5, <1>6 DEF Quiet, EndsIfAnswered
<1>8. QED
  BY <1>7, QuietKeeps

LEMMA PerformFailsKeeps ==
    ASSUME AdminInv, NEW p \in Presses, PerformFails(p), up, up', faults' = faults
    PROVE  AdminInv'
<1>1. /\ LineInv /\ PressInv /\ NothingElse /\ queue' = queue /\ results' = results
      /\ press[p].pc = "answers" /\ press' = [press EXCEPT ![p].pc = "done"]
      /\ press[p].op.op = "confirm"
      /\ press[p].got \in Values \cup Profiles \cup Replies
  BY RecordFields DEF AdminInv, PerformFails, NothingElse, memory, rows, Ends, Goes, PressInv, Fitting
<1>2. "answers" \notin WaitPcs
  BY DEF WaitPcs
<1>3. /\ Turn(p) /\ press'[p].pc = "done" /\ press'[p].op = press[p].op
  <2>1. PICK g \in Values \cup Profiles \cup Replies : g = press[p].got
    BY <1>1
  <2>2. QED
    BY <1>1, <1>2, <2>1, RestTurn
<1>4. NoWrite(p)
  BY <1>1 DEF NoWrite
<1>5. ASSUME NEW t, Holds(p, t)' PROVE FALSE
  BY <1>1, <1>3, <1>5 DEF Holds
<1>6. [press |-> p, value |-> Failed] \notin Entries(results)
  <2>1. ~Waits(results, p)
    BY <1>1, <1>2 DEF LineInv
  <2>2. [press |-> p, value |-> Failed].press = p
    OBVIOUS
  <2>3. QED
    BY <1>1, <2>1, <2>2, LineEntries DEF LineInv
<1>7. Quiet(p)
  BY <1>1, <1>3, <1>4, <1>5, <1>6 DEF Quiet, EndsIfAnswered
<1>8. QED
  BY <1>7, QuietKeeps

LEMMA RaiseKeeps ==
    ASSUME AdminInv, Raise, up, up', faults' = faults
    PROVE  AdminInv'
<1>1. /\ LineInv /\ PressInv /\ NothingElse /\ queue' = queue /\ results' = Tail(results)
      /\ results # <<>> /\ Head(results).value = Failed
      /\ results \in Seq(Answers) /\ OncePer(results)
  BY DEF AdminInv, Raise, Answer, LineInv
<1>2. PICK p : p = Head(results).press
  OBVIOUS
<1>3. Head(results) \in Answers /\ Head(results) \in Entries(results)
  BY <1>1, LineTail
<1>4. p \in Presses
  BY <1>2, <1>3 DEF Answers
<1>5. press[p].pc \in WaitPcs
  <2>1. Waits(results, p)
    BY <1>1, <1>2, <1>3, LineEntries
  <2>2. QED
    BY <1>1, <1>4, <2>1 DEF LineInv
<1>6. press' = [press EXCEPT ![p].pc = "failed"] /\ press[p].got \in Values \cup Profiles \cup Replies
  BY <1>1, <1>2, <1>4, RecordFields DEF Raise, Goes, PressInv
<1>7. /\ Turn(p) /\ press'[p].pc = "failed" /\ press'[p].op = press[p].op
  <2>1. PICK g \in Values \cup Profiles \cup Replies : g = press[p].got
    BY <1>6
  <2>2. QED
    BY <1>1, <1>2, <1>4, <1>5, <1>6, <2>1, RestTurn
<1>8. NoWrite(p)
  <2>1. ASSUME NEW e \in Entries(results), e.press = p PROVE e.value = Failed
    <3>1. e = Head(results)
      BY <1>1, <1>2, <1>3, <2>1, LineEntries
    <3>2. QED
      BY <1>1, <3>1
  <2>2. QED
    BY <2>1 DEF NoWrite
<1>9. ASSUME NEW t, Holds(p, t)' PROVE FALSE
  BY <1>7, <1>9 DEF Holds
<1>10. [press |-> p, value |-> Failed] \in Entries(results)
  <2>1. Head(results) = [press |-> p, value |-> Failed]
    BY <1>1, <1>2, <1>3 DEF Answers
  <2>2. QED
    BY <1>3, <2>1
<1>11. Quiet(p)
  BY <1>1, <1>7, <1>8, <1>9, <1>10 DEF Quiet, EndsIfAnswered
<1>12. QED
  BY <1>11, QuietKeeps

-----------------------------------------------------------------------------
(***************************************************************************)
(* Turns that change what the program runs with.                           *)
(***************************************************************************)
LEMMA WriteAnswered ==
    ASSUME LineInv, PressInv, NEW p \in Presses, NEW pc \in {"set", "reset", "saves"},
           Resumed(p, pc), Ends(p), up'
    PROVE  /\ Turn(p) /\ up /\ press[p].pc = pc
           /\ Head(results) \in Entries(results) /\ Head(results) \in Answers
           /\ Head(results).press = p /\ Head(results).value # Failed
           /\ Head(results) \notin Entries(results')
           /\ \A e \in Entries(results) : e.press = p => e = Head(results)
           /\ queue' = queue /\ [press |-> p, value |-> Failed] \notin Entries(results)
           /\ press'[p].pc = "done" /\ press'[p].op = press[p].op
           /\ press'[p].got = press[p].got
<1>1. /\ Turn(p) /\ queue' = queue
      /\ press'[p].pc = "done" /\ press'[p].op = press[p].op /\ press'[p].got = press[p].got
  BY EndsTurn
<1>2. /\ up /\ press[p].pc = pc /\ Head(results) \in Entries(results)
      /\ Head(results).press = p /\ Head(results).value # Failed
      /\ \A e \in Entries(results) : e.press = p => e = Head(results)
      /\ [press |-> p, value |-> Failed] \notin Entries(results)
  BY Resuming DEF Answer, Resumed
<1>3. Head(results) \in Answers
  BY <1>2, LineEntries DEF LineInv
<1>4. Head(results) \notin Entries(results')
  BY <1>1, <1>2, OthersWait
<1>5. QED
  BY <1>1, <1>2, <1>3, <1>4

(* A setting that has been stored is applied; key is the one it is about.  *)
LEMMA SettingApplied ==
    ASSUME AdminInv, NEW p \in Presses, NEW pc \in {"set", "reset"}, Resumed(p, pc), Ends(p), up',
           faults' = faults, UNCHANGED <<_paused, _disabled, rows, expired, performed>>,
           setting' = [setting EXCEPT ![KeyOf(p)] =
                          IF Written(p) = None THEN Bootstrap[KeyOf(p)] ELSE Written(p)],
           _overrides' = IF Written(p) = None THEN _overrides \ {KeyOf(p)}
                         ELSE _overrides \cup {KeyOf(p)}
    PROVE  AdminInv'
<1>1. LineInv /\ PressInv /\ StatementInv
  BY DEF AdminInv
<1>2. /\ Turn(p) /\ up /\ press[p].pc = pc
      /\ Head(results) \in Entries(results) /\ Head(results) \in Answers
      /\ Head(results).press = p /\ Head(results).value # Failed
      /\ Head(results) \notin Entries(results')
      /\ \A e \in Entries(results) : e.press = p => e = Head(results)
      /\ queue' = queue /\ [press |-> p, value |-> Failed] \notin Entries(results)
      /\ press'[p].pc = "done" /\ press'[p].op = press[p].op
  BY <1>1, WriteAnswered
<1>3. /\ _paused' = _paused /\ _disabled' = _disabled /\ stored' = stored /\ pausedRow' = pausedRow
      /\ disabledRows' = disabledRows /\ users' = users /\ drafts' = drafts
      /\ expired' = expired /\ performed' = performed
  BY DEF rows
<1>4. KeyOf(p) \in Keys /\ Written(p) \in Values \cup {None}
  BY <1>1, <1>2 DEF KeyOf, Keys, Written, PressInv, Fitting
<1>5. LineInv' /\ PressInv' /\ StatementInv'
  BY <1>1, <1>2, TurnKeepsLines
<1>6. ASSUME NEW k \in Keys PROVE SettingFits(k)'
  <2>1. SettingFits(k)
    BY <1>2 DEF AdminInv, SettingInv
  <2>2. CASE k # KeyOf(p)
    <3>1. \A e \in Entries(results) : e \in WritesOf(k) => e.press # p
      BY <2>2 DEF WritesOf
    <3>2. setting'[k] = setting[k] /\ (k \in _overrides' <=> k \in _overrides)
      BY <2>2 DEF AdminInv, RowsInv
    <3>3. QED
      BY <1>1, <1>2, <1>3, <2>1, <3>1, <3>2, TurnKeepsSetting
  <2>3. CASE k = KeyOf(p)
    <3>1. Head(results) \in WritesOf(k)
      BY <1>2, <2>3 DEF WritesOf
    <3>2. ~NoneOf(results, WritesOf(k))
      BY <1>1, <1>2, <3>1, LineEntries DEF LineInv
    <3>3. PICK e \in Entries(results) : LastOf(results, WritesOf(k), e) /\ stored[k] = Written(e.press)
      BY <2>1, <3>2 DEF SettingFits
    <3>4. \A x \in Entries(results') : x \in WritesOf(k) <=> x \in WritesOf(k)'
      <4>1. ASSUME NEW x \in Entries(results') PROVE press'[x.press] = press[x.press]
        BY <1>1, <1>2, OthersWait DEF Turn, Rewritten
      <4>2. QED
        BY <4>1 DEF WritesOf, KeyOf
    <3>5. results' \in Seq(Answers)
      BY <1>1, <1>2, OthersWait
    <3>6. CASE e.press = p
      <4>1. e = Head(results)
        BY <1>2, <3>6
      <4>2. NoneOf(results', WritesOf(k))
        BY <1>1, <1>2, <3>3, <4>1, OthersWait
      <4>3. NoneOf(results', WritesOf(k)')
        BY <3>4, <3>5, <4>2, SameLast
      <4>4. stored'[k] = Written(p)
        BY <1>3, <3>3, <3>6
      <4>5. setting'[k] = IF Written(p) = None THEN Bootstrap[k] ELSE Written(p)
        BY <1>4, <2>3 DEF AdminInv, RowsInv
      <4>6. k \in _overrides' <=> Written(p) # None
        BY <2>3
      <4>7. Matches(k)'
        BY <4>4, <4>5, <4>6 DEF Matches
      <4>8. QED
        BY <4>3, <4>7 DEF SettingFits
    <3>7. CASE e.press # p
      <4>1. e \in Entries(results')
        BY <1>1, <1>2, <3>7, OthersWait
      <4>2. LastOf(results', WritesOf(k), e)
        BY <1>1, <1>2, <3>3, <4>1, OthersWait
      <4>3. LastOf(results', WritesOf(k)', e)
        BY <3>4, <3>5, <4>2, SameLast
      <4>4. press'[e.press] = press[e.press]
        BY <1>1, <1>2, <4>1, OthersWait DEF Turn, Rewritten
      <4>5. stored'[k] = Written(e.press)'
        BY <1>3, <3>3, <4>4 DEF Written
      <4>6. QED
        BY <4>1, <4>3, <4>5 DEF SettingFits
    <3>8. QED
      BY <3>6, <3>7
  <2>4. QED
    BY <2>2, <2>3
<1>7. SettingInv'
  BY <1>6 DEF SettingInv
<1>8. PauseInv'
  BY <1>1, <1>2, <1>3, TurnKeepsPause DEF AdminInv
<1>9. SessionInv'
  BY <1>1, <1>2, <1>3, TurnKeepsSessions DEF AdminInv
<1>10. ReadInv'
  BY <1>1, <1>2, <1>3, TurnKeepsReads DEF AdminInv
<1>11. TokenInv'
  <2>1. press[p].op.op # "dismiss"
    BY <1>1, <1>2 DEF PressInv, Fitting
  <2>2. ASSUME NEW t, Holds(p, t)' PROVE FALSE
    BY <1>2, <2>1, <2>2 DEF Holds
  <2>3. QED
    BY <1>1, <1>2, <1>3, <2>2, TurnKeepsTokens DEF AdminInv
<1>12. RowsInv' /\ OwnerInv'
  <2>1. setting' \in [Keys -> Values]
    BY <1>4, ValueAssumption DEF AdminInv, RowsInv, Keys
  <2>2. _overrides' \subseteq Keys
    BY <1>4 DEF AdminInv, RowsInv
  <2>3. QED
    BY <1>1, <1>2, <1>3, <2>1, <2>2, TurnKeepsOwners DEF AdminInv, RowsInv, EndsIfAnswered
<1>13. QED
  BY <1>5, <1>7, <1>8, <1>9, <1>10, <1>11, <1>12 DEF AdminInv

LEMMA ApplyKeeps ==
    ASSUME AdminInv, NEW p \in Presses, Apply(p), up', faults' = faults
    PROVE  AdminInv'
<1>1. press[p].pc = "set" /\ press[p].got \in Values
  BY DEF Apply, Resumed, AdminInv, PressInv, Fitting
<1>2. Written(p) = press[p].got /\ Written(p) # None
  BY <1>1, NameAssumption DEF Written
<1>3. /\ Resumed(p, "set") /\ Ends(p) /\ UNCHANGED <<_paused, _disabled, rows, expired, performed>>
      /\ setting' = [setting EXCEPT ![KeyOf(p)] = press[p].got]
      /\ _overrides' = _overrides \cup {KeyOf(p)}
  BY DEF Apply
<1>4. QED
  BY <1>2, <1>3, SettingApplied

LEMMA ApplyResetKeeps ==
    ASSUME AdminInv, NEW p \in Presses, ApplyReset(p), up', faults' = faults
    PROVE  AdminInv'
<1>1. press[p].pc = "reset" /\ press[p].op.op = "perfreset"
  BY DEF ApplyReset, Resumed, AdminInv, PressInv, Fitting
<1>2. Written(p) = None /\ KeyOf(p) = Limit
  BY <1>1 DEF Written, KeyOf
<1>3. /\ Resumed(p, "reset") /\ Ends(p) /\ UNCHANGED <<_paused, _disabled, rows, expired, performed>>
      /\ setting' = [setting EXCEPT ![Limit] = Bootstrap[Limit]]
      /\ _overrides' = _overrides \ {Limit}
  BY DEF ApplyReset
<1>4. QED
  BY <1>2, <1>3, SettingApplied

LEMMA SetEnabledKeeps ==
    ASSUME AdminInv, NEW p \in Presses, SetEnabled(p), up', faults' = faults
    PROVE  AdminInv'
<1>1. LineInv /\ PressInv /\ StatementInv
  BY DEF AdminInv
<1>2. /\ Resumed(p, "saves") /\ Ends(p)
      /\ _disabled' = IF press[p].got THEN _disabled \ {What(p)} ELSE _disabled \cup {What(p)}
      /\ setting' = setting /\ _overrides' = _overrides /\ _paused' = _paused
      /\ stored' = stored /\ pausedRow' = pausedRow /\ disabledRows' = disabledRows
      /\ users' = users /\ drafts' = drafts /\ expired' = expired /\ performed' = performed
  BY DEF SetEnabled, rows
<1>3. /\ Turn(p) /\ up /\ press[p].pc = "saves"
      /\ Head(results) \in Entries(results) /\ Head(results) \in Answers
      /\ Head(results).press = p /\ Head(results).value # Failed
      /\ Head(results) \notin Entries(results')
      /\ \A e \in Entries(results) : e.press = p => e = Head(results)
      /\ queue' = queue /\ [press |-> p, value |-> Failed] \notin Entries(results)
      /\ press'[p].pc = "done" /\ press'[p].op = press[p].op
  BY <1>1, <1>2, WriteAnswered
<1>4. press[p].got \in BOOLEAN /\ press[p].op.op = "confirm" /\ What(p) \in Profiles
  BY <1>1, <1>3 DEF PressInv, Fitting
<1>5. LineInv' /\ PressInv' /\ StatementInv'
  BY <1>1, <1>3, TurnKeepsLines
<1>6. ASSUME NEW x \in Profiles PROVE SessionFits(x)'
  <2>1. SessionFits(x)
    BY <1>3 DEF AdminInv, SessionInv
  <2>2. CASE x # What(p)
    <3>1. \A e \in Entries(results) : e \in SavesOf(x) => e.press # p
      BY <2>2 DEF SavesOf
    <3>2. x \in _disabled' <=> x \in _disabled
      BY <1>2, <2>2
    <3>3. QED
      BY <1>1, <1>2, <1>3, <2>1, <3>1, <3>2, TurnKeepsSession
  <2>3. CASE x = What(p)
    <3>1. Head(results) \in SavesOf(x)
      BY <1>3, <2>3 DEF SavesOf
    <3>2. ~NoneOf(results, SavesOf(x))
      BY <1>1, <1>3, <3>1, LineEntries DEF LineInv
    <3>3. results' \in Seq(Answers)
      BY <1>1, <1>3, OthersWait
    <3>4. \A e \in Entries(results') : e \in SavesOf(x) <=> e \in SavesOf(x)'
      BY <1>1, <1>3, SavesStay
    <3>5. CASE Overtaken(x)
      BY <1>1, <1>3, <3>5, OvertakenStays DEF SessionFits
    <3>6. ASSUME NEW e \in Entries(results), LastOf(results, SavesOf(x), e),
                 x \in disabledRows <=> press[e.press].got = FALSE
          PROVE  SessionFits(x)'
      <4>1. CASE e.press = p
        <5>1. e = Head(results)
          BY <1>3, <4>1
        <5>2. NoneOf(results', SavesOf(x))
          BY <1>1, <1>3, <3>6, <5>1, OthersWait
        <5>3. NoneOf(results', SavesOf(x)')
          BY <3>3, <3>4, <5>2, SameLast
        <5>4. x \in _disabled' <=> press[p].got = FALSE
          BY <1>2, <1>4, <2>3
        <5>5. x \in _disabled' <=> x \in disabledRows'
          BY <1>2, <3>6, <4>1, <5>4
        <5>6. QED
          BY <5>3, <5>5 DEF SessionFits
      <4>2. CASE e.press # p
        <5>1. e \in Entries(results')
          BY <1>1, <1>3, <4>2, OthersWait
        <5>2. LastOf(results', SavesOf(x), e)
          BY <1>1, <1>3, <3>6, <5>1, OthersWait
        <5>3. LastOf(results', SavesOf(x)', e)
          BY <3>3, <3>4, <5>2, SameLast
        <5>4. press'[e.press] = press[e.press]
          BY <1>1, <1>3, <5>1, OthersWait DEF Turn, Rewritten
        <5>5. x \in disabledRows' <=> press'[e.press].got = FALSE
          BY <1>2, <3>6, <5>4
        <5>6. QED
          BY <5>1, <5>3, <5>5 DEF SessionFits
      <4>3. QED
        BY <4>1, <4>2
    <3>7. QED
      BY <2>1, <3>2, <3>5, <3>6 DEF SessionFits
  <2>4. QED
    BY <2>2, <2>3
<1>7. SessionInv'
  BY <1>6 DEF SessionInv
<1>8. PauseInv'
  BY <1>1, <1>2, <1>3, TurnKeepsPause DEF AdminInv
<1>9. SettingInv'
  BY <1>1, <1>2, <1>3, TurnKeepsSettings DEF AdminInv
<1>10. ReadInv'
  BY <1>1, <1>2, <1>3, TurnKeepsReads DEF AdminInv
<1>11. TokenInv'
  <2>1. ASSUME NEW t, Holds(p, t)' PROVE FALSE
    BY <1>3, <1>4, <2>1 DEF Holds
  <2>2. QED
    BY <1>1, <1>2, <1>3, <2>1, TurnKeepsTokens DEF AdminInv
<1>12. RowsInv' /\ OwnerInv'
  <2>1. _disabled' \subseteq Profiles
    BY <1>2, <1>4 DEF AdminInv, RowsInv
  <2>2. QED
    BY <1>1, <1>2, <1>3, <2>1, TurnKeepsOwners DEF AdminInv, RowsInv, EndsIfAnswered
<1>13. QED
  BY <1>5, <1>7, <1>8, <1>9, <1>10, <1>11, <1>12 DEF AdminInv

LEMMA PauseKeeps ==
    ASSUME AdminInv, NEW p \in Presses, Pause(p), up', faults' = faults
    PROVE  AdminInv'
<1>1. LineInv /\ PressInv /\ StatementInv
  BY DEF AdminInv
<1>2. PICK s : s = [do |-> "scheduler_paused", on |-> press[p].op.on]
  OBVIOUS
<1>3. /\ Resumed(p, "check") /\ press[p].op.op = "pause" /\ Awaits(p, "last", s)
      /\ _paused' = press[p].op.on
      /\ setting' = setting /\ _overrides' = _overrides /\ _disabled' = _disabled
      /\ stored' = stored /\ pausedRow' = pausedRow /\ disabledRows' = disabledRows
      /\ users' = users /\ drafts' = drafts /\ expired' = expired /\ performed' = performed
  BY <1>2 DEF Pause, Admitted, rows
<1>4. /\ up /\ results # <<>> /\ Head(results).press = p /\ results' = Tail(results)
      /\ press[p].pc = "check" /\ press \in [Presses -> PressRecords] /\ Fitting(press[p])
      /\ queue \in Seq(Requests)
  BY <1>1, <1>3, Resuming DEF PressInv, LineInv
<1>5. press[p].op.on \in BOOLEAN
  BY <1>1, <1>3, <1>4, OperationOf
<1>6. s \in Statements /\ s.do = "scheduler_paused" /\ s.on = press[p].op.on
  BY <1>2, <1>5, StatementsAre
<1>7. "last" \in PressPcs /\ "last" \in WaitPcs
  BY DEF PressPcs, WaitPcs
<1>8. /\ Rewritten(p, press'[p]) /\ queue' = Append(queue, [press |-> p, statement |-> s])
      /\ press'[p].op = press[p].op /\ press'[p].pc = "last" /\ press'[p].got = press[p].got
      /\ press'[p].read = press[p].read /\ press'[p].off = press[p].off
      /\ press'[p].overtaken = press[p].overtaken
  BY <1>3, <1>4, <1>7, GoesOn DEF Awaits, Goes, Hands
<1>9. Fitting(press'[p])
  BY <1>3, <1>4, <1>8 DEF Fitting
<1>10. Asked(p, s)'
  BY <1>3, <1>6, <1>8 DEF Asked
<1>11. Turn(p)
  BY <1>3, <1>4, <1>6, <1>7, <1>8, <1>9, <1>10 DEF Turn
<1>12. LineInv' /\ PressInv' /\ StatementInv'
  BY <1>1, <1>11, TurnKeepsLines
<1>13. SettingInv'
  BY <1>1, <1>3, <1>4, <1>11, TurnKeepsSettings DEF AdminInv
<1>14. PauseInv'
  <2>1. PICK x : x = [press |-> p, statement |-> s]
    OBVIOUS
  <2>2. x \in Requests /\ x.statement = s
    BY <1>6, <2>1 DEF Requests
  <2>3. x \in PauseRequests' /\ x \in PauseRequests
    BY <1>6, <2>2 DEF PauseRequests
  <2>4. x \in Entries(queue') /\ LastOf(queue', PauseRequests', x)
    BY <1>4, <1>8, <2>1, <2>2, <2>3, LineAppend
  <2>5. x.statement.on = _paused'
    BY <1>3, <1>6, <2>2
  <2>6. QED
    BY <2>4, <2>5 DEF PauseInv
<1>15. SessionInv'
  BY <1>1, <1>3, <1>4, <1>11, TurnKeepsSessions DEF AdminInv
<1>16. ReadInv'
  BY <1>1, <1>3, <1>8, <1>11, TurnKeepsReads DEF AdminInv
<1>17. TokenInv'
  <2>1. ASSUME NEW t, Holds(p, t)' PROVE FALSE
    BY <1>3, <1>8, <2>1 DEF Holds
  <2>2. QED
    BY <1>1, <1>3, <1>11, <2>1, TurnKeepsTokens DEF AdminInv
<1>18. RowsInv' /\ OwnerInv'
  BY <1>1, <1>3, <1>4, <1>5, <1>11, TurnKeepsOwners DEF AdminInv, RowsInv, EndsIfAnswered
<1>19. QED
  BY <1>12, <1>13, <1>14, <1>15, <1>16, <1>17, <1>18 DEF AdminInv

(* The operation begins: whoever held its confirmation holds it no longer. *)
LEMMA PerformTurn ==
    ASSUME AdminInv, NEW p \in Presses, Perform(p), up, up'
    PROVE  /\ Turn(p) /\ press[p].pc = "answers" /\ press'[p].pc \in {"last", "saves"}
           /\ press'[p].op = press[p].op /\ press[p].op.op = "confirm"
           /\ press[p].op.token \in Presses
           /\ results' = results
           /\ \A e \in Entries(queue') : e \in Entries(queue) \/ e.statement.do # "scheduler_paused"
<1>1. /\ LineInv /\ PressInv /\ press[p].pc = "answers" /\ results' = results
      /\ press \in [Presses -> PressRecords] /\ Fitting(press[p])
      /\ queue \in Seq(Requests)
  BY DEF AdminInv, Perform, PressInv, LineInv
<1>2. press[p].op.op = "confirm" /\ press[p].op.token \in Presses /\ Offered(press[p].op.token)
  BY <1>1, OperationOf DEF PressInv, Fitting
<1>3. press[p].pc \notin WaitPcs /\ {"last", "saves"} \subseteq PressPcs /\ {"last", "saves"} \subseteq WaitPcs
  BY <1>1 DEF WaitPcs, PressPcs
<1>4. press[p].op.token # p
  BY <1>1, <1>2 DEF Offered
<1>5. ASSUME NEW c \in {"last", "saves"}, NEW s \in Statements, Asked(p, s)',
             s.do # "scheduler_paused",
             Rewritten(p, press'[p]), press'[p].op = press[p].op, press'[p].pc = c,
             press'[p].overtaken = press[p].overtaken, Fitting(press'[p]),
             c = "saves" => What(p) \in Profiles, Hands(p, s)
      PROVE  /\ Turn(p) /\ press'[p].pc \in {"last", "saves"}
             /\ \A e \in Entries(queue') : e \in Entries(queue) \/ e.statement.do # "scheduler_paused"
  <2>1. What(p)' = What(p)
    BY <1>2, <1>4, <1>5 DEF Rewritten, What
  <2>2. queue' = Append(queue, [press |-> p, statement |-> s])
    BY <1>5 DEF Hands
  <2>3. press[p].pc \notin {"offered", "failed"}
    BY <1>1
  <2>4. press'[p].pc = "saves" => What(p)' \in Profiles
    BY <1>5, <2>1
  <2>5. press'[p].op.op \in {"confirm", "dismiss"} => Offered(press'[p].op.token)
    BY <1>2, <1>5
  <2>6. press'[p].pc \in WaitPcs
    BY <1>3, <1>5
  <2>7. Turn(p)
    BY <1>1, <1>3, <1>5, <2>2, <2>3, <2>4, <2>5, <2>6 DEF Turn
  <2>8. PICK x : x = [press |-> p, statement |-> s]
    OBVIOUS
  <2>9. x \in Requests /\ x.statement = s
    BY <2>8 DEF Requests
  <2>10. \A e \in Entries(queue') : e = x \/ e \in Entries(queue)
    BY <1>1, <2>2, <2>8, <2>9, LineAppend
  <2>11. QED
    BY <1>5, <2>7, <2>9, <2>10
<1>6. CASE What(p) = "operation" /\ Awaits(p, "last", [do |-> "operation"])
  <2>1. PICK s : s = [do |-> "operation"]
    OBVIOUS
  <2>2. s \in Statements /\ s.do = "operation"
    BY <2>1, StatementsAre
  <2>3. press' = [press EXCEPT ![p].pc = "last"] /\ Hands(p, s)
    BY <1>6, <2>1 DEF Awaits, Goes
  <2>4. /\ Rewritten(p, press'[p])
        /\ press'[p].op = press[p].op /\ press'[p].pc = "last" /\ press'[p].got = press[p].got
        /\ press'[p].read = press[p].read /\ press'[p].off = press[p].off
        /\ press'[p].overtaken = press[p].overtaken
    BY <1>1, <1>3, <2>3, GoesOn
  <2>5. Fitting(press'[p])
    BY <1>1, <1>2, <2>4 DEF Fitting
  <2>6. Asked(p, s)'
    BY <1>2, <2>2, <2>4 DEF Asked
  <2>7. s.do # "scheduler_paused"
    BY <2>2
  <2>8. QED
    BY <1>1, <1>2, <1>5, <2>2, <2>3, <2>4, <2>5, <2>6, <2>7
<1>7. ASSUME NEW b \in BOOLEAN, What(p) \in Profiles,
             press' = [press EXCEPT ![p].pc = "saves", ![p].got = b],
             Hands(p, [do |-> "session_disabled", profile |-> What(p), on |-> b])
      PROVE  /\ Turn(p) /\ press'[p].pc \in {"last", "saves"} /\ press'[p].op = press[p].op
             /\ \A e \in Entries(queue') : e \in Entries(queue) \/ e.statement.do # "scheduler_paused"
  <2>1. PICK s : s = [do |-> "session_disabled", profile |-> What(p), on |-> b]
    OBVIOUS
  <2>2. s \in Statements /\ s.do = "session_disabled" /\ s.profile = What(p) /\ s.on = b
    BY <1>7, <2>1, StatementsAre
  <2>3. b \in Values \cup Profiles \cup Replies
    BY DEF Replies
  <2>4. /\ Rewritten(p, press'[p])
        /\ press'[p].op = press[p].op /\ press'[p].pc = "saves" /\ press'[p].got = b
        /\ press'[p].read = press[p].read /\ press'[p].off = press[p].off
        /\ press'[p].overtaken = press[p].overtaken
    BY <1>1, <1>3, <1>7, <2>3, GoesOnWith
  <2>5. Fitting(press'[p])
    BY <1>1, <1>2, <2>4 DEF Fitting
  <2>6. What(p)' = What(p)
    BY <1>2, <1>4, <2>4 DEF Rewritten, What
  <2>7. Asked(p, s)'
    BY <2>2, <2>4, <2>6 DEF Asked
  <2>8. s.do # "scheduler_paused" /\ Hands(p, s)
    BY <1>7, <2>1, <2>2
  <2>9. QED
    BY <1>5, <1>7, <2>2, <2>4, <2>5, <2>7, <2>8
<1>8. CASE What(p) \in Profiles /\ What(p) \in _disabled
           /\ press' = [press EXCEPT ![p].pc = "saves", ![p].got = What(p) \in _disabled]
           /\ Hands(p, [do |-> "session_disabled", profile |-> What(p), on |-> What(p) \in _disabled])
  <2>1. (What(p) \in _disabled) = TRUE
    BY <1>8
  <2>2. /\ press' = [press EXCEPT ![p].pc = "saves", ![p].got = TRUE]
        /\ Hands(p, [do |-> "session_disabled", profile |-> What(p), on |-> TRUE])
    BY <1>8, <2>1
  <2>3. QED
    BY <1>1, <1>2, <1>7, <1>8, <2>2
<1>9. CASE What(p) \in Profiles /\ What(p) \notin _disabled
           /\ press' = [press EXCEPT ![p].pc = "saves", ![p].got = What(p) \in _disabled]
           /\ Hands(p, [do |-> "session_disabled", profile |-> What(p), on |-> What(p) \in _disabled])
  <2>1. (What(p) \in _disabled) = FALSE
    BY <1>9
  <2>2. /\ press' = [press EXCEPT ![p].pc = "saves", ![p].got = FALSE]
        /\ Hands(p, [do |-> "session_disabled", profile |-> What(p), on |-> FALSE])
    BY <1>9, <2>1
  <2>3. QED
    BY <1>1, <1>2, <1>7, <1>9, <2>2
<1>10. QED
  BY <1>6, <1>8, <1>9 DEF Perform

LEMMA PerformKeeps ==
    ASSUME AdminInv, NEW p \in Presses, Perform(p), up, up', faults' = faults
    PROVE  AdminInv'
<1>1. LineInv /\ PressInv /\ StatementInv
  BY DEF AdminInv
<1>2. PICK t : t = press[p].op.token
  OBVIOUS
<1>3. /\ Turn(p) /\ press[p].pc = "answers" /\ press'[p].pc \in {"last", "saves"}
      /\ press'[p].op = press[p].op /\ press[p].op.op = "confirm" /\ t \in Presses
      /\ results' = results
      /\ \A e \in Entries(queue') : e \in Entries(queue) \/ e.statement.do # "scheduler_paused"
  BY <1>2, PerformTurn
<1>4. /\ performed' = [performed EXCEPT ![t] = @ + 1]
      /\ setting' = setting /\ _overrides' = _overrides /\ _paused' = _paused
      /\ _disabled' = _disabled /\ stored' = stored /\ pausedRow' = pausedRow
      /\ disabledRows' = disabledRows /\ users' = users /\ drafts' = drafts
      /\ expired' = expired
  BY <1>2 DEF Perform, memory, rows
<1>5. LineInv' /\ PressInv' /\ StatementInv'
  BY <1>1, <1>3, TurnKeepsLines
<1>6. /\ results' \in Seq(Answers) /\ ~Waits(results', p)
      /\ \A e \in Entries(results') : e.press \in Presses \ {p}
  BY <1>1, <1>3, OthersWait
<1>7. [press |-> p, value |-> Failed] \notin Entries(results)
  <2>1. [press |-> p, value |-> Failed].press = p
    OBVIOUS
  <2>2. QED
    BY <1>3, <1>6, <2>1
<1>8. SettingInv'
  BY <1>1, <1>3, <1>4, TurnKeepsSettings DEF AdminInv
<1>9. PauseInv'
  BY <1>1, <1>3, <1>4, <1>7, TurnKeepsPause DEF AdminInv
<1>10. SessionInv'
  BY <1>1, <1>3, <1>4, TurnKeepsSessions DEF AdminInv
<1>11. ReadInv'
  BY <1>1, <1>3, <1>4, TurnKeepsReads DEF AdminInv
<1>12. Holds(p, t)
  BY <1>2, <1>3 DEF Holds
<1>13. /\ t \notin drafts /\ performed[t] = 0
       /\ \A q \in Presses : Holds(q, t) => q = p
  BY <1>3, <1>12 DEF AdminInv, TokenInv
<1>14. ASSUME NEW u, Holds(p, u)' PROVE FALSE
  <2>1. [press |-> p, value |-> TRUE] \in Entries(results')
    BY <1>3, <1>14 DEF Holds
  <2>2. [press |-> p, value |-> TRUE].press = p
    OBVIOUS
  <2>3. QED
    BY <1>6, <2>1, <2>2
<1>15. \A q, u \in Presses : Holds(q, u)' => Holds(q, u) /\ q # p
  BY <1>1, <1>3, <1>14, OthersHold
<1>16. performed \in [Presses -> 0..1]
  BY DEF AdminInv, RowsInv
<1>17. performed'[t] = 1 /\ \A u \in Presses \ {t} : performed'[u] = performed[u]
  BY <1>3, <1>4, <1>13, <1>16
<1>18. performed' \in [Presses -> 0..1]
  BY <1>3, <1>4, <1>13, <1>16
<1>19. Offered(t) /\ press'[t].pc = "offered"
  BY <1>1, <1>2, <1>3 DEF PressInv, Offered, Turn, Rewritten
<1>20. TokenInv'
  <2>1. ASSUME NEW u \in Presses
        PROVE  /\ \A q, r \in Presses : Holds(q, u)' /\ Holds(r, u)' => q = r
               /\ u \in drafts' \/ performed'[u] # 0 => \A q \in Presses : ~Holds(q, u)'
               /\ u \in drafts' => performed'[u] = 0
               /\ performed'[u] # 0 => press'[u].pc = "offered"
    <3>1. \A q, r \in Presses : Holds(q, u)' /\ Holds(r, u)' => q = r
      BY <1>15 DEF AdminInv, TokenInv
    <3>2. CASE u = t
      <4>1. \A q \in Presses : ~Holds(q, u)'
        BY <1>13, <1>15, <3>2
      <4>2. QED
        BY <1>4, <1>13, <1>19, <3>2, <4>1
    <3>3. CASE u # t
      <4>1. performed'[u] = performed[u]
        BY <1>17, <3>3
      <4>2. press[u].pc = "offered" => press'[u].pc = "offered"
        BY <1>3 DEF Turn, Rewritten
      <4>3. QED
        BY <1>4, <1>15, <3>1, <4>1, <4>2 DEF AdminInv, TokenInv
    <3>4. QED
      BY <3>2, <3>3
  <2>2. QED
    BY <2>1 DEF TokenInv
<1>21. RowsInv' /\ OwnerInv'
  BY <1>1, <1>3, <1>4, <1>18, TurnKeepsOwners DEF AdminInv, RowsInv, EndsIfAnswered
<1>22. QED
  BY <1>5, <1>8, <1>9, <1>10, <1>11, <1>20, <1>21 DEF AdminInv

(* What a refresh knows of the rows it has read.                           *)
Knows(p, off) ==
    /\ off \subseteq press[p].read
    /\ \A x \in press[p].read \ press[p].overtaken : x \in off <=> x \in disabledRows

ReadsOn(p, off, next) ==
    /\ press' = [press EXCEPT ![p].pc = "reads", ![p].off = off, ![p].got = next]
    /\ Hands(p, [do |-> "get session", profile |-> next])

LEMMA OffIsRead ==
    ASSUME LineInv, PressInv, ReadInv, NEW p \in Presses,
           Admitted(p, "refresh") \/ Resumed(p, "reads")
    PROVE  Knows(p, OffSoFar(p))
<1>1. CASE Admitted(p, "refresh")
  <2>1. press[p].pc = "check"
    BY <1>1 DEF Admitted, Resumed
  <2>2. press[p].read = {} /\ press[p].off \subseteq press[p].read
    BY <2>1 DEF PressInv, Fitting
  <2>3. QED
    BY <2>1, <2>2 DEF OffSoFar, Knows
<1>2. CASE Resumed(p, "reads")
  <2>1. /\ press[p].pc = "reads" /\ Answer # Failed /\ Answer = Head(results).value
        /\ Head(results) = [press |-> p, value |-> Answer]
        /\ Head(results) \in Entries(results) /\ Head(results).press = p
        /\ \A e \in Entries(results) : e.press = p => e = Head(results)
    BY <1>2, Resuming DEF Resumed, Answer
  <2>2. /\ press[p].got \in press[p].read \ press[p].off
        /\ \A x \in press[p].read \ press[p].overtaken : ReadAs(p, x) <=> x \in disabledRows
    BY <2>1 DEF ReadInv
  <2>3. [press |-> p, value |-> TRUE] \in Entries(results) <=> Answer = TRUE
    <3>1. /\ [press |-> p, value |-> TRUE].press = p
          /\ [press |-> p, value |-> TRUE].value = TRUE
      OBVIOUS
    <3>2. QED
      BY <2>1, <3>1
  <2>4. \A x : x \in OffSoFar(p) <=> ReadAs(p, x)
    BY <2>1, <2>3 DEF OffSoFar, ReadAs
  <2>5. press[p].off \subseteq press[p].read
    BY DEF PressInv, Fitting
  <2>6. OffSoFar(p) \subseteq press[p].read
    BY <2>2, <2>5 DEF OffSoFar
  <2>7. QED
    BY <2>2, <2>4, <2>6 DEF Knows
<1>3. QED
  BY <1>1, <1>2

(* A refresh is done: what it has not missed is as stored.                 *)
LEMMA RefreshEnds ==
    ASSUME AdminInv, NEW p \in Presses, NEW pc \in {"check", "reads"}, Resumed(p, pc),
           press[p].op.op = "refresh", press[p].read = Profiles,
           Knows(p, OffSoFar(p)), _disabled' = OffSoFar(p), Ends(p),
           UNCHANGED <<setting, _overrides, _paused, rows, expired, performed>>,
           up', faults' = faults
    PROVE  AdminInv'
<1>1. LineInv /\ PressInv /\ StatementInv
  BY DEF AdminInv
<1>2. /\ Turn(p) /\ queue' = queue /\ press'[p].pc = "done" /\ press'[p].op = press[p].op
      /\ press'[p].got = press[p].got /\ up
      /\ press[p].pc = pc /\ [press |-> p, value |-> Failed] \notin Entries(results)
  BY <1>1, EndsTurn, Resuming
<1>3. /\ setting' = setting /\ _overrides' = _overrides /\ _paused' = _paused
      /\ stored' = stored /\ pausedRow' = pausedRow /\ disabledRows' = disabledRows
      /\ users' = users /\ drafts' = drafts /\ expired' = expired /\ performed' = performed
  BY DEF rows
<1>4. LineInv' /\ PressInv' /\ StatementInv'
  BY <1>1, <1>2, TurnKeepsLines
<1>5. ASSUME NEW x \in Profiles PROVE SessionFits(x)'
  <2>1. SessionFits(x)
    BY <1>2 DEF AdminInv, SessionInv
  <2>2. CASE x \in press[p].overtaken
    <3>1. Overtaken(x)
      BY <2>2 DEF Overtaken
    <3>2. QED
      BY <1>1, <1>2, <3>1, OvertakenStays DEF SessionFits
  <2>3. CASE x \notin press[p].overtaken
    <3>1. x \in _disabled' <=> x \in disabledRows
      BY <2>3 DEF Knows
    <3>2. \A e \in Entries(results) : e \in SavesOf(x) => e.press # p
      BY <1>2 DEF SavesOf
    <3>3. QED
      BY <1>1, <1>2, <1>3, <2>1, <3>1, <3>2, TurnKeepsSession
  <2>4. QED
    BY <2>2, <2>3
<1>6. SessionInv'
  BY <1>5 DEF SessionInv
<1>7. SettingInv'
  BY <1>1, <1>2, <1>3, TurnKeepsSettings DEF AdminInv
<1>8. PauseInv'
  BY <1>1, <1>2, <1>3, TurnKeepsPause DEF AdminInv
<1>9. ReadInv'
  BY <1>1, <1>2, <1>3, TurnKeepsReads DEF AdminInv
<1>10. TokenInv'
  <2>1. ASSUME NEW t, Holds(p, t)' PROVE FALSE
    BY <1>2, <2>1 DEF Holds
  <2>2. QED
    BY <1>1, <1>2, <1>3, <2>1, TurnKeepsTokens DEF AdminInv
<1>11. RowsInv' /\ OwnerInv'
  BY <1>1, <1>2, <1>3, TurnKeepsOwners DEF AdminInv, RowsInv, Knows, EndsIfAnswered
<1>12. QED
  BY <1>4, <1>6, <1>7, <1>8, <1>9, <1>10, <1>11 DEF AdminInv

(* Or it reads the next row.                                               *)
LEMMA RefreshReads ==
    ASSUME AdminInv, NEW p \in Presses, NEW pc \in {"check", "reads"}, Resumed(p, pc),
           press[p].op.op = "refresh", NEW next \in Profiles \ press[p].read,
           NEW sofar, Knows(p, sofar), ReadsOn(p, sofar, next),
           UNCHANGED <<memory, rows, expired, performed>>, up', faults' = faults
    PROVE  AdminInv'
<1>1. LineInv /\ PressInv /\ StatementInv
  BY DEF AdminInv
<1>2. /\ up /\ results # <<>> /\ Head(results).press = p /\ results' = Tail(results)
      /\ press[p].pc = pc /\ press \in [Presses -> PressRecords] /\ Fitting(press[p])
      /\ [press |-> p, value |-> Failed] \notin Entries(results)
      /\ queue \in Seq(Requests)
  BY <1>1, Resuming DEF PressInv, LineInv
<1>3. /\ setting' = setting /\ _overrides' = _overrides /\ _paused' = _paused
      /\ _disabled' = _disabled /\ stored' = stored /\ pausedRow' = pausedRow
      /\ disabledRows' = disabledRows /\ users' = users /\ drafts' = drafts
      /\ expired' = expired /\ performed' = performed
  BY DEF memory, rows
<1>4. PICK s : s = [do |-> "get session", profile |-> next]
  OBVIOUS
<1>5. s \in Statements /\ s.do = "get session" /\ s.profile = next
  BY <1>4, StatementsAre
<1>6. queue' = Append(queue, [press |-> p, statement |-> s])
  BY <1>4 DEF Hands, ReadsOn
<1>7. PICK r : r = [press[p] EXCEPT !.pc = "reads", !.off = sofar, !.got = next]
  OBVIOUS
<1>8. /\ press[p] \in PressRecords /\ "reads" \in PressPcs /\ "reads" \in WaitPcs
      /\ sofar \subseteq press[p].read /\ sofar \subseteq Profiles
  BY <1>2, RecordFields DEF PressPcs, WaitPcs, Knows
<1>9. /\ r \in PressRecords /\ r.op = press[p].op /\ r.pc = "reads" /\ r.got = next
      /\ r.read = press[p].read /\ r.off = sofar /\ r.overtaken = press[p].overtaken
  BY <1>7, <1>8 DEF PressRecords
<1>10. press' = [press EXCEPT ![p] = r]
  BY <1>7 DEF ReadsOn
<1>11. Rewritten(p, r) /\ press'[p] = r
  BY <1>2, <1>9, <1>10, Rewrites DEF Rewritten
<1>12. Fitting(press'[p])
  BY <1>2, <1>8, <1>9, <1>11 DEF Fitting
<1>13. Asked(p, s)'
  BY <1>5, <1>9, <1>11 DEF Asked
<1>14. Turn(p)
  BY <1>2, <1>5, <1>6, <1>8, <1>9, <1>11, <1>12, <1>13 DEF Turn
<1>15. NoWrite(p)
  BY <1>2 DEF NoWrite
<1>16. LineInv' /\ PressInv' /\ StatementInv'
  BY <1>1, <1>14, TurnKeepsLines
<1>17. SettingInv'
  BY <1>1, <1>3, <1>14, <1>15, TurnKeepsSettings DEF AdminInv
<1>18. PauseInv'
  <2>1. ASSUME NEW e \in Entries(queue') PROVE e \in Entries(queue) \/ e.statement.do # "scheduler_paused"
    <3>1. PICK x : x = [press |-> p, statement |-> s]
      OBVIOUS
    <3>2. x \in Requests /\ x.statement = s
      BY <1>5, <3>1 DEF Requests
    <3>3. e = x \/ e \in Entries(queue)
      BY <1>2, <1>6, <3>1, <3>2, LineAppend
    <3>4. QED
      BY <1>5, <3>2, <3>3
  <2>2. QED
    BY <1>1, <1>2, <1>3, <1>14, <2>1, TurnKeepsPause DEF AdminInv
<1>19. SessionInv'
  BY <1>1, <1>3, <1>14, <1>15, TurnKeepsSessions DEF AdminInv
<1>20. ReadInv'
  <2>1. ASSUME NEW q \in Presses, press'[q].pc = "reads"
        PROVE  /\ \A x \in press'[q].read \ press'[q].overtaken : ReadAs(q, x)' <=> x \in disabledRows'
               /\ \A e \in Entries(results') :
                     e.press = q /\ e.value # Failed =>
                         press'[q].got \in press'[q].read \ press'[q].off /\ e.value \in BOOLEAN
    <3>1. CASE q = p
      <4>1. ASSUME NEW x \in press'[p].read \ press'[p].overtaken
            PROVE  ReadAs(p, x)' <=> x \in disabledRows'
        BY <1>3, <1>9, <1>11, <4>1 DEF ReadAs, Knows
      <4>2. \A e \in Entries(results') : e.press # p
        BY <1>1, <1>14, OthersWait
      <4>3. QED
        BY <3>1, <4>1, <4>2
    <3>2. CASE q # p
      <4>1. press'[q] = press[q]
        BY <1>11, <3>2 DEF Rewritten
      <4>2. q \in Presses \ {p} /\ press[q].pc = "reads"
        BY <2>1, <3>2, <4>1
      <4>3. QED
        BY <1>1, <1>3, <1>14, <4>2, TurnKeepsReads DEF AdminInv
    <3>3. QED
      BY <3>1, <3>2
  <2>2. QED
    BY <2>1 DEF ReadInv
<1>21. TokenInv'
  <2>1. ASSUME NEW t, Holds(p, t)' PROVE FALSE
    BY <1>9, <1>11, <2>1 DEF Holds
  <2>2. QED
    BY <1>1, <1>3, <1>14, <2>1, TurnKeepsTokens DEF AdminInv
<1>22. RowsInv' /\ OwnerInv'
  BY <1>1, <1>2, <1>3, <1>14, TurnKeepsOwners DEF AdminInv, RowsInv, EndsIfAnswered
<1>23. QED
  BY <1>16, <1>17, <1>18, <1>19, <1>20, <1>21, <1>22 DEF AdminInv

LEMMA RefreshKeeps ==
    ASSUME AdminInv, NEW p \in Presses, Refresh(p), up', faults' = faults
    PROVE  AdminInv'
<1>1. Admitted(p, "refresh") \/ Resumed(p, "reads")
  BY DEF Refresh
<1>2. PICK pc \in {"check", "reads"} : Resumed(p, pc)
  BY <1>1 DEF Admitted
<1>3. press[p].op.op = "refresh"
  <2>1. CASE Admitted(p, "refresh")
    BY <2>1 DEF Admitted
  <2>2. CASE Resumed(p, "reads")
    BY <2>2 DEF AdminInv, PressInv, Fitting, Resumed
  <2>3. QED
    BY <1>1, <2>1, <2>2
<1>4. Knows(p, OffSoFar(p))
  BY <1>1, OffIsRead DEF AdminInv
<1>5. UNCHANGED <<setting, _overrides, _paused, rows, expired, performed>>
  BY DEF Refresh
<1>6. CASE Profiles \ press[p].read = {}
  <2>1. press[p].read = Profiles
    BY <1>6, RecordFields DEF AdminInv, PressInv
  <2>2. _disabled' = OffSoFar(p) /\ Ends(p)
    BY <1>6 DEF Refresh
  <2>3. QED
    BY <1>2, <1>3, <1>4, <1>5, <2>1, <2>2, RefreshEnds
<1>7. CASE Profiles \ press[p].read # {}
  <2>1. PICK next : next = CHOOSE x \in Profiles \ press[p].read : TRUE
    OBVIOUS
  <2>2. next \in Profiles \ press[p].read
    BY <1>7, <2>1
  <2>3. PICK sofar : sofar = OffSoFar(p)
    OBVIOUS
  <2>4. ReadsOn(p, sofar, next) /\ _disabled' = _disabled
    BY <1>7, <2>1, <2>3 DEF Refresh, ReadsOn
  <2>5. UNCHANGED <<memory, rows, expired, performed>>
    BY <1>5, <2>4 DEF memory
  <2>6. Knows(p, sofar)
    BY <1>4, <2>3
  <2>7. QED
    BY <1>2, <1>3, <2>2, <2>4, <2>5, <2>6, RefreshReads
<1>8. QED
  BY <1>6, <1>7

-----------------------------------------------------------------------------
(***************************************************************************)
(* The database thread: it answers v to the statement s of the press p.    *)
(***************************************************************************)
Answering(p, s, v) ==
    /\ up /\ up'
    /\ queue # <<>> /\ Head(queue) = [press |-> p, statement |-> s]
    /\ queue' = Tail(queue)
    /\ results' = Append(results, [press |-> p, value |-> v]) /\ v \in Replies
    /\ press' \in [Presses -> PressRecords]
    /\ \A q \in Presses :
          /\ press'[q].op = press[q].op /\ press'[q].pc = press[q].pc
          /\ press'[q].got = press[q].got /\ press'[q].off = press[q].off
          /\ press[q].read \subseteq press'[q].read
          /\ press[q].overtaken \subseteq press'[q].overtaken
          /\ press'[q].overtaken \subseteq press'[q].read
          /\ press'[q].read = press[q].read \/ (q = p /\ press[p].pc = "reads")

LEMMA AnswerLines ==
    ASSUME LineInv, PressInv, StatementInv, NEW p, NEW s, NEW v, Answering(p, s, v)
    PROVE  /\ p \in Presses /\ s \in Statements /\ Asked(p, s) /\ press[p].pc \in WaitPcs
           /\ [press |-> p, value |-> v] \in Answers
           /\ [press |-> p, value |-> v] \in Entries(results')
           /\ \A e \in Entries(results) : e \in Entries(results') /\ e.press # p
           /\ \A e \in Entries(results') : e = [press |-> p, value |-> v] \/ e \in Entries(results)
           /\ \A e \in Entries(queue') : e \in Entries(queue) /\ e.press # p
           /\ LineInv'
<1>1. /\ queue \in Seq(Requests) /\ results \in Seq(Answers) /\ OncePer(queue) /\ OncePer(results)
      /\ queue # <<>> /\ queue' = Tail(queue) /\ v \in Replies
  BY DEF LineInv, Answering
<1>2. PICK h : h = Head(queue)
  OBVIOUS
<1>3. h \in Requests /\ h \in Entries(queue) /\ h.press = p /\ h.statement = s
  BY <1>1, <1>2, LineTail DEF Answering
<1>4. p \in Presses /\ s \in Statements
  BY <1>3 DEF Requests
<1>5. Asked(p, s)
  BY <1>3 DEF StatementInv
<1>6. Waits(queue, p)
  BY <1>1, <1>3, LineEntries
<1>7. press[p].pc \in WaitPcs /\ ~Waits(results, p)
  BY <1>4, <1>6 DEF LineInv
<1>8. PICK a : a = [press |-> p, value |-> v]
  OBVIOUS
<1>9. a \in Answers /\ a.press = p
  BY <1>1, <1>4, <1>8 DEF Answers
<1>10. /\ results' \in Seq(Answers) /\ a \in Entries(results') /\ OncePer(results')
       /\ \A e \in Entries(results) : e \in Entries(results')
       /\ \A e \in Entries(results') : e = a \/ e \in Entries(results)
  BY <1>1, <1>7, <1>8, <1>9, LineAppend DEF Answering
<1>11. \A e \in Entries(results) : e.press # p
  BY <1>1, <1>7, LineEntries
<1>12. /\ queue' \in Seq(Requests) /\ OncePer(queue')
       /\ \A e \in Entries(queue') : e \in Entries(queue) /\ e.press # p
  BY <1>1, <1>2, <1>3, LineTail
<1>13. ASSUME NEW q \in Presses
       PROVE  /\ ~(Waits(queue', q) /\ Waits(results', q))
              /\ Waits(queue', q) \/ Waits(results', q) => up' /\ press'[q].pc \in WaitPcs
  <2>1. ASSUME Waits(queue', q) PROVE Waits(queue, q) /\ q # p
    <3>1. PICK e \in Entries(queue') : e.press = q
      BY <1>12, <2>1, LineEntries
    <3>2. e \in Entries(queue) /\ q # p
      BY <1>12, <3>1
    <3>3. QED
      BY <1>1, <3>1, <3>2, LineEntries
  <2>2. Waits(results', q) => Waits(results, q) \/ q = p
    BY <1>1, <1>9, <1>10, LineEntries
  <2>3. press'[q].pc = press[q].pc /\ up'
    BY DEF Answering
  <2>4. QED
    BY <1>7, <2>1, <2>2, <2>3 DEF LineInv
<1>14. LineInv'
  BY <1>10, <1>12, <1>13 DEF LineInv
<1>15. QED
  BY <1>4, <1>5, <1>7, <1>8, <1>9, <1>10, <1>11, <1>12, <1>14

(* What the statement says tells who waits for it.                         *)
LEMMA AskedBy ==
    ASSUME PressInv, NEW p \in Presses, NEW s, Asked(p, s), press[p].pc \in WaitPcs
    PROVE  /\ s.do = "get session" =>
                press[p].pc = "reads" /\ s.profile = press[p].got /\ press[p].got \notin press[p].read
           /\ s.do \in {"set_runtime_setting", "delete_runtime_setting"} =>
                press[p].pc \in {"set", "reset"} /\ s.key = KeyOf(p) /\ s.value = Written(p)
           /\ s.do = "session_disabled" =>
                press[p].pc = "saves" /\ s.profile = What(p) /\ s.on = press[p].got
           /\ s.do = "scheduler_paused" =>
                press[p].pc = "last" /\ press[p].op.op = "pause" /\ s.on = press[p].op.on
           /\ s.do = "save_ui_draft" => press[p].pc = "asks" /\ s.token = p
           /\ s.do = "delete_ui_draft" =>
                /\ press[p].pc = "last" /\ press[p].op.op = "dismiss"
                /\ s.token = press[p].op.token
           /\ s.do = "consume_ui_draft" =>
                /\ press[p].pc = "consumes" /\ press[p].op.op = "confirm"
                /\ s.token = press[p].op.token
           /\ s.do = "put user" =>
                press[p].pc = "last" /\ (s.user \in Owners => Allows(press[p].op, s))
           /\ press[p].pc \in {"set", "reset"} =>
                s.do \in {"set_runtime_setting", "delete_runtime_setting"}
           /\ press[p].pc = "saves" => s.do = "session_disabled"
           /\ press[p].pc = "reads" => s.do = "get session"
           /\ press[p].op.op = "confirm" /\ press[p].pc = "last" => s.do = "operation"
<1>1. Fitting(press[p])
  BY DEF PressInv
<1>2. CASE press[p].pc = "check"
  BY <1>2 DEF Asked
<1>3. CASE press[p].pc = "set"
  BY <1>3 DEF Asked, Written
<1>4. CASE press[p].pc = "reset"
  BY <1>1, <1>4 DEF Asked, Written, KeyOf, Fitting
<1>5. CASE press[p].pc = "last"
  BY <1>1, <1>5 DEF Asked, Fitting
<1>6. CASE press[p].pc = "asks"
  BY <1>6 DEF Asked
<1>7. CASE press[p].pc = "consumes"
  BY <1>1, <1>7 DEF Asked, Fitting
<1>8. CASE press[p].pc = "saves"
  BY <1>8 DEF Asked
<1>9. CASE press[p].pc = "reads"
  BY <1>9 DEF Asked
<1>10. CASE press[p].pc = "looks"
  BY <1>10 DEF Asked
<1>11. QED
  BY <1>2, <1>3, <1>4, <1>5, <1>6, <1>7, <1>8, <1>9, <1>10 DEF WaitPcs

LEMMA AnswerKeepsPresses ==
    ASSUME LineInv, PressInv, StatementInv, NEW p, NEW s, NEW v, Answering(p, s, v)
    PROVE  /\ PressInv' /\ StatementInv'
           /\ \A q \in Presses : press[q].pc = "saves" => What(q)' = What(q)
<1>1. /\ press' \in [Presses -> PressRecords]
      /\ p \in Presses /\ up /\ up' /\ press[p].pc \in WaitPcs
      /\ \A e \in Entries(queue') : e \in Entries(queue) /\ e.press # p
      /\ queue \in Seq(Requests)
  BY AnswerLines DEF Answering, LineInv
<1>2. ASSUME NEW q \in Presses
      PROVE  /\ press'[q].op = press[q].op /\ press'[q].pc = press[q].pc
             /\ press'[q].got = press[q].got /\ press'[q].off = press[q].off
             /\ press[q].read \subseteq press'[q].read
             /\ press'[q].overtaken \subseteq press'[q].read
             /\ press'[q].read = press[q].read \/ (q = p /\ press[p].pc = "reads")
  BY DEF Answering
<1>3. ASSUME NEW q \in Presses PROVE Fitting(press'[q])
  <2>1. Fitting(press[q])
    BY DEF PressInv
  <2>2. QED
    BY <1>2, <2>1 DEF Fitting
<1>4. ASSUME NEW q \in Presses, press[q].op.op \in {"confirm", "dismiss"}
      PROVE  /\ press[q].op.token \in Presses /\ press[press[q].op.token].pc = "offered"
             /\ What(q)' = What(q)
  <2>1. press[q].pc # "idle"
    BY <1>4 DEF PressInv, Fitting, Idle
  <2>2. press[q].op.token \in Presses /\ Offered(press[q].op.token)
    BY <1>4, <2>1, OperationOf DEF PressInv
  <2>3. QED
    BY <1>2, <2>2 DEF Offered, What
<1>5. ASSUME NEW q \in Presses, press[q].pc = "saves"
      PROVE  What(q)' = What(q) /\ What(q) \in Profiles
  <2>1. press[q].op.op = "confirm"
    BY <1>5 DEF PressInv, Fitting
  <2>2. QED
    BY <1>4, <1>5, <2>1 DEF PressInv
<1>6. PressInv'
  <2>1. ASSUME NEW q \in Presses, press'[q].op.op \in {"confirm", "dismiss"}
        PROVE  Offered(press[q].op.token)'
    <3>1. press[q].op.token \in Presses /\ press[press[q].op.token].pc = "offered"
      BY <1>2, <1>4, <2>1
    <3>2. QED
      BY <1>2, <3>1 DEF Offered
  <2>2. QED
    BY <1>1, <1>2, <1>3, <1>5, <2>1 DEF PressInv
<1>7. ASSUME NEW e \in Entries(queue') PROVE Asked(e.press, e.statement)'
  <2>1. PICK q : q = e.press
    OBVIOUS
  <2>2. PICK w : w = e.statement
    OBVIOUS
  <2>3. e \in Requests /\ e \in Entries(queue)
    BY <1>1, LineEntries
  <2>4. q \in Presses \ {p} /\ Asked(q, w)
    BY <1>1, <2>1, <2>2, <2>3 DEF StatementInv, Requests
  <2>5. /\ press'[q].op = press[q].op /\ press'[q].pc = press[q].pc
        /\ press'[q].got = press[q].got /\ press'[q].read = press[q].read
        /\ KeyOf(q)' = KeyOf(q)
    BY <1>2, <2>4 DEF KeyOf
  <2>6. press[q].pc = "saves" => What(q)' = What(q)
    BY <1>5, <2>4
  <2>7. Asked(q, w)'
    BY <2>4, <2>5, <2>6 DEF Asked
  <2>8. QED
    BY <2>1, <2>2, <2>7
<1>8. StatementInv'
  BY <1>7 DEF StatementInv
<1>9. QED
  BY <1>5, <1>6, <1>8

(* The answer to a write comes last; any other answer leaves the last one. *)
LEMMA AnswerKeepsSetting ==
    ASSUME LineInv, PressInv, StatementInv, NEW p, NEW s, NEW v, Answering(p, s, v),
           NEW k \in Keys, SettingFits(k), setting' = setting, _overrides' = _overrides,
           \/ /\ press[p].pc \in {"set", "reset"} /\ KeyOf(p) = k /\ v # Failed
              /\ stored'[k] = Written(p)
           \/ /\ press[p].pc \notin {"set", "reset"} \/ KeyOf(p) # k \/ v = Failed
              /\ stored'[k] = stored[k]
    PROVE  SettingFits(k)'
<1>1. PICK a : a = [press |-> p, value |-> v]
  OBVIOUS
<1>2. /\ p \in Presses /\ a \in Answers /\ a \in Entries(results') /\ a.press = p /\ a.value = v
      /\ \A e \in Entries(results) : e \in Entries(results')
      /\ \A e \in Entries(results') : e = a \/ e \in Entries(results)
      /\ results \in Seq(Answers) /\ results' = Append(results, a)
      /\ results' \in Seq(Answers)
  BY <1>1, AnswerLines DEF LineInv, Answering
<1>3. \A e \in Answers : e.press \in Presses
  BY DEF Answers
<1>4. \A q \in Presses : /\ press'[q].op = press[q].op /\ press'[q].pc = press[q].pc
                         /\ press'[q].got = press[q].got
  BY DEF Answering
<1>5. \A e \in Answers : e \in WritesOf(k) <=> e \in WritesOf(k)'
  BY <1>3, <1>4 DEF WritesOf, KeyOf
<1>6. \A e \in Entries(results') : e \in WritesOf(k) <=> e \in WritesOf(k)'
  BY <1>2, <1>5, LineEntries
<1>7. CASE press[p].pc \in {"set", "reset"} /\ KeyOf(p) = k /\ v # Failed /\ stored'[k] = Written(p)
  <2>1. a \in WritesOf(k)
    BY <1>2, <1>7 DEF WritesOf
  <2>2. LastOf(results', WritesOf(k), a)
    BY <1>2, <2>1, LineAppend
  <2>3. LastOf(results', WritesOf(k)', a)
    BY <1>2, <1>6, <2>2, SameLast
  <2>4. Written(p)' = Written(p)
    BY <1>2, <1>4 DEF Written
  <2>5. stored'[k] = Written(a.press)'
    BY <1>2, <1>7, <2>4
  <2>6. QED
    BY <1>2, <2>3, <2>5 DEF SettingFits
<1>8. CASE /\ press[p].pc \notin {"set", "reset"} \/ KeyOf(p) # k \/ v = Failed
           /\ stored'[k] = stored[k]
  <2>1. a \notin WritesOf(k)
    BY <1>2, <1>8 DEF WritesOf
  <2>2. CASE NoneOf(results, WritesOf(k)) /\ Matches(k)
    <3>1. \A e \in Entries(results) : e \notin WritesOf(k)
      BY <1>2, <2>2, LineEntries
    <3>2. NoneOf(results', WritesOf(k))
      <4>1. \A e \in Entries(results') : e \notin WritesOf(k)
        BY <1>2, <2>1, <3>1
      <4>2. QED
        BY <1>2, <4>1, LineEntries
    <3>3. NoneOf(results', WritesOf(k)')
      BY <1>2, <1>6, <3>2, SameLast
    <3>4. Matches(k)'
      BY <1>8, <2>2 DEF Matches
    <3>5. QED
      BY <3>3, <3>4 DEF SettingFits
  <2>3. ASSUME NEW e \in Entries(results), LastOf(results, WritesOf(k), e), stored[k] = Written(e.press)
        PROVE  SettingFits(k)'
    <3>1. LastOf(results', WritesOf(k), e)
      BY <1>2, <2>1, <2>3, LineAppend
    <3>2. LastOf(results', WritesOf(k)', e)
      BY <1>2, <1>6, <3>1, SameLast
    <3>3. e.press \in Presses
      BY <1>2, <1>3, LineEntries
    <3>4. Written(e.press)' = Written(e.press)
      BY <1>4, <3>3 DEF Written
    <3>5. stored'[k] = Written(e.press)'
      BY <1>8, <2>3, <3>4
    <3>6. QED
      BY <1>2, <3>2, <3>5 DEF SettingFits
  <2>4. QED
    BY <2>2, <2>3 DEF SettingFits
<1>9. QED
  BY <1>7, <1>8

LEMMA AnswerKeepsSession ==
    ASSUME LineInv, PressInv, StatementInv, NEW p, NEW s, NEW v, Answering(p, s, v),
           NEW x \in Profiles, SessionFits(x), _disabled' = _disabled,
           \/ /\ press[p].pc = "saves" /\ What(p) = x /\ v # Failed
              /\ x \in disabledRows' <=> press[p].got = FALSE
           \/ /\ press[p].pc # "saves" \/ What(p) # x \/ v = Failed
              /\ x \in disabledRows' <=> x \in disabledRows
    PROVE  SessionFits(x)'
<1>1. PICK a : a = [press |-> p, value |-> v]
  OBVIOUS
<1>2. /\ p \in Presses /\ a \in Answers /\ a \in Entries(results') /\ a.press = p /\ a.value = v
      /\ \A e \in Entries(results) : e \in Entries(results')
      /\ \A e \in Entries(results') : e = a \/ e \in Entries(results)
      /\ results \in Seq(Answers) /\ results' = Append(results, a)
      /\ results' \in Seq(Answers)
  BY <1>1, AnswerLines DEF LineInv, Answering
<1>3. \A e \in Answers : e.press \in Presses
  BY DEF Answers
<1>4. \A q \in Presses : /\ press'[q].op = press[q].op /\ press'[q].pc = press[q].pc
                         /\ press'[q].got = press[q].got
                         /\ press[q].overtaken \subseteq press'[q].overtaken
  BY DEF Answering
<1>5. \A q \in Presses : press[q].pc = "saves" => What(q)' = What(q)
  BY AnswerKeepsPresses
<1>6. \A e \in Answers : e \in SavesOf(x) <=> e \in SavesOf(x)'
  BY <1>3, <1>4, <1>5 DEF SavesOf
<1>7. \A e \in Entries(results') : e \in SavesOf(x) <=> e \in SavesOf(x)'
  BY <1>2, <1>6, LineEntries
<1>8. Overtaken(x) => Overtaken(x)'
  BY <1>4 DEF Overtaken
<1>9. CASE /\ press[p].pc = "saves" /\ What(p) = x /\ v # Failed
           /\ x \in disabledRows' <=> press[p].got = FALSE
  <2>1. a \in SavesOf(x)
    BY <1>2, <1>9 DEF SavesOf
  <2>2. LastOf(results', SavesOf(x), a)
    BY <1>2, <2>1, LineAppend
  <2>3. LastOf(results', SavesOf(x)', a)
    BY <1>2, <1>7, <2>2, SameLast
  <2>4. x \in disabledRows' <=> press'[a.press].got = FALSE
    BY <1>2, <1>4, <1>9
  <2>5. QED
    BY <1>2, <2>3, <2>4 DEF SessionFits
<1>10. CASE /\ press[p].pc # "saves" \/ What(p) # x \/ v = Failed
            /\ x \in disabledRows' <=> x \in disabledRows
  <2>1. a \notin SavesOf(x)
    BY <1>2, <1>10 DEF SavesOf
  <2>2. CASE NoneOf(results, SavesOf(x)) /\ (x \in _disabled <=> x \in disabledRows)
    <3>1. \A e \in Entries(results) : e \notin SavesOf(x)
      BY <1>2, <2>2, LineEntries
    <3>2. NoneOf(results', SavesOf(x))
      <4>1. \A e \in Entries(results') : e \notin SavesOf(x)
        BY <1>2, <2>1, <3>1
      <4>2. QED
        BY <1>2, <4>1, LineEntries
    <3>3. NoneOf(results', SavesOf(x)')
      BY <1>2, <1>7, <3>2, SameLast
    <3>4. x \in _disabled' <=> x \in disabledRows'
      BY <1>10, <2>2
    <3>5. QED
      BY <3>3, <3>4 DEF SessionFits
  <2>3. ASSUME NEW e \in Entries(results), LastOf(results, SavesOf(x), e),
               x \in disabledRows <=> press[e.press].got = FALSE
        PROVE  SessionFits(x)'
    <3>1. LastOf(results', SavesOf(x), e)
      BY <1>2, <2>1, <2>3, LineAppend
    <3>2. LastOf(results', SavesOf(x)', e)
      BY <1>2, <1>7, <3>1, SameLast
    <3>3. e.press \in Presses
      BY <1>2, <1>3, LineEntries
    <3>4. x \in disabledRows' <=> press'[e.press].got = FALSE
      BY <1>4, <1>10, <2>3, <3>3
    <3>5. QED
      BY <1>2, <3>2, <3>4 DEF SessionFits
  <2>4. QED
    BY <1>8, <2>2, <2>3 DEF SessionFits
<1>11. QED
  BY <1>9, <1>10

LEMMA AnswerKeepsRefusal ==
    ASSUME LineInv, PressInv, StatementInv, NEW p, NEW s, NEW v, Answering(p, s, v), PauseRefused,
           _paused' = _paused
    PROVE  PauseRefused'
<1>1. PICK q \in Presses :
        /\ press[q].op = [op |-> "pause", on |-> _paused]
        /\ \/ press[q].pc = "failed"
           \/ press[q].pc = "last" /\ [press |-> q, value |-> Failed] \in Entries(results)
  BY DEF PauseRefused
<1>2. press'[q].op = press[q].op /\ press'[q].pc = press[q].pc
  BY DEF Answering
<1>3. \A e \in Entries(results) : e \in Entries(results')
  BY AnswerLines
<1>4. QED
  BY <1>1, <1>2, <1>3 DEF PauseRefused

(* The answer v uses up the confirmation t.                                *)
UsesUp(p, v, t) ==
    /\ v = TRUE /\ press[p].op.op \in {"confirm", "dismiss"}
    /\ press[p].op.token = t /\ press[p].pc \in {"consumes", "last"}

LEMMA AnswerKeepsHolders ==
    ASSUME LineInv, PressInv, StatementInv, NEW p, NEW s, NEW v, Answering(p, s, v),
           NEW q \in Presses, NEW t, Holds(q, t)'
    PROVE  Holds(q, t) \/ (q = p /\ UsesUp(p, v, t))
<1>1. PICK a : a = [press |-> p, value |-> v]
  OBVIOUS
<1>2. /\ a \in Entries(results') /\ a.press = p /\ a.value = v
      /\ \A e \in Entries(results) : e \in Entries(results') /\ e.press # p
      /\ \A e \in Entries(results') : e = a \/ e \in Entries(results)
  BY <1>1, AnswerLines
<1>3. /\ press'[q].op = press[q].op /\ press'[q].pc = press[q].pc
      /\ press'[q].got = press[q].got
  BY DEF Answering
<1>4. PICK b : b = [press |-> q, value |-> TRUE]
  OBVIOUS
<1>5. b.press = q /\ b.value = TRUE
  BY <1>4
<1>6. b \in Entries(results') <=> b \in Entries(results) \/ (q = p /\ v = TRUE)
  <2>1. b = a <=> q = p /\ v = TRUE
    BY <1>1, <1>2, <1>4, <1>5
  <2>2. QED
    BY <1>2, <2>1
<1>7. QED
  BY <1>3, <1>4, <1>6 DEF Holds, UsesUp

(* The statement is carried out.                                           *)
LEMMA Executing ==
    ASSUME AdminInv, Execute, up, up'
    PROVE  \E p \in Presses, s \in Statements :
              /\ Head(queue) = [press |-> p, statement |-> s]
              /\ Answering(p, s, AnswerTo(s)) /\ AnswerTo(s) # Failed
              /\ Executes(s)
              /\ \A q \in Presses : press'[q] = Noted(q, s)
<1>1. /\ LineInv /\ PressInv /\ StatementInv /\ queue # <<>> /\ queue \in Seq(Requests)
      /\ users \in [Users -> {None, "user", "suspended", "admin"}]
  BY DEF AdminInv, Execute, LineInv, RowsInv
<1>2. Head(queue) \in Requests /\ Head(queue) \in Entries(queue)
  BY <1>1, LineTail
<1>3. PICK p \in Presses, s \in Statements : Head(queue) = [press |-> p, statement |-> s]
  BY <1>2 DEF Requests
<1>4. Head(queue).press = p /\ Head(queue).statement = s
  BY <1>3
<1>5. /\ Executes(s) /\ queue' = Tail(queue)
      /\ results' = Append(results, [press |-> p, value |-> AnswerTo(s)])
      /\ press' = [q \in Presses |-> Noted(q, s)]
  BY <1>4 DEF Execute, Answered
<1>6. AnswerTo(s) \in Replies /\ AnswerTo(s) # Failed
  <2>1. s.do = "get user" => s.user \in Users
    BY DEF Statements
  <2>2. CASE s.do = "get user"
    <3>1. AnswerTo(s) = users[s.user]
      BY <2>2 DEF AnswerTo
    <3>2. users[s.user] \in {None, "user", "suspended", "admin"}
      BY <1>1, <2>1, <2>2
    <3>3. QED
      BY <3>1, <3>2, NameAssumption DEF Replies
  <2>3. CASE s.do # "get user"
    <3>1. CASE s.do = "get session"
      <4>1. AnswerTo(s) = (s.profile \in disabledRows)
        BY <3>1 DEF AnswerTo
      <4>2. AnswerTo(s) \in BOOLEAN
        BY <4>1
      <4>3. QED
        BY <4>2, NameAssumption DEF Replies
    <3>2. CASE s.do \in {"delete_ui_draft", "consume_ui_draft"}
      <4>1. AnswerTo(s) = (s.token \in drafts)
        BY <3>2 DEF AnswerTo
      <4>2. AnswerTo(s) \in BOOLEAN
        BY <4>1
      <4>3. QED
        BY <4>2, NameAssumption DEF Replies
    <3>3. CASE s.do \notin {"get session", "delete_ui_draft", "consume_ui_draft"}
      <4>1. AnswerTo(s) = None
        BY <2>3, <3>3 DEF AnswerTo
      <4>2. QED
        BY <4>1, NameAssumption DEF Replies
    <3>4. QED
      BY <3>1, <3>2, <3>3
  <2>4. QED
    BY <2>2, <2>3
<1>7. Asked(p, s) /\ press[p].pc \in WaitPcs
  <2>1. Waits(queue, p)
    BY <1>1, <1>2, <1>4, LineEntries
  <2>2. QED
    BY <1>1, <1>2, <1>4, <2>1 DEF LineInv, StatementInv
<1>8. /\ s.do = "get session" => press[p].pc = "reads"
      /\ s.do = "get session" => s.profile \in Profiles
  BY <1>1, <1>7, AskedBy DEF Statements
<1>9. ASSUME NEW q \in Presses
      PROVE  /\ Noted(q, s) \in PressRecords
             /\ Noted(q, s).op = press[q].op /\ Noted(q, s).pc = press[q].pc
             /\ Noted(q, s).got = press[q].got /\ Noted(q, s).off = press[q].off
             /\ press[q].read \subseteq Noted(q, s).read
             /\ press[q].overtaken \subseteq Noted(q, s).overtaken
             /\ Noted(q, s).overtaken \subseteq Noted(q, s).read
             /\ Noted(q, s).read = press[q].read \/ (q = p /\ press[p].pc = "reads")
  <2>1. press[q] \in PressRecords /\ press[q].overtaken \subseteq press[q].read
    BY <1>1 DEF PressInv, Fitting
  <2>2. press[q].read \subseteq Profiles
    BY <2>1, RecordFields
  <2>3. CASE s.do = "get session" /\ q = p
    <3>1. PICK r : r = [press[q] EXCEPT !.read = @ \cup {s.profile}]
      OBVIOUS
    <3>2. Noted(q, s) = r
      BY <1>4, <2>3, <3>1 DEF Noted
    <3>3. /\ r \in PressRecords /\ r.op = press[q].op /\ r.pc = press[q].pc /\ r.got = press[q].got
          /\ r.read = press[q].read \cup {s.profile} /\ r.off = press[q].off
          /\ r.overtaken = press[q].overtaken
      BY <1>8, <2>1, <2>3, <3>1 DEF PressRecords
    <3>4. QED
      BY <1>8, <2>1, <2>3, <3>2, <3>3
  <2>4. CASE s.do = "session_disabled" /\ press[q].pc = "reads" /\ s.profile \in press[q].read
    <3>1. PICK r : r = [press[q] EXCEPT !.overtaken = @ \cup {s.profile}]
      OBVIOUS
    <3>2. Noted(q, s) = r
      BY <1>4, <2>4, <3>1 DEF Noted
    <3>3. /\ r \in PressRecords /\ r.op = press[q].op /\ r.pc = press[q].pc /\ r.got = press[q].got
          /\ r.read = press[q].read /\ r.off = press[q].off
          /\ r.overtaken = press[q].overtaken \cup {s.profile}
      BY <2>1, <2>2, <2>4, <3>1 DEF PressRecords
    <3>4. QED
      BY <2>1, <2>4, <3>2, <3>3
  <2>5. CASE /\ ~(s.do = "get session" /\ q = p)
             /\ ~(s.do = "session_disabled" /\ press[q].pc = "reads" /\ s.profile \in press[q].read)
    <3>1. Noted(q, s) = press[q]
      BY <1>4, <2>5 DEF Noted
    <3>2. QED
      BY <2>1, <3>1
  <2>6. QED
    BY <2>3, <2>4, <2>5
<1>10. press' \in [Presses -> PressRecords] /\ \A q \in Presses : press'[q] = Noted(q, s)
  BY <1>5, <1>9
<1>11. Answering(p, s, AnswerTo(s))
  BY <1>1, <1>3, <1>5, <1>6, <1>9, <1>10 DEF Answering
<1>12. QED
  BY <1>3, <1>5, <1>6, <1>10, <1>11

LEMMA ExecuteKeeps ==
    ASSUME AdminInv, Execute, up, up', faults' = faults
    PROVE  AdminInv'
<1>1. /\ LineInv /\ PressInv /\ StatementInv
      /\ setting' = setting /\ _overrides' = _overrides /\ _paused' = _paused
      /\ _disabled' = _disabled /\ expired' = expired /\ performed' = performed
      /\ queue # <<>> /\ queue' = Tail(queue)
  BY DEF AdminInv, Execute, memory
<1>2. PICK p \in Presses, s \in Statements :
        /\ Head(queue) = [press |-> p, statement |-> s]
        /\ Answering(p, s, AnswerTo(s)) /\ AnswerTo(s) # Failed
        /\ Executes(s)
        /\ \A q \in Presses : press'[q] = Noted(q, s)
  BY Executing
<1>3. PICK v : v = AnswerTo(s)
  OBVIOUS
<1>4. PICK a : a = [press |-> p, value |-> v]
  OBVIOUS
<1>5. Answering(p, s, v) /\ v # Failed /\ a.press = p /\ a.value = v
  BY <1>2, <1>3, <1>4
<1>6. /\ Asked(p, s) /\ press[p].pc \in WaitPcs
      /\ a \in Entries(results')
      /\ \A e \in Entries(results) : e \in Entries(results') /\ e.press # p
      /\ \A e \in Entries(results') : e = a \/ e \in Entries(results)
      /\ LineInv'
  BY <1>1, <1>4, <1>5, AnswerLines
<1>7. PressInv' /\ StatementInv'
  BY <1>1, <1>5, AnswerKeepsPresses
<1>8. \A q \in Presses :
        /\ press'[q].op = press[q].op /\ press'[q].pc = press[q].pc
        /\ press'[q].got = press[q].got /\ press'[q].off = press[q].off
  BY <1>5 DEF Answering
<1>9. RowsInv
  BY DEF AdminInv
<1>10. SettingInv'
  <2>1. ASSUME NEW k \in Keys PROVE SettingFits(k)'
    <3>1. SettingFits(k)
      BY <1>5 DEF AdminInv, SettingInv, Answering
    <3>2. CASE s.do \in {"set_runtime_setting", "delete_runtime_setting"} /\ s.key = k
      <4>1. press[p].pc \in {"set", "reset"} /\ KeyOf(p) = k /\ s.value = Written(p)
        BY <1>1, <1>6, <3>2, AskedBy
      <4>2. stored'[k] = Written(p)
        BY <1>2, <1>9, <2>1, <3>2, <4>1 DEF Executes, StoredAfter, RowsInv
      <4>3. QED
        BY <1>1, <1>5, <2>1, <3>1, <4>1, <4>2, AnswerKeepsSetting
    <3>3. CASE ~(s.do \in {"set_runtime_setting", "delete_runtime_setting"} /\ s.key = k)
      <4>1. press[p].pc \notin {"set", "reset"} \/ KeyOf(p) # k
        BY <1>1, <1>6, <3>3, AskedBy
      <4>2. stored'[k] = stored[k]
        BY <1>2, <1>9, <2>1, <3>3 DEF Executes, StoredAfter, RowsInv
      <4>3. QED
        BY <1>1, <1>5, <2>1, <3>1, <4>1, <4>2, AnswerKeepsSetting
    <3>4. QED
      BY <3>2, <3>3
  <2>2. QED
    BY <2>1 DEF SettingInv
<1>11. PauseInv'
  <2>1. PauseRequests' = PauseRequests
    BY DEF PauseRequests
  <2>2. queue \in Seq(Requests) /\ up
    BY <1>1, <1>5 DEF LineInv, Answering
  <2>3. /\ queue' \in Seq(Requests) /\ Head(queue) \in Entries(queue) /\ Head(queue) \in Requests
        /\ \A e \in Entries(queue') : e \in Entries(queue)
        /\ \A E, e : LastOf(queue, E, e) => LastOf(queue', E, e) \/ (e = Head(queue) /\ NoneOf(queue', E))
    BY <1>1, <2>2, LineTail
  <2>4. Head(queue).statement = s
    BY <1>2
  <2>5. CASE PauseRefused
    BY <1>1, <1>5, <2>5, AnswerKeepsRefusal DEF PauseInv
  <2>6. CASE NoneOf(queue, PauseRequests) /\ _paused = pausedRow
    <3>1. \A e \in Entries(queue) : e \notin PauseRequests
      BY <2>2, <2>6, LineEntries
    <3>2. s.do # "scheduler_paused"
      BY <2>3, <2>4, <3>1 DEF PauseRequests
    <3>3. pausedRow' = pausedRow
      BY <1>2, <3>2 DEF Executes, PausedAfter
    <3>4. \A e \in Entries(queue') : e \notin PauseRequests
      BY <2>3, <3>1
    <3>5. NoneOf(queue', PauseRequests)
      BY <2>3, <3>4, LineEntries
    <3>6. QED
      BY <1>1, <2>1, <2>6, <3>3, <3>5 DEF PauseInv
  <2>7. ASSUME NEW e \in Entries(queue), LastOf(queue, PauseRequests, e), e.statement.on = _paused
        PROVE  PauseInv'
    <3>1. CASE LastOf(queue', PauseRequests, e)
      <4>1. e \in Entries(queue')
        BY <2>3, <3>1, LineEntries
      <4>2. QED
        BY <1>1, <2>1, <2>7, <3>1, <4>1 DEF PauseInv
    <3>2. CASE e = Head(queue) /\ NoneOf(queue', PauseRequests)
      <4>1. s.do = "scheduler_paused" /\ s.on = _paused
        BY <2>4, <2>7, <3>2 DEF PauseRequests, LastOf
      <4>2. pausedRow' = _paused
        BY <1>2, <4>1 DEF Executes, PausedAfter
      <4>3. QED
        BY <1>1, <2>1, <3>2, <4>2 DEF PauseInv
    <3>3. QED
      BY <2>3, <2>7, <3>1, <3>2
  <2>8. QED
    BY <2>2, <2>5, <2>6, <2>7 DEF AdminInv, PauseInv
<1>12. SessionInv'
  <2>1. ASSUME NEW x \in Profiles PROVE SessionFits(x)'
    <3>1. SessionFits(x)
      BY <1>5 DEF AdminInv, SessionInv, Answering
    <3>2. CASE s.do = "session_disabled" /\ s.profile = x
      <4>1. press[p].pc = "saves" /\ What(p) = x /\ s.on = press[p].got
        BY <1>1, <1>6, <3>2, AskedBy
      <4>2. press[p].got \in BOOLEAN
        BY <1>1, <4>1 DEF PressInv, Fitting
      <4>3. x \in disabledRows' <=> press[p].got = FALSE
        BY <1>2, <3>2, <4>1, <4>2 DEF Executes, SessionsAfter
      <4>4. QED
        BY <1>1, <1>5, <3>1, <4>1, <4>3, AnswerKeepsSession
    <3>3. CASE ~(s.do = "session_disabled" /\ s.profile = x)
      <4>1. press[p].pc # "saves" \/ What(p) # x
        BY <1>1, <1>6, <3>3, AskedBy
      <4>2. x \in disabledRows' <=> x \in disabledRows
        BY <1>2, <3>3 DEF Executes, SessionsAfter
      <4>3. QED
        BY <1>1, <1>5, <3>1, <4>1, <4>2, AnswerKeepsSession
    <3>4. QED
      BY <3>2, <3>3
  <2>2. QED
    BY <2>1 DEF SessionInv
<1>13. ReadInv'
  <2>1. ASSUME NEW q \in Presses, press'[q].pc = "reads"
        PROVE  /\ \A x \in press'[q].read \ press'[q].overtaken : ReadAs(q, x)' <=> x \in disabledRows'
               /\ \A e \in Entries(results') :
                     e.press = q /\ e.value # Failed =>
                         press'[q].got \in press'[q].read \ press'[q].off /\ e.value \in BOOLEAN
    <3>1. PICK b : b = [press |-> q, value |-> TRUE]
      OBVIOUS
    <3>2. b.press = q /\ b.value = TRUE /\ press[q].pc = "reads"
      BY <1>8, <2>1, <3>1
    <3>3. press'[q] = Noted(q, s) /\ Head(queue).press = p
      BY <1>2
    <3>4. press[q] \in PressRecords /\ press[q].off \subseteq press[q].read
      BY <1>1 DEF PressInv, Fitting
    <3>5. CASE q = p
      <4>1. /\ s.do = "get session" /\ s.profile = press[p].got /\ press[p].got \notin press[p].read
        BY <1>1, <1>6, <3>2, <3>5, AskedBy
      <4>2. v = (press[p].got \in disabledRows) /\ disabledRows' = disabledRows
        BY <1>2, <1>3, <4>1 DEF AnswerTo, Executes, SessionsAfter
      <4>3. press'[p] = [press[p] EXCEPT !.read = @ \cup {press[p].got}]
        BY <3>3, <3>5, <4>1 DEF Noted
      <4>4. press'[p].read = press[p].read \cup {press[p].got} /\ press'[p].overtaken = press[p].overtaken
        BY <3>4, <3>5, <4>3 DEF PressRecords
      <4>5. b \notin Entries(results)
        BY <1>6, <3>2, <3>5
      <4>6. b \in Entries(results') <=> press[p].got \in disabledRows
        <5>1. b = a <=> v = TRUE
          BY <1>4, <1>5, <3>1, <3>2, <3>5
        <5>2. QED
          BY <1>6, <4>2, <4>5, <5>1
      <4>7. \A x : ReadAs(p, x)' <=>
                x \in press[p].off \/ (x = press[p].got /\ press[p].got \in disabledRows)
        BY <1>8, <3>1, <3>5, <4>6 DEF ReadAs
      <4>8. \A x : ReadAs(p, x) <=> x \in press[p].off
        BY <3>1, <3>5, <4>5 DEF ReadAs
      <4>9. \A x \in press[p].read \ press[p].overtaken : x \in press[p].off <=> x \in disabledRows
        BY <3>2, <3>5, <4>8 DEF AdminInv, ReadInv
      <4>10. ASSUME NEW x \in press'[p].read \ press'[p].overtaken
             PROVE  ReadAs(p, x)' <=> x \in disabledRows'
        <5>1. CASE x = press[p].got
          BY <3>4, <3>5, <4>1, <4>2, <4>7, <5>1
        <5>2. CASE x # press[p].got
          BY <4>2, <4>4, <4>7, <4>9, <4>10, <5>2
        <5>3. QED
          BY <5>1, <5>2
      <4>11. press'[p].got \in press'[p].read \ press'[p].off
        BY <1>8, <3>4, <3>5, <4>1, <4>4
      <4>12. \A e \in Entries(results') : e.press = p => e.value \in BOOLEAN
        <5>1. v \in BOOLEAN
          BY <4>2
        <5>2. ASSUME NEW e \in Entries(results'), e.press = p PROVE e = a
          BY <1>6, <5>2
        <5>3. QED
          BY <1>5, <5>1, <5>2
      <4>13. QED
        BY <3>5, <4>10, <4>11, <4>12
    <3>6. CASE q # p
      <4>1. b \in Entries(results') <=> b \in Entries(results)
        BY <1>5, <1>6, <3>2, <3>6
      <4>2. \A x : ReadAs(q, x)' <=> ReadAs(q, x)
        BY <1>8, <3>1, <4>1 DEF ReadAs
      <4>3. \A e \in Entries(results') : e.press = q => e \in Entries(results)
        BY <1>5, <1>6, <3>6
      <4>4. /\ \A x \in press[q].read \ press[q].overtaken : ReadAs(q, x) <=> x \in disabledRows
            /\ \A e \in Entries(results) :
                  e.press = q /\ e.value # Failed =>
                      press[q].got \in press[q].read \ press[q].off /\ e.value \in BOOLEAN
        BY <3>2 DEF AdminInv, ReadInv
      <4>5. CASE s.do = "session_disabled" /\ s.profile \in press[q].read
        <5>1. press'[q] = [press[q] EXCEPT !.overtaken = @ \cup {s.profile}]
          BY <3>2, <3>3, <3>6, <4>5 DEF Noted
        <5>2. press'[q].read = press[q].read /\ press'[q].overtaken = press[q].overtaken \cup {s.profile}
          BY <3>4, <5>1 DEF PressRecords
        <5>3. \A x : x # s.profile => (x \in disabledRows' <=> x \in disabledRows)
          BY <1>2, <4>5 DEF Executes, SessionsAfter
        <5>4. \A x \in press'[q].read \ press'[q].overtaken : ReadAs(q, x)' <=> x \in disabledRows'
          BY <4>2, <4>4, <5>2, <5>3
        <5>5. QED
          BY <1>8, <4>3, <4>4, <5>2, <5>4
      <4>6. CASE ~(s.do = "session_disabled" /\ s.profile \in press[q].read)
        <5>1. press'[q] = press[q]
          BY <3>2, <3>3, <3>6, <4>6 DEF Noted
        <5>2. \A x \in press[q].read : x \in disabledRows' <=> x \in disabledRows
          BY <1>2, <4>6 DEF Executes, SessionsAfter
        <5>3. QED
          BY <4>2, <4>3, <4>4, <5>1, <5>2
      <4>7. QED
        BY <4>5, <4>6
    <3>7. QED
      BY <3>5, <3>6
  <2>2. QED
    BY <2>1 DEF ReadInv
<1>14. TokenInv'
  <2>1. ASSUME NEW t, UsesUp(p, v, t)
        PROVE  t \in drafts /\ t \notin drafts'
    <3>1. s.do \in {"consume_ui_draft", "delete_ui_draft", "operation"}
      <4>1. CASE press[p].pc = "consumes"
        BY <1>6, <4>1 DEF Asked
      <4>2. CASE press[p].pc = "last"
        BY <1>6, <2>1, <4>2 DEF Asked, UsesUp
      <4>3. QED
        BY <2>1, <4>1, <4>2 DEF UsesUp
    <3>2. s.do # "operation"
      <4>1. ASSUME s.do = "operation" PROVE FALSE
        <5>1. v = None
          BY <1>3, <4>1 DEF AnswerTo
        <5>2. QED
          BY <2>1, <5>1, NameAssumption DEF UsesUp
      <4>2. QED
        BY <4>1
    <3>3. s.do \in {"delete_ui_draft", "consume_ui_draft"}
      BY <3>1, <3>2
    <3>4. s.token = t
      BY <1>1, <1>6, <2>1, <3>3, AskedBy DEF UsesUp
    <3>5. t \in drafts
      BY <1>3, <2>1, <3>3, <3>4 DEF AnswerTo, UsesUp
    <3>6. t \notin drafts'
      BY <1>2, <3>3, <3>4 DEF Executes, DraftsAfter
    <3>7. QED
      BY <3>5, <3>6
  <2>2. ASSUME NEW t \in Presses
        PROVE  /\ \A q, r \in Presses : Holds(q, t)' /\ Holds(r, t)' => q = r
               /\ t \in drafts' \/ performed'[t] # 0 => \A q \in Presses : ~Holds(q, t)'
               /\ t \in drafts' => performed'[t] = 0
               /\ performed'[t] # 0 => press'[t].pc = "offered"
    <3>1. /\ \A q, r \in Presses : Holds(q, t) /\ Holds(r, t) => q = r
          /\ t \in drafts \/ performed[t] # 0 => \A q \in Presses : ~Holds(q, t)
          /\ t \in drafts => performed[t] = 0
          /\ performed[t] # 0 => press[t].pc = "offered"
      BY DEF AdminInv, TokenInv
    <3>2. ASSUME NEW q \in Presses, Holds(q, t)'
          PROVE  Holds(q, t) \/ (q = p /\ t \in drafts /\ t \notin drafts')
      <4>1. Holds(q, t) \/ (q = p /\ UsesUp(p, v, t))
        BY <1>1, <1>5, <3>2, AnswerKeepsHolders
      <4>2. QED
        BY <2>1, <4>1
    <3>3. t \in drafts' => t \in drafts \/ (t = p /\ press[p].pc = "asks")
      <4>1. s.do = "save_ui_draft" => press[p].pc = "asks" /\ s.token = p
        BY <1>1, <1>6, AskedBy
      <4>2. QED
        BY <1>2, <4>1 DEF Executes, DraftsAfter
    <3>4. ASSUME t = p, press[p].pc = "asks" PROVE performed[t] = 0 /\ \A q \in Presses : ~Holds(q, t)
      <4>1. performed[t] = 0
        BY <3>1, <3>4
      <4>2. ASSUME NEW q \in Presses, Holds(q, t) PROVE FALSE
        <5>1. Offered(t)
          BY <1>1, <4>2 DEF PressInv, Holds
        <5>2. QED
          BY <3>4, <5>1 DEF Offered
      <4>3. QED
        BY <4>1, <4>2
    <3>5. \A q, r \in Presses : Holds(q, t)' /\ Holds(r, t)' => q = r
      BY <3>1, <3>2
    <3>6. t \in drafts' => \A q \in Presses : ~Holds(q, t)'
      BY <3>1, <3>2, <3>3, <3>4
    <3>7. performed[t] # 0 => \A q \in Presses : ~Holds(q, t)'
      BY <3>1, <3>2
    <3>8. t \in drafts' => performed[t] = 0
      BY <3>1, <3>3, <3>4
    <3>9. QED
      BY <1>1, <1>8, <3>1, <3>5, <3>6, <3>7, <3>8
  <2>3. QED
    BY <2>2 DEF TokenInv
<1>15. OwnerInv'
  <2>1. s.do = "put user" =>
          /\ s.user \in Users /\ press[p].pc = "last"
          /\ s.user \in Owners => Allows(press[p].op, s)
    BY <1>1, <1>6, AskedBy DEF Statements
  <2>2. Owners \subseteq Users
    BY DEF Users
  <2>3. ASSUME NEW q, NEW u, HasAllowed(q, u), q \in Presses PROVE HasAllowed(q, u)'
    BY <1>6, <1>8, <2>3 DEF HasAllowed
  <2>4. ASSUME NEW u \in Owners
        PROVE  users'[u] # "suspended" /\ (users'[u] = "admin" \/ \E q \in Presses : HasAllowed(q, u)')
    <3>1. CASE s.do = "put user" /\ s.user = u
      <4>1. Allows(press[p].op, s) /\ press[p].pc = "last"
        BY <2>1, <2>4, <3>1
      <4>2. users'[u] = "user"
        BY <1>2, <1>9, <2>2, <2>4, <3>1, <4>1 DEF Allows, Executes, UsersAfter, RowsInv
      <4>3. v = None
        BY <1>3, <3>1 DEF AnswerTo
      <4>4. a = [press |-> p, value |-> None] /\ p \in Presses
        BY <1>2, <1>4, <4>3
      <4>5. HasAllowed(p, u)'
        BY <1>6, <1>8, <3>1, <4>1, <4>4 DEF HasAllowed, Allows
      <4>6. QED
        BY <4>2, <4>4, <4>5
    <3>2. CASE ~(s.do = "put user" /\ s.user = u)
      <4>1. users'[u] = users[u]
        BY <1>2, <1>9, <2>2, <2>4, <3>2 DEF Executes, UsersAfter, RowsInv
      <4>2. users[u] # "suspended" /\ (users[u] = "admin" \/ \E q \in Presses : HasAllowed(q, u))
        BY <2>4, <1>5 DEF AdminInv, OwnerInv, Answering
      <4>3. QED
        BY <2>3, <4>1, <4>2
    <3>3. QED
      BY <3>1, <3>2
  <2>5. QED
    BY <2>4 DEF OwnerInv
<1>16. RowsInv'
  <2>1. /\ s.do = "put user" => s.user \in Users /\ s.as \in {"user", "suspended"}
        /\ s.do \in {"set_runtime_setting", "delete_runtime_setting"} =>
              s.key \in Keys /\ s.value \in Values \cup {None}
        /\ s.do = "scheduler_paused" => s.on \in BOOLEAN
        /\ s.do \in {"save_ui_draft", "delete_ui_draft", "consume_ui_draft"} => s.token \in Presses
        /\ s.do = "session_disabled" => s.profile \in Profiles
    BY DEF Statements
  <2>2. users' \in [Users -> {None, "user", "suspended", "admin"}]
    BY <1>2, <1>9, <2>1 DEF RowsInv, Executes, UsersAfter
  <2>3. stored' \in [Keys -> Values \cup {None}]
    BY <1>2, <1>9, <2>1 DEF RowsInv, Executes, StoredAfter
  <2>4. pausedRow' \in BOOLEAN
    BY <1>2, <1>9, <2>1 DEF RowsInv, Executes, PausedAfter
  <2>5. drafts' \subseteq Presses
    BY <1>2, <1>9, <2>1 DEF RowsInv, Executes, DraftsAfter
  <2>6. disabledRows' \subseteq Profiles
    BY <1>2, <1>9, <2>1 DEF RowsInv, Executes, SessionsAfter
  <2>7. QED
    BY <1>1, <1>9, <2>2, <2>3, <2>4, <2>5, <2>6 DEF RowsInv
<1>17. QED
  BY <1>6, <1>7, <1>10, <1>11, <1>12, <1>13, <1>14, <1>15, <1>16 DEF AdminInv

(* It refuses the statement, and nothing is written.                       *)
LEMMA RefuseKeeps ==
    ASSUME AdminInv, Refuse, up, up'
    PROVE  AdminInv'
<1>1. /\ LineInv /\ PressInv /\ StatementInv /\ queue # <<>> /\ queue \in Seq(Requests)
      /\ setting' = setting /\ _overrides' = _overrides /\ _paused' = _paused
      /\ _disabled' = _disabled /\ stored' = stored /\ pausedRow' = pausedRow
      /\ disabledRows' = disabledRows /\ users' = users /\ drafts' = drafts
      /\ expired' = expired /\ performed' = performed /\ press' = press
      /\ queue' = Tail(queue)
      /\ results' = Append(results, [press |-> Head(queue).press, value |-> Failed])
  BY DEF AdminInv, Refuse, memory, rows, LineInv, Answered
<1>2. /\ Head(queue) \in Requests /\ Head(queue) \in Entries(queue)
      /\ queue' \in Seq(Requests)
      /\ \A e \in Entries(queue') : e \in Entries(queue)
      /\ \A e \in Entries(queue) : e = Head(queue) \/ e \in Entries(queue')
      /\ \A E, e : LastOf(queue, E, e) => LastOf(queue', E, e) \/ (e = Head(queue) /\ NoneOf(queue', E))
  BY <1>1, LineTail
<1>3. PICK p \in Presses, s \in Statements : Head(queue) = [press |-> p, statement |-> s]
  BY <1>2 DEF Requests
<1>4. PICK a : a = [press |-> p, value |-> Failed]
  OBVIOUS
<1>5. a.press = p /\ a.value = Failed /\ Head(queue).press = p /\ Head(queue).statement = s
  BY <1>3, <1>4
<1>6. Answering(p, s, Failed)
  <2>1. /\ press \in [Presses -> PressRecords]
        /\ \A q \in Presses : press[q].overtaken \subseteq press[q].read
    BY <1>1 DEF PressInv, Fitting
  <2>2. results' = Append(results, [press |-> p, value |-> Failed]) /\ Failed \in Replies
    BY <1>1, <1>5 DEF Replies
  <2>3. QED
    BY <1>1, <1>3, <2>1, <2>2 DEF Answering
<1>7. /\ Asked(p, s) /\ press[p].pc \in WaitPcs
      /\ a \in Entries(results')
      /\ \A e \in Entries(results) : e \in Entries(results') /\ e.press # p
      /\ \A e \in Entries(results') : e = a \/ e \in Entries(results)
      /\ LineInv'
  BY <1>1, <1>4, <1>6, AnswerLines
<1>8. PressInv' /\ StatementInv'
  BY <1>1, <1>6, AnswerKeepsPresses
<1>9. SettingInv'
  <2>1. ASSUME NEW k \in Keys PROVE SettingFits(k)'
    <3>1. SettingFits(k) /\ stored'[k] = stored[k]
      BY <1>1 DEF AdminInv, SettingInv
    <3>2. QED
      BY <1>1, <1>6, <2>1, <3>1, AnswerKeepsSetting
  <2>2. QED
    BY <2>1 DEF SettingInv
<1>10. PauseInv'
  <2>1. PauseRequests' = PauseRequests
    BY DEF PauseRequests
  <2>2. CASE PauseRefused
    BY <1>1, <1>6, <2>2, AnswerKeepsRefusal DEF PauseInv
  <2>3. CASE s.do = "scheduler_paused" /\ s.on = _paused
    <3>1. press[p].pc = "last" /\ press[p].op.op = "pause" /\ press[p].op.on = _paused
      BY <1>1, <1>7, <2>3, AskedBy
    <3>2. press[p].op = [op |-> "pause", on |-> _paused]
      BY <1>1, <3>1, OperationIs
    <3>3. PauseRefused'
      BY <1>1, <1>4, <1>7, <3>1, <3>2 DEF PauseRefused
    <3>4. QED
      BY <3>3 DEF PauseInv
  <2>4. CASE NoneOf(queue, PauseRequests) /\ _paused = pausedRow
    <3>1. \A e \in Entries(queue) : e \notin PauseRequests
      BY <1>1, <2>4, LineEntries
    <3>2. \A e \in Entries(queue') : e \notin PauseRequests
      BY <1>2, <3>1
    <3>3. NoneOf(queue', PauseRequests)
      BY <1>2, <3>2, LineEntries
    <3>4. QED
      BY <1>1, <2>1, <2>4, <3>3 DEF PauseInv
  <2>5. ASSUME NEW e \in Entries(queue), LastOf(queue, PauseRequests, e), e.statement.on = _paused,
               ~(s.do = "scheduler_paused" /\ s.on = _paused)
        PROVE  PauseInv'
    <3>1. e # Head(queue)
      BY <1>5, <2>5 DEF LastOf, PauseRequests
    <3>2. LastOf(queue', PauseRequests, e) /\ e \in Entries(queue')
      BY <1>2, <2>5, <3>1
    <3>3. QED
      BY <1>1, <2>1, <2>5, <3>2 DEF PauseInv
  <2>6. QED
    BY <2>2, <2>3, <2>4, <2>5 DEF AdminInv, PauseInv
<1>11. SessionInv'
  <2>1. ASSUME NEW x \in Profiles PROVE SessionFits(x)'
    <3>1. SessionFits(x) /\ (x \in disabledRows' <=> x \in disabledRows)
      BY <1>1 DEF AdminInv, SessionInv
    <3>2. QED
      BY <1>1, <1>6, <2>1, <3>1, AnswerKeepsSession
  <2>2. QED
    BY <2>1 DEF SessionInv
<1>12. ReadInv'
  <2>1. ASSUME NEW q \in Presses, press[q].pc = "reads"
        PROVE  /\ \A x \in press[q].read \ press[q].overtaken : ReadAs(q, x)' <=> x \in disabledRows
               /\ \A e \in Entries(results') :
                     e.press = q /\ e.value # Failed =>
                         press[q].got \in press[q].read \ press[q].off /\ e.value \in BOOLEAN
    <3>1. PICK b : b = [press |-> q, value |-> TRUE]
      OBVIOUS
    <3>2. b.value = TRUE
      BY <3>1
    <3>3. b # a
      BY <1>5, <3>2, NameAssumption
    <3>4. b \in Entries(results') <=> b \in Entries(results)
      BY <1>7, <3>3
    <3>5. \A x : ReadAs(q, x)' <=> ReadAs(q, x)
      BY <1>1, <3>1, <3>4 DEF ReadAs
    <3>6. ASSUME NEW e \in Entries(results'), e.value # Failed PROVE e \in Entries(results)
      BY <1>5, <1>7, <3>6
    <3>7. QED
      BY <2>1, <3>5, <3>6 DEF AdminInv, ReadInv
  <2>2. QED
    BY <1>1, <2>1 DEF ReadInv
<1>13. TokenInv'
  <2>1. ASSUME NEW q \in Presses, NEW t, Holds(q, t)' PROVE Holds(q, t)
    <3>1. Holds(q, t) \/ (q = p /\ UsesUp(p, Failed, t))
      BY <1>1, <1>6, <2>1, AnswerKeepsHolders
    <3>2. ~UsesUp(p, Failed, t)
      BY NameAssumption DEF UsesUp
    <3>3. QED
      BY <3>1, <3>2
  <2>2. QED
    BY <1>1, <2>1 DEF AdminInv, TokenInv
<1>14. RowsInv' /\ OwnerInv'
  <2>1. faults' \in 0..MaxFaults
    BY FaultAssumption DEF AdminInv, RowsInv, Refuse
  <2>2. ASSUME NEW q, NEW u, HasAllowed(q, u) PROVE HasAllowed(q, u)'
    BY <1>1, <1>7, <2>2 DEF HasAllowed
  <2>3. OwnerInv'
    BY <1>1, <2>2 DEF AdminInv, OwnerInv
  <2>4. QED
    BY <1>1, <2>1, <2>3 DEF AdminInv, RowsInv
<1>15. QED
  BY <1>7, <1>8, <1>9, <1>10, <1>11, <1>12, <1>13, <1>14 DEF AdminInv

-----------------------------------------------------------------------------
(***************************************************************************)
(* The process.                                                            *)
(***************************************************************************)
LEMMA NobodyWaits ==
    ASSUME LineInv, ~up
    PROVE  Entries(queue) = {} /\ Entries(results) = {}
<1>1. queue \in Seq(Requests) /\ results \in Seq(Answers)
  BY DEF LineInv
<1>2. ASSUME NEW e \in Entries(queue) PROVE FALSE
  <2>1. e \in Requests
    BY <1>1, LineEntries
  <2>2. e.press \in Presses
    BY <2>1 DEF Requests
  <2>3. Waits(queue, e.press)
    BY <1>1, LineEntries
  <2>4. QED
    BY <2>2, <2>3 DEF LineInv
<1>3. ASSUME NEW e \in Entries(results) PROVE FALSE
  <2>1. e \in Answers
    BY <1>1, LineEntries
  <2>2. e.press \in Presses
    BY <2>1 DEF Answers
  <2>3. Waits(results, e.press)
    BY <1>1, LineEntries
  <2>4. QED
    BY <2>2, <2>3 DEF LineInv
<1>4. QED
  BY <1>2, <1>3

LEMMA StartKeeps ==
    ASSUME AdminInv, Start
    PROVE  AdminInv'
<1>1. /\ LineInv /\ PressInv /\ ~up /\ up' = TRUE
      /\ users' = [u \in Users |-> IF u \in Owners THEN "admin" ELSE users[u]]
      /\ stored' = IF LegacyMode # None /\ stored[Mode] = None
                   THEN [stored EXCEPT ![Mode] = LegacyMode] ELSE stored
      /\ setting' = [k \in Keys |-> IF stored'[k] = None THEN Bootstrap[k] ELSE stored'[k]]
      /\ _overrides' = {k \in Keys : stored'[k] # None}
      /\ _paused' = pausedRow /\ _disabled' = disabledRows
      /\ pausedRow' = pausedRow /\ disabledRows' = disabledRows /\ drafts' = drafts
      /\ expired' = expired /\ press' = press /\ queue' = queue /\ results' = results
      /\ performed' = performed /\ faults' = faults
  BY DEF AdminInv, Start, schemaVars
<1>2. Entries(queue) = {} /\ Entries(results) = {}
  BY <1>1, NobodyWaits
<1>3. queue \in Seq(Requests) /\ results \in Seq(Answers)
  BY <1>1 DEF LineInv
<1>4. \A E : NoneOf(queue', E) /\ NoneOf(results', E)
  BY <1>1, <1>2, <1>3, LineEntries
<1>5. LineInv'
  <2>1. \A q \in Presses : ~Waits(queue', q) /\ ~Waits(results', q)
    BY <1>1, <1>2, <1>3, LineEntries
  <2>2. QED
    BY <1>1, <2>1 DEF LineInv
<1>6. PressInv'
  BY <1>1 DEF PressInv, Offered, What
<1>7. StatementInv'
  BY <1>1, <1>2 DEF StatementInv
<1>8. RowsInv
  BY DEF AdminInv
<1>9. stored' \in [Keys -> Values \cup {None}]
  BY <1>1, <1>8, ValueAssumption DEF RowsInv, Keys
<1>10. SettingInv'
  <2>1. ASSUME NEW k \in Keys PROVE Matches(k)'
    BY <1>1, <2>1 DEF Matches
  <2>2. QED
    BY <1>4, <2>1 DEF SettingInv, SettingFits
<1>11. PauseInv'
  BY <1>1, <1>4 DEF PauseInv
<1>12. SessionInv'
  BY <1>1, <1>4 DEF SessionInv, SessionFits
<1>13. ReadInv'
  <2>1. \A q \in Presses : press[q].pc # "reads"
    BY <1>1 DEF PressInv, WaitPcs
  <2>2. QED
    BY <1>1, <2>1 DEF ReadInv
<1>14. TokenInv'
  <2>1. \A q, t : Holds(q, t)' <=> Holds(q, t)
    BY <1>1 DEF Holds
  <2>2. QED
    BY <1>1, <2>1 DEF AdminInv, TokenInv
<1>15. OwnerInv'
  BY <1>1 DEF OwnerInv, Users
<1>16. RowsInv'
  <2>1. setting' \in [Keys -> Values]
    BY <1>1, <1>9, ValueAssumption DEF Keys
  <2>2. users' \in [Users -> {None, "user", "suspended", "admin"}]
    BY <1>1, <1>8 DEF RowsInv
  <2>3. _overrides' \subseteq Keys
    BY <1>1
  <2>4. QED
    BY <1>1, <1>8, <1>9, <2>1, <2>2, <2>3 DEF RowsInv
<1>17. QED
  BY <1>5, <1>6, <1>7, <1>10, <1>11, <1>12, <1>13, <1>14, <1>15, <1>16 DEF AdminInv

LEMMA CrashKeeps ==
    ASSUME AdminInv, Crash
    PROVE  AdminInv'
<1>1. /\ LineInv /\ PressInv /\ RowsInv /\ up' = FALSE /\ faults < MaxFaults /\ faults' = faults + 1
      /\ queue' = <<>> /\ results' = <<>>
      /\ setting' = Bootstrap /\ _overrides' = {} /\ _paused' = FALSE /\ _disabled' = {}
      /\ stored' = stored /\ pausedRow' = pausedRow /\ disabledRows' = disabledRows
      /\ users' = users /\ drafts' = drafts /\ expired' = expired /\ performed' = performed
  BY DEF AdminInv, Crash, rows
<1>2. Entries(queue') = {} /\ Entries(results') = {}
  BY <1>1 DEF Entries
<1>3. ASSUME NEW q \in Presses
      PROVE  \/ /\ press[q].pc \in {"idle", "offered", "done", "failed"} /\ press'[q] = press[q]
             \/ /\ press[q].pc \notin {"idle", "offered", "done", "failed"}
                /\ press'[q] = [press[q] EXCEPT !.pc = "gone"]
  BY DEF Crash
<1>4. ASSUME NEW q \in Presses
      PROVE  /\ press'[q] \in PressRecords
             /\ press'[q].op = press[q].op /\ press'[q].got = press[q].got
             /\ press'[q].read = press[q].read /\ press'[q].off = press[q].off
             /\ press'[q].overtaken = press[q].overtaken
             /\ press'[q].pc = press[q].pc \/ (press'[q].pc = "gone" /\ press[q].pc # "idle")
             /\ press'[q].pc \in {"idle", "offered", "done", "failed", "gone"}
             /\ press[q].pc = "offered" => press'[q].pc = "offered"
  <2>1. press[q] \in PressRecords /\ "gone" \in PressPcs
    BY <1>1 DEF PressInv, PressPcs
  <2>2. PICK r : r = [press[q] EXCEPT !.pc = "gone"]
    OBVIOUS
  <2>3. /\ r \in PressRecords /\ r.op = press[q].op /\ r.pc = "gone" /\ r.got = press[q].got
        /\ r.read = press[q].read /\ r.off = press[q].off /\ r.overtaken = press[q].overtaken
    BY <2>1, <2>2 DEF PressRecords
  <2>4. CASE press[q].pc \in {"idle", "offered", "done", "failed"}
    BY <1>3, <2>1, <2>4
  <2>5. CASE press[q].pc \notin {"idle", "offered", "done", "failed"}
    <3>1. press'[q] = r
      BY <1>3, <2>2, <2>5
    <3>2. QED
      BY <2>3, <2>5, <3>1
  <2>6. QED
    BY <2>4, <2>5
<1>5. PressInv'
  <2>1. press' \in [Presses -> PressRecords]
    <3>1. press' = [q \in Presses |-> press'[q]]
      BY DEF Crash
    <3>2. QED
      BY <1>4, <3>1
  <2>2. ASSUME NEW q \in Presses PROVE Fitting(press'[q])
    <3>1. Fitting(press[q])
      BY <1>1 DEF PressInv
    <3>2. QED
      BY <1>4, <3>1 DEF Fitting
  <2>3. ASSUME NEW q \in Presses, press'[q].op.op \in {"confirm", "dismiss"}
        PROVE  Offered(press[q].op.token)'
    <3>1. press[q].op.op \in {"confirm", "dismiss"}
      BY <1>4, <2>3
    <3>2. press[q].pc # "idle"
      BY <1>1, <3>1 DEF PressInv, Fitting, Idle
    <3>3. press[q].op.token \in Presses /\ Offered(press[q].op.token)
      BY <1>1, <3>1, <3>2, OperationOf DEF PressInv
    <3>4. QED
      BY <1>4, <3>3 DEF Offered
  <2>4. ASSUME NEW q \in Presses PROVE press'[q].pc \notin WaitPcs \cup {"answers"}
    BY <1>4 DEF WaitPcs
  <2>5. ASSUME NEW q \in Presses PROVE press'[q].pc # "saves"
    BY <1>4
  <2>6. QED
    BY <1>4, <2>1, <2>2, <2>3, <2>4, <2>5 DEF PressInv
<1>6. LineInv'
  <2>1. <<>> \in Seq(Requests) /\ <<>> \in Seq(Answers) /\ Len(<<>>) = 0
    OBVIOUS
  <2>2. OncePer(<<>>) /\ \A q : ~Waits(<<>>, q)
    BY DEF OncePer, Waits
  <2>3. QED
    BY <1>1, <2>1, <2>2 DEF LineInv
<1>7. StatementInv'
  BY <1>2 DEF StatementInv
<1>8. SettingInv' /\ PauseInv' /\ SessionInv'
  BY <1>1 DEF SettingInv, PauseInv, SessionInv
<1>9. ReadInv'
  BY <1>4 DEF ReadInv
<1>10. TokenInv'
  <2>1. ASSUME NEW q \in Presses, NEW t, Holds(q, t)' PROVE Holds(q, t)
    <3>1. press'[q].pc = "done"
      BY <1>2, <1>4, <2>1 DEF Holds
    <3>2. QED
      BY <1>4, <2>1, <3>1 DEF Holds
  <2>2. ASSUME NEW t \in Presses
        PROVE  /\ \A q, r \in Presses : Holds(q, t)' /\ Holds(r, t)' => q = r
               /\ t \in drafts' \/ performed'[t] # 0 => \A q \in Presses : ~Holds(q, t)'
               /\ t \in drafts' => performed'[t] = 0
               /\ performed'[t] # 0 => press'[t].pc = "offered"
    BY <1>1, <1>4, <2>1 DEF AdminInv, TokenInv
  <2>3. QED
    BY <2>2 DEF TokenInv
<1>11. OwnerInv'
  BY <1>1 DEF AdminInv, OwnerInv
<1>12. RowsInv'
  <2>1. faults' \in 0..MaxFaults
    BY <1>1, FaultAssumption DEF RowsInv
  <2>2. setting' \in [Keys -> Values]
    BY <1>1, ValueAssumption DEF Keys
  <2>3. QED
    BY <1>1, <2>1, <2>2 DEF RowsInv
<1>13. QED
  BY <1>5, <1>6, <1>7, <1>8, <1>9, <1>10, <1>11, <1>12 DEF AdminInv

(* Nothing but the age of the confirmations and the faults has changed.    *)
LEMMA ElsewhereKeeps ==
    ASSUME AdminInv, UNCHANGED <<up, memory, rows, press, queue, results, performed>>,
           expired' \subseteq Presses, faults' \in 0..MaxFaults
    PROVE  AdminInv'
<1>1. /\ up' = up /\ setting' = setting /\ _overrides' = _overrides /\ _paused' = _paused
      /\ _disabled' = _disabled /\ stored' = stored /\ pausedRow' = pausedRow
      /\ disabledRows' = disabledRows /\ users' = users /\ drafts' = drafts
      /\ press' = press /\ queue' = queue /\ results' = results /\ performed' = performed
  BY DEF memory, rows
<1>2. RowsInv' /\ OwnerInv'
  <2>1. RowsInv'
    BY <1>1 DEF AdminInv, RowsInv
  <2>2. \A q, u : HasAllowed(q, u)' <=> HasAllowed(q, u)
    BY <1>1 DEF HasAllowed
  <2>3. OwnerInv'
    BY <1>1, <2>2 DEF AdminInv, OwnerInv
  <2>4. QED
    BY <2>1, <2>3
<1>3. LineInv' /\ PressInv'
  BY <1>1 DEF AdminInv, LineInv, PressInv, Offered, What
<1>4. /\ \A q : KeyOf(q)' = KeyOf(q) /\ What(q)' = What(q) /\ Written(q)' = Written(q)
      /\ PauseRequests' = PauseRequests
  BY <1>1 DEF KeyOf, What, Written, PauseRequests
<1>5. StatementInv'
  <2>1. ASSUME NEW q, NEW s, Asked(q, s) PROVE Asked(q, s)'
    BY <1>1, <1>4, <2>1 DEF Asked
  <2>2. QED
    BY <1>1, <2>1 DEF AdminInv, StatementInv
<1>6. SettingInv'
  <2>1. ASSUME NEW k PROVE WritesOf(k)' = WritesOf(k)
    BY <1>1, <1>4 DEF WritesOf
  <2>2. ASSUME NEW k PROVE Matches(k)' <=> Matches(k)
    BY <1>1 DEF Matches
  <2>3. ASSUME NEW k PROVE SettingFits(k) => SettingFits(k)'
    BY <1>1, <1>4, <2>1, <2>2 DEF SettingFits
  <2>4. QED
    BY <1>1, <2>3 DEF AdminInv, SettingInv
<1>7. PauseInv'
  <2>1. PauseRefused' <=> PauseRefused
    BY <1>1 DEF PauseRefused
  <2>2. QED
    BY <1>1, <1>4, <2>1 DEF AdminInv, PauseInv
<1>8. SessionInv'
  <2>1. ASSUME NEW x PROVE SavesOf(x)' = SavesOf(x)
    BY <1>1, <1>4 DEF SavesOf
  <2>2. ASSUME NEW x PROVE Overtaken(x)' <=> Overtaken(x)
    BY <1>1 DEF Overtaken
  <2>3. ASSUME NEW x PROVE SessionFits(x) => SessionFits(x)'
    BY <1>1, <2>1, <2>2 DEF SessionFits
  <2>4. QED
    BY <1>1, <2>3 DEF AdminInv, SessionInv
<1>9. ReadInv'
  <2>1. ASSUME NEW q, NEW x PROVE ReadAs(q, x)' <=> ReadAs(q, x)
    BY <1>1 DEF ReadAs
  <2>2. QED
    BY <1>1, <2>1 DEF AdminInv, ReadInv
<1>10. TokenInv'
  BY <1>1 DEF AdminInv, TokenInv, Holds
<1>11. QED
  BY <1>2, <1>3, <1>5, <1>6, <1>7, <1>8, <1>9, <1>10 DEF AdminInv

LEMMA ExpireKeeps ==
    ASSUME AdminInv, NEW t \in Presses, Expire(t), up' = up, faults' = faults
    PROVE  AdminInv'
<1>1. expired' \subseteq Presses /\ faults' \in 0..MaxFaults
  BY DEF Expire, AdminInv, RowsInv
<1>2. QED
  BY <1>1, ElsewhereKeeps DEF Expire

LEMMA MigrateKeeps ==
    ASSUME AdminInv, Migrate,
           UNCHANGED <<up, memory, rows, expired, press, queue, results, performed>>
    PROVE  AdminInv'
<1>1. faults' \in 0..MaxFaults
  BY FaultAssumption DEF AdminInv, RowsInv, Migrate, Begin, Statement, Record, CrashWhileMigrating
<1>2. expired' \subseteq Presses
  BY DEF AdminInv, RowsInv
<1>3. QED
  BY <1>1, <1>2, ElsewhereKeeps

LEMMA AdminFirst == Init => AdminInv
<1> SUFFICES ASSUME Init PROVE AdminInv
  OBVIOUS
<1>1. /\ faults = 0 /\ up = FALSE
      /\ setting = Bootstrap /\ _overrides = {} /\ _paused = FALSE /\ _disabled = {}
      /\ stored = [k \in Keys |-> None] /\ pausedRow = FALSE /\ disabledRows = {}
      /\ users = [u \in Users |-> None]
      /\ drafts = {} /\ expired = {}
      /\ press = [p \in Presses |-> NoPress]
      /\ queue = <<>> /\ results = <<>>
      /\ performed = [p \in Presses |-> 0]
  BY DEF Init, SchemaInit
<1>2. PICK r : r = NoPress
  OBVIOUS
<1>3. /\ r \in PressRecords /\ r.op = Idle /\ r.pc = "idle" /\ r.got = None
      /\ r.read = {} /\ r.off = {} /\ r.overtaken = {}
  BY <1>2 DEF NoPress, PressRecords, Idle, PressPcs, Replies
<1>4. \A p \in Presses : press[p] = r
  BY <1>1, <1>2
<1>5. press \in [Presses -> PressRecords]
  BY <1>1, <1>2, <1>3
<1>6. Idle.op = "none"
  BY DEF Idle
<1>7. PressInv
  <2>1. Fitting(r)
    BY <1>3, <1>6 DEF Fitting
  <2>2. r.pc \notin WaitPcs \cup {"answers"}
    BY <1>3 DEF WaitPcs
  <2>3. QED
    BY <1>3, <1>4, <1>5, <1>6, <2>1, <2>2 DEF PressInv
<1>8. LineInv
  <2>1. <<>> \in Seq(Requests) /\ <<>> \in Seq(Answers) /\ Len(<<>>) = 0
    OBVIOUS
  <2>2. OncePer(<<>>) /\ \A q : ~Waits(<<>>, q)
    BY DEF OncePer, Waits
  <2>3. QED
    BY <1>1, <2>1, <2>2 DEF LineInv
<1>9. StatementInv
  BY <1>1 DEF StatementInv, Entries
<1>10. SettingInv /\ PauseInv /\ SessionInv
  BY <1>1 DEF SettingInv, PauseInv, SessionInv
<1>11. ReadInv
  BY <1>3, <1>4 DEF ReadInv
<1>12. TokenInv
  <2>1. \A q \in Presses : \A t : ~Holds(q, t)
    BY <1>3, <1>4, <1>6 DEF Holds
  <2>2. QED
    BY <1>1, <2>1 DEF TokenInv
<1>13. OwnerInv
  BY <1>1, NameAssumption DEF OwnerInv, Users
<1>14. RowsInv
  <2>1. faults \in 0..MaxFaults
    BY <1>1, FaultAssumption
  <2>2. setting \in [Keys -> Values]
    BY <1>1, ValueAssumption DEF Keys
  <2>3. /\ performed \in [Presses -> 0..1] /\ stored \in [Keys -> Values \cup {None}]
        /\ users \in [Users -> {None, "user", "suspended", "admin"}]
    BY <1>1
  <2>4. QED
    BY <1>1, <2>1, <2>2, <2>3 DEF RowsInv
<1>15. QED
  BY <1>7, <1>8, <1>9, <1>10, <1>11, <1>12, <1>13, <1>14 DEF AdminInv

LEMMA StepKeeps ==
    ASSUME AdminInv, NEW p \in Presses, Step(p), up, up' = up, faults' = faults
    PROVE  AdminInv'
<1>1. CASE Press(p)
  BY <1>1, PressKeeps
<1>2. CASE Deny(p)
  BY <1>2, DenyKeeps
<1>3. CASE Adjust(p)
  BY <1>3, AdjustKeeps
<1>4. CASE Choose(p)
  BY <1>4, ChooseKeeps
<1>5. CASE Apply(p)
  BY <1>5, ApplyKeeps
<1>6. CASE Reset(p)
  BY <1>6, ResetKeeps
<1>7. CASE ApplyReset(p)
  BY <1>7, ApplyResetKeeps
<1>8. CASE Pause(p)
  BY <1>8, PauseKeeps
<1>9. CASE Finish(p)
  BY <1>9, FinishKeeps
<1>10. CASE Ask(p)
  BY <1>10, AskKeeps
<1>11. CASE Offer(p)
  BY <1>11, OfferKeeps
<1>12. CASE Expire(p)
  BY <1>12, ExpireKeeps
<1>13. CASE Dismiss(p)
  BY <1>13, DismissKeeps
<1>14. CASE Confirm(p)
  BY <1>14, ConfirmKeeps
<1>15. CASE Consume(p)
  BY <1>15, ConsumeKeeps
<1>16. CASE Perform(p)
  BY <1>16, PerformKeeps
<1>17. CASE PerformFails(p)
  BY <1>17, PerformFailsKeeps
<1>18. CASE SetEnabled(p)
  BY <1>18, SetEnabledKeeps
<1>19. CASE Refresh(p)
  BY <1>19, RefreshKeeps
<1>20. CASE Allow(p)
  BY <1>20, AllowKeeps
<1>21. CASE Disallow(p)
  BY <1>21, DisallowKeeps
<1>22. CASE LookAtUser(p)
  BY <1>22, LookAtUserKeeps
<1>23. CASE ToggleUser(p)
  BY <1>23, ToggleUserKeeps
<1>24. QED
  BY <1>1, <1>2, <1>3, <1>4, <1>5, <1>6, <1>7, <1>8, <1>9, <1>10, <1>11, <1>12, <1>13,
     <1>14, <1>15, <1>16, <1>17, <1>18, <1>19, <1>20, <1>21, <1>22, <1>23 DEF Step

LEMMA NextKeepsAdmin == AdminInv /\ [Next]_vars => AdminInv'
<1> SUFFICES ASSUME AdminInv, [Next]_vars PROVE AdminInv'
  OBVIOUS
<1>1. CASE ~up /\ Migrate /\ UNCHANGED <<up, memory, rows, expired, press, queue, results, performed>>
  BY <1>1, MigrateKeeps
<1>2. CASE Start
  BY <1>2, StartKeeps
<1>3. CASE up /\ Running /\ UNCHANGED <<schemaVars, up>>
  <2>1. up' = up /\ faults' = faults
    BY <1>3 DEF schemaVars
  <2>2. CASE Execute
    BY <1>3, <2>1, <2>2, ExecuteKeeps
  <2>3. CASE Raise
    BY <1>3, <2>1, <2>3, RaiseKeeps
  <2>4. ASSUME NEW p \in Presses, Step(p) PROVE AdminInv'
    BY <1>3, <2>1, <2>4, StepKeeps
  <2>5. QED
    BY <1>3, <2>2, <2>3, <2>4 DEF Running
<1>4. CASE up /\ Refuse /\ UNCHANGED <<schema, up>>
  BY <1>4, RefuseKeeps
<1>5. CASE Crash
  BY <1>5, CrashKeeps
<1>6. CASE UNCHANGED vars
  <2>1. faults' = faults /\ expired' = expired
    BY <1>6 DEF vars, schemaVars
  <2>2. faults' \in 0..MaxFaults /\ expired' \subseteq Presses
    BY <2>1 DEF AdminInv, RowsInv
  <2>3. UNCHANGED <<up, memory, rows, press, queue, results, performed>>
    BY <1>6 DEF vars
  <2>4. QED
    BY <2>2, <2>3, ElsewhereKeeps
<1>7. QED
  BY <1>1, <1>2, <1>3, <1>4, <1>5, <1>6 DEF Next

LEMMA AdminInvHolds == Spec => []AdminInv
<1>1. Init => AdminInv
  BY AdminFirst
<1>2. QED
  BY <1>1, NextKeepsAdmin, PTL DEF Spec

(* Every press waits in one line at most, and once.                        *)
LEMMA LinesAreShort ==
    ASSUME LineInv
    PROVE  Len(queue) + Len(results) <= Cardinality(Presses)
<1> DEFINE n == Len(queue)
           m == Len(results)
           f == [i \in 1..(n + m) |-> IF i <= n THEN queue[i].press ELSE results[i - n].press]
<1>1. /\ queue \in Seq(Requests) /\ results \in Seq(Answers) /\ OncePer(queue) /\ OncePer(results)
      /\ n \in Nat /\ m \in Nat
  BY DEF LineInv
<1>2. \A i \in 1..n : queue[i].press \in Presses
  <2>1. \A i \in 1..n : queue[i] \in Requests
    BY <1>1
  <2>2. QED
    BY <2>1 DEF Requests
<1>3. \A i \in 1..m : results[i].press \in Presses
  <2>1. \A i \in 1..m : results[i] \in Answers
    BY <1>1
  <2>2. QED
    BY <2>1 DEF Answers
<1>4. \A i \in 1..n, j \in 1..m : queue[i].press # results[j].press
  BY <1>2 DEF LineInv, Waits
<1>5. \A i \in 1..(n + m) : (i \in 1..n /\ i <= n) \/ (i - n \in 1..m /\ ~(i <= n))
  BY <1>1
<1>6. f \in [1..(n + m) -> Presses]
  <2>1. ASSUME NEW i \in 1..(n + m) PROVE f[i] \in Presses
    BY <1>2, <1>3, <1>5
  <2>2. QED
    BY <2>1
<1>7. ASSUME NEW i \in 1..(n + m), NEW j \in 1..(n + m), f[i] = f[j] PROVE i = j
  <2>1. CASE i <= n /\ j <= n
    <3>1. i \in 1..n /\ j \in 1..n /\ queue[i].press = queue[j].press
      BY <1>5, <1>7, <2>1
    <3>2. QED
      BY <1>1, <3>1 DEF OncePer
  <2>2. CASE ~(i <= n) /\ ~(j <= n)
    <3>1. i - n \in 1..m /\ j - n \in 1..m /\ results[i - n].press = results[j - n].press
      BY <1>5, <1>7, <2>2
    <3>2. i - n = j - n
      BY <1>1, <3>1 DEF OncePer
    <3>3. QED
      BY <1>1, <3>2
  <2>3. CASE i <= n /\ ~(j <= n)
    <3>1. i \in 1..n /\ j - n \in 1..m /\ queue[i].press = results[j - n].press
      BY <1>5, <1>7, <2>3
    <3>2. QED
      BY <1>4, <3>1
  <2>4. CASE ~(i <= n) /\ j <= n
    <3>1. j \in 1..n /\ i - n \in 1..m /\ queue[j].press = results[i - n].press
      BY <1>5, <1>7, <2>4
    <3>2. QED
      BY <1>4, <3>1
  <2>5. QED
    BY <2>1, <2>2, <2>3, <2>4
<1>8. f \in Injection(1..(n + m), Presses)
  BY <1>6, <1>7 DEF Injection, IsInjective
<1> HIDE DEF f, n, m
<1>9. Cardinality(1..(n + m)) <= Cardinality(Presses)
  BY <1>8, PressAssumption, FS_Injection
<1>10. Cardinality(1..(n + m)) = n + m
  BY <1>1, FS_Interval
<1>11. QED
  BY <1>9, <1>10 DEF n, m

LEMMA MemoryIsRight == AdminInv => MemoryAsStored
<1> SUFFICES ASSUME AdminInv PROVE MemoryAsStored
  OBVIOUS
<1>1. /\ RowsInv /\ LineInv /\ PressInv /\ StatementInv /\ SettingInv /\ PauseInv /\ SessionInv
      /\ queue \in Seq(Requests) /\ results \in Seq(Answers)
  BY DEF AdminInv, LineInv
<1>2. TypeOK
  <2>1. ASSUME NEW p \in Presses
        PROVE  /\ press[p].op \in Operations \cup {Idle}
               /\ press[p].read \subseteq Profiles /\ press[p].off \subseteq press[p].read
               /\ press[p].overtaken \subseteq press[p].read
    <3>1. press[p] \in PressRecords /\ Fitting(press[p])
      BY <1>1 DEF PressInv
    <3>2. QED
      BY <3>1, RecordFields DEF Fitting
  <2>2. Len(queue) + Len(results) <= Cardinality(Presses)
    BY <1>1, LinesAreShort
  <2>3. QED
    BY <1>1, <2>1, <2>2 DEF TypeOK, RowsInv
<1>3. SettingsAsStored
  <2> SUFFICES ASSUME up, NEW k \in Keys,
                      ~UnderWay(IF k = Mode THEN {"resource"} ELSE {"perf", "perfreset"}, {"set", "reset"})
               PROVE  Matches(k)
    BY DEF SettingsAsStored, Matches
  <2>1. SettingFits(k)
    BY <1>1 DEF SettingInv
  <2>2. ASSUME NEW e, e \in WritesOf(k) PROVE FALSE
    <3>1. PICK q \in Presses : q = e.press
      BY <2>2 DEF WritesOf, Answers
    <3>2. press[q].pc \in {"set", "reset"} /\ KeyOf(q) = k
      BY <2>2, <3>1 DEF WritesOf
    <3>3. press[q].op.op \in {"perf", "perfreset", "resource"}
      BY <1>1, <3>2 DEF PressInv, Fitting
    <3>4. press[q].op.op \in IF k = Mode THEN {"resource"} ELSE {"perf", "perfreset"}
      BY <3>2, <3>3, ValueAssumption DEF KeyOf
    <3>5. QED
      BY <3>2, <3>4 DEF UnderWay
  <2>3. QED
    BY <2>1, <2>2 DEF SettingFits, LastOf
<1>4. PauseAsStored
  <2> DEFINE AskedFor(p) == /\ press[p].op = [op |-> "pause", on |-> _paused]
                            /\ press[p].pc \in {"last", "failed"}
  <2> SUFFICES ASSUME up, _paused # pausedRow PROVE \E p \in Presses : AskedFor(p)
    BY DEF PauseAsStored
  <2>1. CASE PauseRefused
    BY <2>1 DEF PauseRefused
  <2>2. ASSUME NEW e \in Entries(queue), LastOf(queue, PauseRequests, e), e.statement.on = _paused
        PROVE  \E p \in Presses : AskedFor(p)
    <3>1. e.statement.do = "scheduler_paused"
      BY <2>2 DEF LastOf, PauseRequests
    <3>2. e \in Requests
      BY <1>1, LineEntries
    <3>3. e.press \in Presses /\ Asked(e.press, e.statement)
      BY <1>1, <3>2 DEF Requests, StatementInv
    <3>4. Waits(queue, e.press)
      BY <1>1, LineEntries
    <3>5. press[e.press].pc \in WaitPcs
      BY <1>1, <3>3, <3>4 DEF LineInv
    <3>6. /\ press[e.press].pc = "last" /\ press[e.press].op.op = "pause"
          /\ press[e.press].op.on = _paused
      BY <1>1, <2>2, <3>1, <3>3, <3>5, AskedBy
    <3>7. press[e.press].op = [op |-> "pause", on |-> _paused]
      BY <1>1, <3>3, <3>6, OperationIs
    <3>8. QED
      BY <3>3, <3>6, <3>7
  <2>3. QED
    BY <1>1, <2>1, <2>2 DEF PauseInv
<1>5. SessionsAsStored
  <2> SUFFICES ASSUME up, NEW x \in Profiles, ~(x \in _disabled <=> x \in disabledRows),
                      ~\E p \in Presses : x \in press[p].overtaken
               PROVE  UnderWay({"confirm"}, {"saves"})
    BY DEF SessionsAsStored
  <2>1. SessionFits(x)
    BY <1>1 DEF SessionInv
  <2>2. PICK e \in Entries(results) : LastOf(results, SavesOf(x), e)
    BY <2>1 DEF SessionFits, Overtaken
  <2>3. press[e.press].pc = "saves" /\ e \in Answers
    BY <2>2 DEF LastOf, SavesOf
  <2>4. e.press \in Presses
    BY <2>3 DEF Answers
  <2>5. press[e.press].op.op = "confirm"
    BY <1>1, <2>3, <2>4 DEF PressInv, Fitting
  <2>6. QED
    BY <2>3, <2>4, <2>5 DEF UnderWay
<1>6. QED
  BY <1>2, <1>3, <1>4, <1>5 DEF MemoryAsStored

LEMMA PressesAreRight == AdminInv => PressesDoNoHarm
<1> SUFFICES ASSUME AdminInv PROVE PressesDoNoHarm
  OBVIOUS
<1>1. \A t \in Presses : performed[t] <= 1
  BY DEF AdminInv, RowsInv
<1>2. ASSUME NEW p \in Presses, press[p].op.op = "dismiss", press[p].pc = "done", press[p].got = TRUE
      PROVE  performed[press[p].op.token] = 0
  <2>1. press[p].op.token \in Presses
    BY <1>2, OperationOf DEF AdminInv
  <2>2. Holds(p, press[p].op.token)
    BY <1>2 DEF Holds
  <2>3. QED
    BY <2>1, <2>2 DEF AdminInv, TokenInv
<1>3. OwnersKeepTheirRights
  BY DEF AdminInv, OwnerInv, HasAllowed, OwnersKeepTheirRights, AllowedByName
<1>4. QED
  BY <1>1, <1>2, <1>3 DEF PressesDoNoHarm, OneOperationPerConfirmation

(* runtime_settings.py, cookie_profiles.py and the pause: however many      *)
(* presses overlap, and whichever of their statements are refused, the     *)
(* memory the program runs with is what a restart would restore, but for   *)
(* what is under way and the refreshes that a button overtook.             *)
THEOREM WhatRunsIsStored == Spec => []MemoryAsStored
  BY AdminInvHolds, MemoryIsRight, PTL

(* operations.py and commands.py: a confirmation is used once, whether to   *)
(* perform or to withdraw, and no configured administrator is suspended.   *)
THEOREM PressesAreHarmless == Spec => []PressesDoNoHarm
  BY AdminInvHolds, PressesAreRight, PTL
==============================================================================
