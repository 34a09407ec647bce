--------------------------- MODULE PostalRefresh ----------------------------
(***************************************************************************)
(* The postal reference of one country and the jobs that refresh it,       *)
(* src/mentorapp/automation/postal_refresh.py, over the live-unique index  *)
(* of storage/models.py's PostalCode.                                      *)
(***************************************************************************)
EXTENDS Naturals, Sequences, FiniteSets, Requests

CONSTANTS
    PostalCodes, Cities,
    Nowhere,           \* no live row of a code
    MaxRefreshes       \* bound on the refreshes that are run

ASSUME PostalRefreshAssumption == Nowhere \notin Cities /\ MaxRefreshes \in Nat

VARIABLES
    postal,      \* [PostalCodes -> the live row of a code]
    snapshot,    \* history: what the last committed refresh was given
    overlapped,  \* history: a refresh committed while another had read
    refreshes,   \* how many refreshes have been started
    postalReq    \* [Slots -> request]

postalVars == <<postal, snapshot, overlapped, refreshes, postalReq>>

PostalCode == [city : Cities \cup {Nowhere}, version : Nat]

Live(codes) == {c \in PostalCodes : codes[c].city # Nowhere}

-----------------------------------------------------------------------------
\* Mutant: codes that are missing from the rows are left alone.
RetiredMutant(read, rows, full) == {}

\* Codes with a live row that a full snapshot does not name.
Retired(read, rows, full) ==
    IF full THEN Live(read) \ {rows[i].code : i \in DOMAIN rows} ELSE {}

\* The city a code has last in the rows.
LastCity(rows, c) ==
    LET at == {i \in DOMAIN rows : rows[i].code = c}
    IN rows[CHOOSE i \in at : \A k \in at : k <= i].city

\* A malformed payload never gets here: it parks the job.
\* refresh_postal_reference(rows, fullSnapshot), up to the flush.  written: the
\* live rows it changes or retires; inserted: the rows it adds, one for every
\* occurrence of a code that has no live row.
refresh_postal_reference(q, rows, full) ==
    LET named == {rows[i].code : i \in DOMAIN rows}
        changed == {c \in named \cap Live(postal) :
                      \E i \in DOMAIN rows : rows[i].code = c /\ rows[i].city # postal[c].city}
    IN
    /\ postalReq[q] = Idle /\ refreshes < MaxRefreshes
    /\ refreshes' = refreshes + 1
    /\ postalReq' = [postalReq EXCEPT ![q] =
          [pc |-> "refresh", rows |-> rows, full |-> full, read |-> postal,
           written |-> changed \cup Retired(postal, rows, full),
           inserted |-> {i \in DOMAIN rows : rows[i].code \notin Live(postal)}]]
    /\ UNCHANGED <<postal, snapshot, overlapped>>

RefreshLands(q) ==
    LET w == postalReq[q]
        added == {w.rows[i].code : i \in w.inserted} IN
    /\ \A c \in w.written : postal[c].version = w.read[c].version
    /\ Cardinality(added) = Cardinality(w.inserted)
    /\ added \cap Live(postal) = {}

\* The flush and the commit: a version that moved on or a second live row of a
\* code fails the attempt.
CommitRefresh(q) ==
    LET w == postalReq[q]
        named == {w.rows[i].code : i \in DOMAIN w.rows}
        added == {w.rows[i].code : i \in w.inserted}
    IN
    /\ w.pc = "refresh"
    /\ IF RefreshLands(q)
       THEN /\ postal' = [c \in PostalCodes |->
                  IF c \notin w.written \cup added THEN postal[c]
                  ELSE [city |-> IF c \in named THEN LastCity(w.rows, c) ELSE Nowhere,
                        version |-> postal[c].version + 1]]
            /\ snapshot' = [rows |-> w.rows, full |-> w.full]
            /\ overlapped' = (overlapped \/ \E p \in Slots \ {q} : postalReq[p].pc = "refresh")
       ELSE UNCHANGED <<postal, snapshot, overlapped>>
    /\ postalReq' = [postalReq EXCEPT ![q] = Idle]
    /\ UNCHANGED refreshes

\* A worker ends, or its attempt fails for another reason.
RefreshAborts(q) ==
    /\ postalReq[q].pc = "refresh" /\ postalReq' = [postalReq EXCEPT ![q] = Idle]
    /\ UNCHANGED <<postal, snapshot, overlapped, refreshes>>

-----------------------------------------------------------------------------
PostalInit ==
    /\ postal = [c \in PostalCodes |-> [city |-> Nowhere, version |-> 0]]
    /\ snapshot = [rows |-> <<>>, full |-> TRUE]
    /\ overlapped = FALSE /\ refreshes = 0
    /\ postalReq = [q \in Slots |-> Idle]

\* The rows of a payload: up to two, the same code twice among them.
PostalRows == UNION {[1 .. n -> [code : PostalCodes, city : Cities]] : n \in 0 .. 2}

PostalNext ==
    \E q \in Slots :
        \/ \E rows \in PostalRows, full \in BOOLEAN : refresh_postal_reference(q, rows, full)
        \/ CommitRefresh(q) \/ RefreshAborts(q)

PostalSpec == PostalInit /\ [][PostalNext]_postalVars

-----------------------------------------------------------------------------
PostalTypeOK ==
    /\ postal \in [PostalCodes -> PostalCode]
    /\ overlapped \in BOOLEAN /\ refreshes \in 0 .. MaxRefreshes
    /\ DOMAIN postalReq = Slots

\* After a refresh the live codes are those of its rows, each with its last
\* city, and after a full snapshot no others: no matter which refreshes failed
\* or were run again, as long as no two of them overlapped.
SnapshotIsApplied ==
    LET rows == snapshot.rows
        named == {rows[i].code : i \in DOMAIN rows} IN
    ~overlapped =>
        /\ \A c \in named : postal[c].city = LastCity(rows, c)
        /\ snapshot.full => Live(postal) = named

=============================================================================
