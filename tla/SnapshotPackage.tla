--------------------------- MODULE SnapshotPackage --------------------------
(***************************************************************************)
(* What a paged snapshot holds (messaging/standard_sync.py): the required   *)
(* state first - read states and groups, whatever they cost - and then the *)
(* newest messages that still fit, cut into pages of one section each.     *)
(* Items are records with a size; their content is the caller's.           *)
(***************************************************************************)
EXTENDS Integers, Sequences, FiniteSets

CONSTANTS
    MaxPageItems,       \* MAX_PAGE_ITEMS
    MaxPageBytes,       \* MAX_PAGE_BYTES, also the limit of one item
    MaxPackageItems,    \* MAX_PACKAGE_ITEMS
    MaxPackageBytes,    \* MAX_PACKAGE_BYTES
    MaxPages            \* MAX_PAGES

ASSUME BudgetAssumption ==
    /\ {MaxPageItems, MaxPageBytes, MaxPackageItems, MaxPackageBytes, MaxPages} \subseteq Nat \ {0}

Total(items) ==
    LET sum[k \in 0..Len(items)] == IF k = 0 THEN 0 ELSE sum[k - 1] + items[k].size
    IN  sum[Len(items)]

Backwards(items) == [k \in 1..Len(items) |-> items[Len(items) + 1 - k]]

FitsPage(items) == Len(items) <= MaxPageItems /\ Total(items) <= MaxPageBytes

\* _paginate_nonempty_sections, one section: where its pages start.  An item
\* starts a page exactly when the page in front of it cannot take it.
Starts(items) ==
    CHOOSE P \in SUBSET DOMAIN items : \A k \in DOMAIN items :
        k \in P <=> \A p \in P : p < k =>
                        \/ \E q \in P : p < q /\ q < k
                        \/ ~FitsPage(SubSeq(items, p, k))

PageCount(items) == Cardinality(Starts(items))

\* The pages of a section; an empty section has none.
Paginate(items) ==
    LET starts == Starts(items)
        ends == {k - 1 : k \in starts \ {1}} \cup {Len(items)}
        Nth(S, k) == CHOOSE n \in S : Cardinality({m \in S : m <= n}) = k
    IN  [k \in 1..Cardinality(starts) |-> SubSeq(items, Nth(starts, k), Nth(ends, k))]

RequiredPages(reads, groups) == PageCount(reads) + PageCount(groups)

\* encoded_size
OneItemTooLarge(items) == \E k \in DOMAIN items : items[k].size > MaxPageBytes

RequiredFits(reads, groups) ==
    /\ ~OneItemTooLarge(reads \o groups)
    /\ Len(reads \o groups) <= MaxPackageItems
    /\ Total(reads \o groups) <= MaxPackageBytes
    /\ RequiredPages(reads, groups) <= MaxPages

\* The newest k messages, oldest first.
Suffix(newest, k) == Backwards(SubSeq(newest, 1, k))

\* A budget that does not set the pages of the required state aside.
VerdictOnMessagesAlone(reads, groups, newest, k) ==
    LET pages == PageCount(Suffix(newest, k + 1))
    IN  IF newest[k + 1].size > MaxPageBytes THEN "raise"
        ELSE IF k >= MaxPackageItems - Len(reads \o groups) THEN "max_items"
        ELSE IF Total(SubSeq(newest, 1, k + 1)) > MaxPackageBytes - Total(reads \o groups)
             THEN "max_encoded_bytes"
        ELSE IF pages > MaxPages THEN "max_pages"
        ELSE "take"

\* The loop's verdict on message k + 1 after it has selected k.  Counting the
\* pages of a trial raises by itself when they are more than MAX_PAGES.
Verdict(reads, groups, newest, k) ==
    LET pages == PageCount(Suffix(newest, k + 1))
    IN  IF newest[k + 1].size > MaxPageBytes THEN "raise"
        ELSE IF k >= MaxPackageItems - Len(reads \o groups) THEN "max_items"
        ELSE IF Total(SubSeq(newest, 1, k + 1)) > MaxPackageBytes - Total(reads \o groups)
             THEN "max_encoded_bytes"
        ELSE IF pages > MaxPages THEN "raise"
        ELSE IF pages > MaxPages - RequiredPages(reads, groups) THEN "max_pages"
        ELSE "take"

\* How many messages the loop selects before it stops.
Selected(reads, groups, newest) ==
    CHOOSE k \in 0..Len(newest) :
        /\ k = Len(newest) \/ Verdict(reads, groups, newest, k) # "take"
        /\ \A j \in 0..(k - 1) : Verdict(reads, groups, newest, j) = "take"

\* select_snapshot_package: it fails when the required state does not fit or
\* the loop raised.
PackageFails(reads, groups, newest) ==
    LET k == Selected(reads, groups, newest)
    IN  \/ ~RequiredFits(reads, groups)
        \/ k < Len(newest) /\ Verdict(reads, groups, newest, k) = "raise"

Section(name, pages) == [k \in DOMAIN pages |-> [section |-> name, items |-> pages[k]]]

\* paginate_sections: one empty page stands for an empty package.
PackagePages(reads, groups, newest) ==
    LET messages == Suffix(newest, Selected(reads, groups, newest))
        pages == Section("read_states", Paginate(reads))
                    \o Section("groups", Paginate(groups))
                    \o Section("recent_plain_messages", Paginate(messages))
    IN  IF pages = <<>> THEN <<[section |-> "read_states", items |-> <<>>]>> ELSE pages
=============================================================================
