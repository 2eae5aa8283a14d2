---------------------------- MODULE FlowMetrics -----------------------------
(***************************************************************************)
(* What the dashboard computes from the stored issues and slices of a      *)
(* tenant: the groups of status names, the metrics of a status in a        *)
(* window, the bands of the cumulative flow diagram, the age of an issue   *)
(* in its status and its metrics row.  Averages are left as the sum and    *)
(* the count they are computed from.                                       *)
(*                                                                         *)
(* A stored slice is a row of time_slices with its issue and its place.    *)
(***************************************************************************)
EXTENDS TimeSlicing, TenantConfig

CONSTANT Alphabet   \* the names in alphabetical order

ASSUME FlowMetricsAssumption ==
  Alphabet \in Seq(DOMAIN CaseFold) /\ ToSet(Alphabet) = DOMAIN CaseFold

Stored(slices) ==
  UNION {{[issue |-> i, nth |-> k, row |-> slices[i][k]] : k \in DOMAIN slices[i]} :
           i \in DOMAIN slices}

Named(stored, n) == {s \in stored : s.row.status = n}
NamesIn(stored) == {s.row.status : s \in stored}

Place(n) == CHOOSE k \in DOMAIN Alphabet : Alphabet[k] = n

-----------------------------------------------------------------------------
(* discover_status_groups *)

(* The name of a status id whose slices end last; then the more frequent,  *)
(* then the later in the alphabet.                                          *)
Precedes(n, m, ofId) ==
  LET latest(x) == Max({s.row.end_at : s \in Named(ofId, x)})
      count(x) == Cardinality(Named(ofId, x))
  IN \/ latest(n) > latest(m)
     \/ latest(n) = latest(m) /\ count(n) > count(m)
     \/ latest(n) = latest(m) /\ count(n) = count(m) /\ Place(n) > Place(m)

IdGroup(stored, id) ==
  LET ofId == {s \in stored : s.row.status_id = id}
  IN [key |-> id,
      variants |-> NamesIn(ofId),
      display |-> CHOOSE n \in NamesIn(ofId) :
                    \A m \in NamesIn(ofId) \ {n} : Precedes(n, m, ofId)]

Unclaimed_AllWithoutId(stored) == {s \in stored : s.row.status_id = Null}

(* Slices without an id whose name no slice with an id has. *)
Unclaimed(stored) ==
  {s \in stored : /\ s.row.status_id = Null
                  /\ \A t \in Named(stored, s.row.status) : t.row.status_id = Null}

LegacyGroup(unclaimed, folded) ==
  LET equal == {s \in unclaimed : CaseFold[s.row.status] = folded}
      count(x) == Cardinality(Named(equal, x))
  IN [key |-> folded,
      variants |-> NamesIn(equal),
      display |-> CHOOSE n \in NamesIn(equal) : \A m \in NamesIn(equal) \ {n} :
                    \/ count(n) > count(m)
                    \/ count(n) = count(m) /\ Place(n) < Place(m)]

DiscoverStatusGroups(stored) ==
  LET unclaimed == Unclaimed(stored)
  IN {IdGroup(stored, id) : id \in {s.row.status_id : s \in stored} \ {Null}}
     \cup {LegacyGroup(unclaimed, f) : f \in {CaseFold[n] : n \in NamesIn(unclaimed)}}

(* The rows of /metrics and /insights: both name the statuses themselves,  *)
(* one by one, so compute_window_snapshot does not group them.              *)
DashboardRows(stored) ==
  {[key |-> n, variants |-> {n}, display |-> n] : n \in NamesIn(stored)}

-----------------------------------------------------------------------------
(* _compute_status_window_for_variants *)

InGroup(stored, group) == {s \in stored : s.row.status \in group.variants}

OverlapTotal(stored, group, from, to) ==
  MapThenSumSet(LAMBDA s : Overlap(s.row.start_at, s.row.end_at, from, to),
                InGroup(stored, group))

Completing_AfterStart(stored, group, from, to) ==
  {s \in InGroup(stored, group) : from < s.row.end_at /\ s.row.end_at <= to
                                  /\ ~s.row.is_open}

Completing(stored, group, from, to) ==
  {s \in InGroup(stored, group) : from <= s.row.end_at /\ s.row.end_at <= to
                                  /\ ~s.row.is_open}

StatusWindow(stored, group, from, to) ==
  LET sample == Completing(stored, group, from, to)
  IN [wip_seconds |-> OverlapTotal(stored, group, from, to),
      duration_sum |-> MapThenSumSet(LAMBDA s : s.row.duration_seconds, sample),
      throughput |-> Cardinality({s.issue : s \in sample}),
      sample_size |-> Cardinality(sample)]

-----------------------------------------------------------------------------
(* compute_cfd *)

CfdGroups(stored, terminal) ==
  {g \in DiscoverStatusGroups(stored) :
     CaseFold[g.display] \notin {CaseFold[n] : n \in terminal}}

(* variant_to_display: of two groups with the name the later one wins. *)
DisplayOf(groups, n) ==
  LET of == {g \in groups : n \in g.variants}
  IN IF of = {} THEN Null
     ELSE (CHOOSE g \in of : \A h \in of : Place(h.display) <= Place(g.display)).display

CfdDays(from, to) ==
  [k \in 1..Upper(1, (to - from) \div DayLength) |-> from + k * DayLength]

ComputeCfd_StartedInWindow(stored, terminal, from, to) ==
  LET groups == CfdGroups(stored, terminal)
      ends == CfdDays(from, to)
      window == {s \in stored : s.row.start_at <= to /\ s.row.start_at >= from}
      at(d) == {s \in window : s.row.start_at <= d /\ d <= s.row.end_at}
  IN [k \in DOMAIN ends |->
        [band \in {g.display : g \in groups} |->
           {s.issue : s \in {t \in at(ends[k]) :
                               DisplayOf(groups, t.row.status) = band}}]]

(* Per day end, the issues of each band. *)
ComputeCfd(stored, terminal, from, to) ==
  LET groups == CfdGroups(stored, terminal)
      ends == CfdDays(from, to)
      window == {s \in stored : s.row.start_at <= to /\ s.row.end_at >= from}
      at(d) == {s \in window : s.row.start_at <= d /\ d <= s.row.end_at}
  IN [k \in DOMAIN ends |->
        [band \in {g.display : g \in groups} |->
           {s.issue : s \in {t \in at(ends[k]) :
                               DisplayOf(groups, t.row.status) = band}}]]

-----------------------------------------------------------------------------

TimeInStatus_LastExit(issue, now, sched) ==
  LET entries == {t.at : t \in {u \in ToSet(issue.transitions) :
                                  u.from_status = issue.current_status}}
  IN WorkingSecondsBetween(Max(entries \cup {issue.created_at}), now, sched)

(* compute_wip_aging *)
TimeInStatus(issue, now, sched) ==
  LET entries == {t.at : t \in {u \in ToSet(issue.transitions) :
                                  u.to_status = issue.current_status}}
  IN WorkingSecondsBetween(Max(entries \cup {issue.created_at}), now, sched)

(* compute_issue_metrics *)
IssueMetrics(issue, slices, active, now) ==
  LET activeSeconds == MapThenSumSet(LAMBDA k : slices[k].duration_seconds,
                         {k \in DOMAIN slices : slices[k].status \in active})
      end == IF issue.done_at # Null THEN issue.done_at ELSE now
      cycle == WholeSeconds(end - issue.created_at)
  IN [cycle_seconds |-> cycle,
      active_seconds |-> activeSeconds,
      wait_seconds |-> Upper(cycle - activeSeconds, 0),
      is_done |-> issue.done_at # Null]
=============================================================================
