--------------------------- MODULE Authority_proofs ---------------------------
(***************************************************************************)
(* Types and the three properties of Authority, for any number of actors,  *)
(* tasks, querysets, instances, blocks and bypasses, in either strict      *)
(* mode.  The inductive invariant says of each queryset, wherever it came  *)
(* from, what its scope and its flags are worth (Fits), of each block what *)
(* closing it will restore (Nested), of each bypass in effect that it is a *)
(* block's and was audited (InEffect), and of a stream that it still reads *)
(* for the authority it was opened under (Streams).                        *)
(***************************************************************************)
EXTENDS Authority, SequenceTheorems, TLAPS

\* What a queryset selects when it decides for d.
Wanted(d) == IF d = Bypass THEN {} ELSE {d}

Kinds == {"block", "queryset", "instance"}

Recorded(k, rows) == \E row \in rows : row[2] = k

\* The scope a queryset has is the one its pins call for.  Only eager querysets
\* keep a scope through clones, and they are pinned by what decided it.
Decided(q) ==
    /\ q.eager => q.applied
    /\ ~q.applied => q.where = {}
    /\ q.applied /\ ~q.eager => q.used
    /\ q.applied /\ ~ScopedUnpinned(q) =>
        /\ q.reason # 0 => q.where = {}
        /\ q.reason = 0 /\ Pin(q) # Nobody => q.where = {Pin(q)}
    /\ q.eager /\ ~ScopedUnpinned(q) => q.reason # 0 \/ Pin(q) # Nobody

\* Its bypass was put on a queryset, or is a block's that it was scoped in.
Placed(q, kinds) ==
    q.reason # 0 =>
        /\ q.reason <= Len(kinds)
        /\ \/ kinds[q.reason] = "queryset"
           \/ kinds[q.reason] = "block" /\ q.eager

\* What it says of its audit is so.
Accounted(q, rows) ==
    ~q.mixed /\ q.reason # 0 /\ (q.ambient \/ q.audited) => Recorded(q.reason, rows)

\* A subquery brings the row of its bypass along.
Carries(q) ==
    \A e \in q.holds : e.entry # 0 => \E row \in e.pending : row[1] = e.entry

Fits(q, kinds, rows) ==
    q \in QuerySet /\ Decided(q) /\ Placed(q, kinds) /\ Accounted(q, rows) /\ Carries(q)

\* The bypass in a context is that of a block, which was audited on entry.
InEffect(c, kinds, rows) ==
    c.sudo # 0 => c.sudo <= Len(kinds) /\ kinds[c.sudo] = "block" /\ <<c.sudo, c.sudo>> \in rows

\* What the blocks up to the n-th have set is what c holds.
HoldsWhatIsSet(c, stack, n) ==
    \A k \in 1..n : \A v \in stack[k].sets :
        (\A j \in 1..n : j > k => v \notin stack[j].sets) => c[v] = stack[k].new[v]

Nested(t) ==
    /\ blocks[t] \in Seq(Block) /\ Len(blocks[t]) <= MaxBlocks
    /\ HoldsWhatIsSet(context[t], blocks[t], Len(blocks[t]))
    /\ \A n \in DOMAIN blocks[t] :
        /\ HoldsWhatIsSet(blocks[t][n].old, blocks[t], n - 1)
        /\ InEffect(blocks[t][n].old, opened, audits)

TasksFit ==
    /\ context \in [Tasks -> Context] /\ blocks \in [Tasks -> Seq(Block)]
    /\ \A t \in Tasks : InEffect(context[t], opened, audits) /\ Nested(t)

QuerySetsFit ==
    /\ querysets \in [QuerySets -> QuerySet]
    /\ \A n \in QuerySets : Fits(querysets[n], opened, audits)

InstanceFits(o, kinds, rows) ==
    o.reason # 0 =>
        /\ o.reason <= Len(kinds) /\ kinds[o.reason] = "instance"
        /\ o.audited => <<o.reason, o.reason>> \in rows

InstancesFit ==
    /\ instances \in [Instances -> Instance]
    /\ \A i \in Instances : InstanceFits(instances[i], opened, audits)

\* What an iterator that was called for d reads, from what q is now.
ReadsFor(q, d) ==
    /\ q.reason # 0 => d = Bypass
    /\ q.reason = 0 /\ Pin(q) # Nobody => d = Pin(q)

\* The scope of q is that of d, or one that the properties let pass.
ScopeIsFor(q, d, again) ==
    \/ q.where = Wanted(d)
    \/ ScopedUnpinned(q)
    \/ again /\ q.reason = 0 /\ Pin(q) = Nobody

StreamFits(s, q) ==
    /\ s.as \in Decisions /\ s.ready \in BOOLEAN /\ s.again \in BOOLEAN
    /\ ~q.empty /\ ReadsFor(q, s.as)
    /\ s.ready =>
        /\ q.applied /\ ScopeIsFor(q, s.as, s.again)
        /\ q.reason # 0 => q.audited \/ q.ambient

Streams == stream # NoStream => stream.of \in QuerySets /\ StreamFits(stream, querysets[stream.of])

LogsFit ==
    /\ opened \in Seq(Kinds) /\ Len(opened) <= MaxEntries
    /\ audits \subseteq Entries \X Entries

ReadsFit == ReadsFollowTheirAuthority /\ BypassesAreAudited

IInv == TasksFit /\ QuerySetsFit /\ InstancesFit /\ Streams /\ LogsFit /\ ReadsFit

-----------------------------------------------------------------------------
(* Resolution.                                                             *)

\* A pin is an actor, or there is none.
LEMMA PinIsTyped ==
    ASSUME NEW q \in QuerySet
    PROVE Pin(q) \in Actors \cup {Nobody}
BY DEF QuerySet, Pin

\* The order of resolve(): own bypass, own pin, bypass of the block, its actor.
LEMMA Resolution ==
    ASSUME NEW t \in Tasks, context[t] \in Context, NEW q \in QuerySet
    PROVE /\ EffectiveActor(t, q) \in Decisions \cup {Refused}
          /\ q.reason # 0 => EffectiveActor(t, q) = Bypass
          /\ q.reason = 0 /\ Pin(q) # Nobody => EffectiveActor(t, q) = Pin(q)
          /\ q.reason = 0 /\ Pin(q) = Nobody =>
                /\ EffectiveActor(t, q) = Bypass => context[t].sudo # 0 \/ ~Strict
                /\ EffectiveActor(t, q) = Nobody => q.aggregate
BY AuthorityAssumption, PinIsTyped
   DEF EffectiveActor, Resolve, Decisions, Context, QuerySet, Entries, AuthorityAssumption

\* The same pins resolve to the same actor.
LEMMA SamePins ==
    ASSUME NEW t, NEW q, NEW r, Pin(r) = Pin(q), r.reason = q.reason, r.aggregate = q.aggregate
    PROVE EffectiveActor(t, r) = EffectiveActor(t, q)
BY DEF EffectiveActor

-----------------------------------------------------------------------------
(* The operators on querysets.                                             *)

LEMMA ResetIsTyped ==
    ASSUME NEW q \in QuerySet
    PROVE /\ ResetScope(q) \in QuerySet
          /\ ResetScope(q) = [q EXCEPT !.where = {}, !.applied = FALSE, !.decision = Undecided]
          /\ Pin(ResetScope(q)) = Pin(q)
BY DEF QuerySet, ResetScope, Pin

\* A queryset whose scope is taken out fits again, when it is not eager.
LEMMA ResetFits ==
    ASSUME NEW q \in QuerySet, NEW kinds, NEW rows,
           Placed(q, kinds), Accounted(q, rows), Carries(q)
    PROVE /\ Placed(ResetScope(q), kinds)
          /\ Accounted(ResetScope(q), rows)
          /\ Carries(ResetScope(q))
          /\ ~q.eager => Decided(ResetScope(q))
<1>1. /\ ResetScope(q).eager = q.eager /\ ResetScope(q).reason = q.reason
      /\ ResetScope(q).mixed = q.mixed /\ ResetScope(q).ambient = q.ambient
      /\ ResetScope(q).audited = q.audited /\ ResetScope(q).holds = q.holds
      /\ ResetScope(q).applied = FALSE /\ ResetScope(q).where = {}
  BY DEF QuerySet, ResetScope
<1> QED BY <1>1 DEF Placed, Accounted, Carries, Decided

\* A clone drops the rows, and the scope unless that is eager.
LEMMA CloneFits ==
    ASSUME NEW q, NEW kinds, NEW rows, Fits(q, kinds, rows)
    PROVE /\ Fits(Clone(q), kinds, rows)
          /\ Pin(Clone(q)) = Pin(q)
          /\ \A f \in {"actor", "relation", "reason", "entry", "audited", "ambient", "mixed",
                       "eager", "aggregate", "empty", "holds"} : Clone(q)[f] = q[f]
          /\ Clone(q).used = FALSE /\ Clone(q).cache = NoRows
          /\ ~q.eager => Clone(q).applied = FALSE
<1> DEFINE copy == [q EXCEPT !.cache = NoRows, !.used = FALSE]
<1>1. q \in QuerySet BY DEF Fits
<1>2. copy \in QuerySet /\ Pin(copy) = Pin(q) BY <1>1 DEF QuerySet, Pin
<1>3. \A f \in {"actor", "relation", "reason", "entry", "audited", "ambient", "mixed",
                "eager", "aggregate", "empty", "holds", "applied", "where"} : copy[f] = q[f]
  BY <1>1 DEF QuerySet
<1>4. copy.used = FALSE /\ copy.cache = NoRows BY <1>1 DEF QuerySet
<1> HIDE DEF copy
<1>5. Clone(q) = IF q.eager THEN copy ELSE ResetScope(copy) BY DEF Clone, copy
<1>6. Placed(copy, kinds) /\ Accounted(copy, rows) /\ Carries(copy)
  BY <1>3 DEF Fits, Placed, Accounted, Carries
<1>7. CASE q.eager
  <2>1. Decided(copy) BY <1>2, <1>3, <1>7 DEF Fits, Decided, ScopedUnpinned
  <2> QED BY <2>1, <1>2, <1>3, <1>4, <1>5, <1>6, <1>7 DEF Fits
<1>8. CASE ~q.eager
  <2>1. Clone(q) = ResetScope(copy) BY <1>5, <1>8
  <2>2. Fits(Clone(q), kinds, rows) /\ Pin(Clone(q)) = Pin(q)
    BY <2>1, <1>2, <1>3, <1>6, <1>8, ResetIsTyped, ResetFits DEF Fits
  <2>3. /\ \A f \in {"actor", "relation", "reason", "entry", "audited", "ambient", "mixed",
                     "eager", "aggregate", "empty", "holds"} : ResetScope(copy)[f] = copy[f]
        /\ ResetScope(copy).used = copy.used /\ ResetScope(copy).cache = copy.cache
        /\ ResetScope(copy).applied = FALSE
    BY <1>2 DEF QuerySet, ResetScope
  <2> QED BY <2>1, <2>2, <2>3, <1>3, <1>4, <1>8
<1> QED BY <1>7, <1>8

\* Deciding changes the scope only, and does nothing to a decided queryset.
LEMMA ScopeIsApplied ==
    ASSUME NEW t \in Tasks, context[t] \in Context, NEW q \in QuerySet,
           EffectiveActor(t, q) # Refused
    PROVE /\ ApplyScope(t, q) \in QuerySet /\ ApplyScope(t, q).applied
          /\ Pin(ApplyScope(t, q)) = Pin(q)
          /\ q.applied => ApplyScope(t, q) = q
          /\ ~q.applied => ApplyScope(t, q).where = q.where \cup Wanted(EffectiveActor(t, q))
          /\ \A f \in {"actor", "relation", "reason", "entry", "audited", "ambient", "mixed",
                       "eager", "aggregate", "empty", "holds", "used", "cache"} :
                ApplyScope(t, q)[f] = q[f]
<1> DEFINE d == EffectiveActor(t, q)
<1>1. d \in Decisions BY Resolution
<1>2. d # Bypass => d \in Actors \cup {Nobody} BY <1>1 DEF Decisions
<1>3. ApplyScope(t, q) = IF q.applied THEN q
        ELSE [q EXCEPT !.applied = TRUE, !.decision = d, !.where = q.where \cup Wanted(d)]
  BY DEF ApplyScope, Wanted, QuerySet
<1> HIDE DEF d
<1>4. Wanted(d) \subseteq Actors \cup {Nobody} BY <1>2 DEF Wanted
<1>5. q.where \cup Wanted(d) \subseteq Actors \cup {Nobody} BY <1>4 DEF QuerySet
<1>6. CASE q.applied BY <1>3, <1>6
<1>7. CASE ~q.applied
  <2> DEFINE r == [q EXCEPT !.applied = TRUE, !.decision = d, !.where = q.where \cup Wanted(d)]
  <2>1. r \in QuerySet BY <1>1, <1>5 DEF QuerySet
  <2>2. Pin(r) = Pin(q) BY DEF QuerySet, Pin
  <2>3. /\ r.applied /\ r.where = q.where \cup Wanted(d)
        /\ \A f \in {"actor", "relation", "reason", "entry", "audited", "ambient", "mixed",
                     "eager", "aggregate", "empty", "holds", "used", "cache"} : r[f] = q[f]
    BY DEF QuerySet
  <2> QED BY <1>3, <1>7, <2>1, <2>2, <2>3 DEF d
<1> QED BY <1>6, <1>7

\* The row that is written, and the flag that remembers it.
LEMMA AuditIsTyped ==
    ASSUME NEW t \in Tasks, NEW q \in QuerySet
    PROVE /\ AuditBypassOnce(t, q) \in QuerySet
          /\ Pin(AuditBypassOnce(t, q)) = Pin(q)
          /\ AuditBypassOnce(t, q).audited = (q.audited \/ Owes(t, q))
          /\ \A f \in {"actor", "relation", "reason", "entry", "ambient", "mixed", "eager",
                       "aggregate", "empty", "holds", "used", "cache", "where", "applied"} :
                AuditBypassOnce(t, q)[f] = q[f]
          /\ DirectRows(t, q) \subseteq Entries \X Entries
<1>1. Owes(t, q) \in BOOLEAN /\ q.audited \in BOOLEAN /\ q.entry \in Entries /\ q.reason \in Entries
  BY DEF Owes, QuerySet
<1>2. AuditBypassOnce(t, q) = [q EXCEPT !.audited = q.audited \/ Owes(t, q)]
  BY DEF AuditBypassOnce
<1>3. (q.audited \/ Owes(t, q)) \in BOOLEAN BY <1>1
<1>4. DirectRows(t, q) \subseteq Entries \X Entries BY <1>1 DEF DirectRows, BypassRows
<1> QED BY <1>2, <1>3, <1>4 DEF QuerySet, Pin

LEMMA AuditIsKept ==
    ASSUME NEW t \in Tasks, NEW q \in QuerySet, NEW rows, Accounted(q, rows)
    PROVE /\ Accounted(AuditBypassOnce(t, q), rows \cup DirectRows(t, q))
          /\ q.reason # 0 /\ ~q.mixed => Recorded(q.reason, rows \cup DirectRows(t, q))
<1>1. ~q.audited /\ Owes(t, q) => Recorded(q.reason, DirectRows(t, q))
  BY DEF DirectRows, BypassRows, Recorded
<1>2. q.reason # 0 /\ ~q.ambient => Owes(t, q) BY DEF Owes
<1>3. \A k : Recorded(k, rows) \/ Recorded(k, DirectRows(t, q)) =>
                Recorded(k, rows \cup DirectRows(t, q))
  BY DEF Recorded
<1> QED BY <1>1, <1>2, <1>3, AuditIsTyped DEF Accounted, QuerySet

\* Opening bypasses and writing rows takes nothing from what fits.
LEMMA FitsStill ==
    ASSUME NEW q, NEW kinds \in Seq(Kinds), NEW more, NEW rows, NEW written,
           Fits(q, kinds, rows), more = kinds \/ \E k \in Kinds : more = Append(kinds, k),
           rows \subseteq written
    PROVE Fits(q, more, written)
<1>1. q.reason \in Nat BY AuthorityAssumption DEF Fits, QuerySet, Entries, AuthorityAssumption
<1>2. /\ Len(kinds) <= Len(more)
      /\ \A i \in 1..Len(kinds) : more[i] = kinds[i]
  OBVIOUS
<1>3. Placed(q, more) BY <1>1, <1>2 DEF Fits, Placed
<1>4. Accounted(q, written) BY DEF Fits, Accounted, Recorded
<1> QED BY <1>3, <1>4 DEF Fits

Evaluated(t, q) == [AuditBypassOnce(t, ApplyScope(t, q)) EXCEPT !.used = TRUE]

\* What the first part of an evaluation leaves: a scope for the actor that is
\* stamped, unless the queryset was used before or is one of the two exceptions.
LEMMA EvaluationFits ==
    ASSUME NEW t \in Tasks, context[t] \in Context, NEW q, NEW kinds, NEW rows,
           Fits(q, kinds, rows), EffectiveActor(t, q) # Refused
    PROVE /\ Fits(Evaluated(t, q), kinds, rows \cup DirectRows(t, q))
          /\ Pin(Evaluated(t, q)) = Pin(q) /\ Evaluated(t, q).applied /\ Evaluated(t, q).used
          /\ \A f \in {"actor", "relation", "reason", "entry", "ambient", "mixed",
                       "eager", "aggregate", "empty", "holds", "cache"} : Evaluated(t, q)[f] = q[f]
          /\ ReadsFor(Evaluated(t, q), EffectiveActor(t, q))
          /\ ScopeIsFor(Evaluated(t, q), EffectiveActor(t, q), q.used)
          /\ Evaluated(t, q).where = {} =>
                \/ q.reason # 0 \/ context[t].sudo # 0 \/ q.used
                \/ ~Strict \/ ScopedUnpinned(Evaluated(t, q))
          /\ q.reason # 0 => Evaluated(t, q).audited \/ q.ambient
          /\ q.reason # 0 /\ ~q.mixed => Recorded(q.reason, rows \cup DirectRows(t, q))
<1> DEFINE d == EffectiveActor(t, q)
           a == ApplyScope(t, q)
           r == Evaluated(t, q)
<1>1. q \in QuerySet /\ Decided(q) /\ Placed(q, kinds) /\ Accounted(q, rows) /\ Carries(q)
  BY DEF Fits
<1>2. /\ a \in QuerySet /\ a.applied /\ Pin(a) = Pin(q)
      /\ q.applied => a = q
      /\ ~q.applied => a.where = q.where \cup Wanted(d)
      /\ \A f \in {"actor", "relation", "reason", "entry", "audited", "ambient", "mixed",
                   "eager", "aggregate", "empty", "holds", "used", "cache"} : a[f] = q[f]
  BY <1>1, ScopeIsApplied
<1> HIDE DEF a
<1>3. DirectRows(t, a) = DirectRows(t, q) /\ Owes(t, a) = Owes(t, q)
  BY <1>2 DEF DirectRows, BypassRows, Owes
<1>4. Accounted(a, rows) BY <1>1, <1>2 DEF Accounted
<1> DEFINE b == AuditBypassOnce(t, a)
<1>5. /\ b \in QuerySet /\ Pin(b) = Pin(a)
      /\ \A f \in {"actor", "relation", "reason", "entry", "ambient", "mixed", "eager",
                   "aggregate", "empty", "holds", "used", "cache", "where", "applied"} : b[f] = a[f]
  BY <1>2, AuditIsTyped
<1>6. /\ Accounted(b, rows \cup DirectRows(t, q))
      /\ a.reason # 0 /\ ~a.mixed => Recorded(a.reason, rows \cup DirectRows(t, q))
  BY <1>2, <1>3, <1>4, AuditIsKept
<1>7. r = [b EXCEPT !.used = TRUE] BY DEF a, Evaluated
<1> HIDE DEF b, r
<1>8. /\ r \in QuerySet /\ Pin(r) = Pin(b) /\ r.used
      /\ \A f \in {"actor", "relation", "reason", "entry", "ambient", "mixed", "eager", "audited",
                   "aggregate", "empty", "holds", "cache", "where", "applied"} : r[f] = b[f]
  BY <1>5, <1>7 DEF QuerySet, Pin
<1>9. /\ Pin(r) = Pin(q) /\ r.applied /\ r.used
      /\ \A f \in {"actor", "relation", "reason", "entry", "ambient", "mixed",
                   "eager", "aggregate", "empty", "holds", "cache"} : r[f] = q[f]
      /\ r.where = IF q.applied THEN q.where ELSE Wanted(d)
  BY <1>1, <1>2, <1>5, <1>8 DEF Decided
<1>10. ScopedUnpinned(r) = ScopedUnpinned(q) BY <1>9 DEF ScopedUnpinned
<1>11. /\ ReadsFor(q, d) /\ d \in Decisions
       /\ q.reason = 0 /\ Pin(q) = Nobody /\ d = Bypass => context[t].sudo # 0 \/ ~Strict
       /\ Pin(q) \in Actors \cup {Nobody} /\ Pin(q) # Bypass
  BY <1>1, Resolution, PinIsTyped, AuthorityAssumption DEF ReadsFor, AuthorityAssumption
<1> HIDE DEF d
<1>12. ReadsFor(r, d) BY <1>9, <1>11 DEF ReadsFor
<1>13. ScopeIsFor(r, d, q.used)
  BY <1>1, <1>9, <1>10, <1>11 DEF ScopeIsFor, Decided, ReadsFor, Wanted
<1>14. Decided(r)
  BY <1>1, <1>9, <1>10, <1>11 DEF Decided, ReadsFor, Wanted
<1>15. r.where = {} => \/ q.reason # 0 \/ context[t].sudo # 0 \/ q.used
                       \/ ~Strict \/ ScopedUnpinned(r)
  BY <1>1, <1>9, <1>10, <1>11 DEF Decided, ReadsFor, Wanted
<1>16. Placed(r, kinds) /\ Carries(r) BY <1>1, <1>9 DEF Placed, Carries
<1>17. Accounted(r, rows \cup DirectRows(t, q)) BY <1>6, <1>8 DEF Accounted
<1>18. q.reason # 0 => r.audited \/ q.ambient
  <2>1. b.audited = (a.audited \/ Owes(t, a)) BY <1>2, AuditIsTyped DEF b
  <2> QED BY <1>2, <1>3, <1>8, <2>1 DEF Owes
<1> QED BY <1>2, <1>5, <1>6, <1>8, <1>9, <1>12, <1>13, <1>14, <1>15, <1>16, <1>17, <1>18 DEF Fits, d, r

\* A queryset that is given other pins fits after the refresh, if its reason
\* and flags were given together and an eager one was left something to go by.
LEMMA RefreshFits ==
    ASSUME NEW t \in Tasks, context[t] \in Context, NEW q \in QuerySet, NEW kinds, NEW rows,
           Placed(q, kinds), Accounted(q, rows), Carries(q),
           q.eager => EffectiveActor(t, q) # Refused,
           q.eager => ScopedUnpinned(q) \/ q.reason # 0 \/ Pin(q) # Nobody,
           NEW r, r = IF q.eager THEN AuditBypassOnce(t, RefreshScope(t, q)) ELSE RefreshScope(t, q)
    PROVE /\ Fits(r, kinds, rows \cup IF q.eager THEN DirectRows(t, q) ELSE {})
          /\ (IF q.eager THEN DirectRows(t, q) ELSE {}) \subseteq Entries \X Entries
<1> DEFINE z == ResetScope(q)
<1>1. /\ z \in QuerySet /\ Pin(z) = Pin(q)
      /\ Placed(z, kinds) /\ Accounted(z, rows) /\ Carries(z)
      /\ ~q.eager => Decided(z)
  BY ResetIsTyped, ResetFits
<1>2. /\ z.applied = FALSE /\ z.where = {}
      /\ \A f \in {"actor", "relation", "reason", "entry", "audited", "ambient", "mixed",
                   "eager", "aggregate", "empty", "holds", "used", "cache"} : z[f] = q[f]
  BY DEF QuerySet, ResetScope
<1>3. RefreshScope(t, q) = IF q.eager THEN ApplyScope(t, z) ELSE z BY DEF RefreshScope
<1> HIDE DEF z
<1>4. CASE ~q.eager BY <1>1, <1>3, <1>4 DEF Fits
<1>5. CASE q.eager
  <2> DEFINE a == ApplyScope(t, z)
             d == EffectiveActor(t, z)
  <2>1. d = EffectiveActor(t, q) BY <1>1, <1>2, SamePins
  <2>2. /\ a \in QuerySet /\ a.applied /\ Pin(a) = Pin(z)
        /\ a.where = Wanted(d)
        /\ \A f \in {"actor", "relation", "reason", "entry", "audited", "ambient", "mixed",
                     "eager", "aggregate", "empty", "holds", "used", "cache"} : a[f] = z[f]
    BY <1>1, <1>2, <1>5, <2>1, ScopeIsApplied
  <2>3. ReadsFor(q, d) /\ Pin(q) # Bypass
    BY <2>1, Resolution, PinIsTyped, AuthorityAssumption DEF ReadsFor, AuthorityAssumption
  <2> HIDE DEF d
  <2>4. r = AuditBypassOnce(t, a) BY <1>3, <1>5
  <2> HIDE DEF a
  <2>5. DirectRows(t, a) = DirectRows(t, q) BY <1>2, <2>2 DEF DirectRows, BypassRows, Owes
  <2>6. /\ r \in QuerySet /\ Pin(r) = Pin(a)
        /\ \A f \in {"actor", "relation", "reason", "entry", "ambient", "mixed", "eager",
                     "aggregate", "empty", "holds", "used", "cache", "where", "applied"} : r[f] = a[f]
        /\ DirectRows(t, a) \subseteq Entries \X Entries
    BY <2>2, <2>4, AuditIsTyped
  <2>7. Accounted(a, rows) BY <1>1, <2>2 DEF Accounted
  <2>8. Accounted(r, rows \cup DirectRows(t, q)) BY <2>2, <2>4, <2>5, <2>7, AuditIsKept
  <2>9. /\ Pin(r) = Pin(q) /\ r.where = Wanted(d) /\ r.applied
        /\ r.eager = q.eager /\ r.aggregate = q.aggregate /\ r.reason = q.reason /\ r.holds = q.holds
    BY <1>1, <1>2, <2>2, <2>6
  <2>10. Decided(r) BY <1>5, <2>3, <2>9 DEF Decided, ReadsFor, Wanted, ScopedUnpinned
  <2>11. Placed(r, kinds) /\ Carries(r) BY <2>9 DEF Placed, Carries
  <2> QED BY <1>5, <2>5, <2>6, <2>8, <2>10, <2>11 DEF Fits
<1> QED BY <1>4, <1>5

-----------------------------------------------------------------------------
(* What a step leaves alone.                                               *)

\* Bypasses are opened and rows written; neither is taken back.
Grows ==
    /\ LogsFit'
    /\ opened' = opened \/ \E k \in Kinds : opened' = Append(opened, k)
    /\ audits \subseteq audits'

LEMMA NothingIsLogged ==
    ASSUME IInv, UNCHANGED <<opened, audits>> PROVE Grows
BY DEF IInv, LogsFit, Grows

LEMMA RowsAreAdded ==
    ASSUME IInv, UNCHANGED opened, NEW rows \in SUBSET (Entries \X Entries), audits' = audits \cup rows
    PROVE Grows
BY DEF IInv, LogsFit, Grows

\* The bypass that is opened next, and the row that may go with it.
LEMMA BypassIsOpened ==
    ASSUME IInv, NEW k \in Kinds, OpenBypass(k),
           NEW rows \in SUBSET (Entries \X Entries), audits' = audits \cup rows
    PROVE /\ Grows
          /\ Bypassed + 1 \in Entries /\ Bypassed + 1 # 0
          /\ Bypassed + 1 <= Len(opened') /\ opened'[Bypassed + 1] = k
<1>1. opened \in Seq(Kinds) /\ Len(opened) \in Nat /\ MaxEntries \in Nat
  BY AuthorityAssumption DEF IInv, LogsFit, AuthorityAssumption
<1>2. opened' = Append(opened, k) /\ Len(opened) < MaxEntries BY DEF OpenBypass
<1>3. /\ opened' \in Seq(Kinds) /\ Len(opened') = Len(opened) + 1
      /\ opened'[Len(opened) + 1] = k
  BY <1>1, <1>2, AppendProperties
<1>4. audits' \subseteq Entries \X Entries BY DEF IInv, LogsFit
<1> QED BY <1>1, <1>2, <1>3, <1>4 DEF Grows, LogsFit, Entries, Bypassed

LEMMA BlockIsAudited ==
    ASSUME IInv, OpenBypass("block"), audits' = audits \cup {<<Bypassed + 1, Bypassed + 1>>}
    PROVE /\ Grows
          /\ Bypassed + 1 \in Entries
          /\ Bypassed + 1 <= Len(opened') /\ opened'[Bypassed + 1] = "block"
          /\ <<Bypassed + 1, Bypassed + 1>> \in audits'
<1> DEFINE k == Bypassed + 1
<1>1. k \in Entries
  BY AuthorityAssumption DEF OpenBypass, IInv, LogsFit, Entries, Bypassed, AuthorityAssumption
<1>2. {<<k, k>>} \in SUBSET (Entries \X Entries) BY <1>1
<1>3. "block" \in Kinds BY DEF Kinds
<1>4. audits' = audits \cup {<<k, k>>} OBVIOUS
<1>5. <<k, k>> \in audits' BY <1>4
<1> QED BY <1>1, <1>2, <1>3, <1>4, <1>5, BypassIsOpened

LEMMA EffectLasts ==
    ASSUME IInv, Grows, NEW c \in Context, InEffect(c, opened, audits)
    PROVE InEffect(c, opened', audits')
<1>1. opened \in Seq(Kinds) BY DEF IInv, LogsFit
<1>2. c.sudo \in Nat BY AuthorityAssumption DEF Context, Entries, AuthorityAssumption
<1> QED BY <1>1, <1>2 DEF InEffect, Grows

LEMMA BlockIsTyped ==
    ASSUME NEW stack \in Seq(Block), NEW n \in DOMAIN stack
    PROVE /\ stack[n] \in Block /\ stack[n].new \in Context /\ stack[n].old \in Context
          /\ stack[n].sets \in SUBSET {"actor", "sudo"}
<1>1. stack[n] \in Block OBVIOUS
<1> QED BY <1>1 DEF Block

LEMMA TasksStay ==
    ASSUME IInv, Grows, UNCHANGED <<context, blocks>>
    PROVE TasksFit'
<1>1. \A t \in Tasks : context[t] \in Context BY DEF IInv, TasksFit
<1>2. ASSUME NEW t \in Tasks PROVE InEffect(context'[t], opened', audits') /\ Nested(t)'
  <2>1. InEffect(context[t], opened, audits) /\ Nested(t) BY DEF IInv, TasksFit
  <2>2. \A n \in DOMAIN blocks[t] : blocks[t][n].old \in Context
    BY <2>1, BlockIsTyped DEF Nested
  <2>3. \A n \in DOMAIN blocks[t] : InEffect(blocks[t][n].old, opened', audits')
    BY <2>1, <2>2, EffectLasts DEF Nested
  <2> QED BY <1>1, <2>1, <2>3, EffectLasts DEF Nested
<1> QED BY <1>2 DEF IInv, TasksFit

LEMMA QuerySetsStay ==
    ASSUME IInv, Grows, NEW q, Fits(q, opened, audits)
    PROVE Fits(q, opened', audits')
BY FitsStill DEF IInv, LogsFit, Grows

LEMMA QuerySetsAreLeft ==
    ASSUME IInv, Grows, UNCHANGED querysets
    PROVE QuerySetsFit'
BY QuerySetsStay DEF IInv, QuerySetsFit

LEMMA OneQuerySetChanges ==
    ASSUME IInv, Grows, NEW n \in QuerySets, NEW q, Fits(q, opened', audits'),
           querysets' = [querysets EXCEPT ![n] = q]
    PROVE QuerySetsFit' /\ querysets'[n] = q
<1>1. querysets \in [QuerySets -> QuerySet] BY DEF IInv, QuerySetsFit
<1>2. q \in QuerySet BY DEF Fits
<1>3. \A m \in QuerySets : querysets'[m] = IF m = n THEN q ELSE querysets[m] BY <1>1
<1>4. \A m \in QuerySets : Fits(querysets[m], opened', audits')
  BY QuerySetsStay DEF IInv, QuerySetsFit
<1> QED BY <1>1, <1>2, <1>3, <1>4 DEF QuerySetsFit

LEMMA PinsStay ==
    ASSUME IInv, Grows, NEW o \in Instance, InstanceFits(o, opened, audits)
    PROVE InstanceFits(o, opened', audits')
<1>1. opened \in Seq(Kinds) BY DEF IInv, LogsFit
<1>2. o.reason \in Nat BY AuthorityAssumption DEF Instance, Entries, AuthorityAssumption
<1> QED BY <1>1, <1>2 DEF InstanceFits, Grows

LEMMA InstancesAreLeft ==
    ASSUME IInv, Grows, UNCHANGED instances
    PROVE InstancesFit'
BY PinsStay DEF IInv, InstancesFit

LEMMA OneInstanceChanges ==
    ASSUME IInv, Grows, NEW i \in Instances, NEW o \in Instance, InstanceFits(o, opened', audits'),
           instances' = [instances EXCEPT ![i] = o]
    PROVE InstancesFit'
<1>1. instances \in [Instances -> Instance] BY DEF IInv, InstancesFit
<1>2. \A j \in Instances : instances'[j] = IF j = i THEN o ELSE instances[j] BY <1>1
<1>3. \A j \in Instances : InstanceFits(instances[j], opened', audits')
  BY PinsStay DEF IInv, InstancesFit
<1> QED BY <1>1, <1>2, <1>3 DEF InstancesFit

\* A stream is not disturbed by other querysets, nor by an evaluation of its own.
LEMMA StreamGoesOn ==
    ASSUME IInv, UNCHANGED stream, NEW n \in QuerySets, NEW q, querysets' = [querysets EXCEPT ![n] = q],
           stream # NoStream /\ stream.of = n =>
               /\ \A f \in {"reason", "empty", "eager", "aggregate", "ambient"} :
                        q[f] = querysets[n][f]
               /\ Pin(q) = Pin(querysets[n])
               /\ querysets[n].audited => q.audited
               /\ querysets[n].applied => q.applied /\ q.where = querysets[n].where
    PROVE Streams'
<1>1. querysets \in [QuerySets -> QuerySet] BY DEF IInv, QuerySetsFit
<1>2. SUFFICES ASSUME stream # NoStream
               PROVE stream.of \in QuerySets /\ StreamFits(stream, querysets'[stream.of])
  BY DEF Streams
<1>3. stream.of \in QuerySets /\ StreamFits(stream, querysets[stream.of])
  BY <1>2 DEF IInv, Streams
<1>4. CASE stream.of # n BY <1>1, <1>3, <1>4
<1>5. CASE stream.of = n
  <2> DEFINE p == querysets[n]
  <2>1. querysets'[stream.of] = q BY <1>1, <1>5
  <2>2. StreamFits(stream, p) BY <1>3, <1>5
  <2>3. /\ q.reason = p.reason /\ q.empty = p.empty /\ Pin(q) = Pin(p)
        /\ q.ambient = p.ambient /\ (p.audited => q.audited)
        /\ ScopedUnpinned(q) = ScopedUnpinned(p)
        /\ p.applied => q.applied /\ q.where = p.where
    BY <1>2, <1>5 DEF ScopedUnpinned
  <2> HIDE DEF p
  <2>4. StreamFits(stream, q) BY <2>2, <2>3 DEF StreamFits, ReadsFor, ScopeIsFor
  <2> QED BY <1>3, <2>1, <2>4
<1> QED BY <1>4, <1>5

LEMMA StreamIsLeft ==
    ASSUME IInv, UNCHANGED <<stream, querysets>> PROVE Streams'
BY DEF IInv, Streams

LEMMA NothingIsRead ==
    ASSUME read' = NoRead PROVE ReadsFit'
BY DEF ReadsFit, ReadsFollowTheirAuthority, PinsOutrankTheBlocks, RowsAreReadForTheirActor,
       ElevationNeedsABypass, BypassesAreAudited, ElevatedReadsAreAudited, EmbeddedBypassesAreAudited

\* The statement of a queryset whose scope is for the actor who is stamped.
LEMMA StatementFits ==
    ASSUME NEW s, read' = s, s.rows = s.of.where, s.of \in QuerySet,
           ReadsFor(s.of, s.as), ScopeIsFor(s.of, s.as, s.again),
           s.of.where = {} =>
                \/ s.of.reason # 0 \/ s.context.sudo # 0 \/ s.again
                \/ s.streamed /\ s.as = Bypass
                \/ ~Strict \/ ScopedUnpinned(s.of),
           s.context.sudo # 0 => <<s.context.sudo, s.context.sudo>> \in audits',
           s.of.reason # 0 /\ ~s.of.mixed => Recorded(s.of.reason, audits'),
           \A e \in s.of.holds : e.entry # 0 => \E row \in s.wrote : row[1] = e.entry
    PROVE ReadsFit'
<1>1. Pin(s.of) \in Actors \cup {Nobody} /\ Pin(s.of) # Bypass
  BY PinIsTyped, AuthorityAssumption DEF AuthorityAssumption
<1>2. PinsOutrankTheBlocks'
  BY <1>1 DEF PinsOutrankTheBlocks, ReadsFor, ScopeIsFor, Wanted
<1>3. RowsAreReadForTheirActor' BY DEF RowsAreReadForTheirActor, ScopeIsFor, Wanted
<1>4. ElevationNeedsABypass' BY DEF ElevationNeedsABypass
<1>5. ElevatedReadsAreAudited' BY DEF ElevatedReadsAreAudited, Recorded
<1>6. EmbeddedBypassesAreAudited' BY DEF EmbeddedBypassesAreAudited
<1> QED BY <1>2, <1>3, <1>4, <1>5, <1>6 DEF ReadsFit, ReadsFollowTheirAuthority, BypassesAreAudited

\* What an execution writes for the subquery it renders.
LEMMA PendingIsWritten ==
    ASSUME NEW q \in QuerySet, Carries(q)
    PROVE /\ PendingRows(q) \subseteq Entries \X Entries
          /\ ~q.empty => \A e \in q.holds : e.entry # 0 => \E row \in PendingRows(q) : row[1] = e.entry
<1>1. \A e \in q.holds : e.pending \subseteq Entries \X Entries BY DEF QuerySet, Embedded
<1> QED BY <1>1 DEF PendingRows, Carries

-----------------------------------------------------------------------------
(* Blocks.                                                                 *)

\* What is held of a stack is held of the same blocks under another one.
LEMMA BlocksBelowStay ==
    ASSUME NEW c, NEW stack, NEW other, NEW n \in Nat,
           \A k \in 1..n : other[k] = stack[k], HoldsWhatIsSet(c, stack, n)
    PROVE HoldsWhatIsSet(c, other, n)
BY DEF HoldsWhatIsSet

LEMMA OtherStacksStay ==
    ASSUME IInv, Grows, NEW u \in Tasks, context'[u] = context[u], blocks'[u] = blocks[u]
    PROVE Nested(u)'
<1>1. Nested(u) BY DEF IInv, TasksFit
<1>2. \A k \in DOMAIN blocks[u] : InEffect(blocks[u][k].old, opened', audits')
  BY <1>1, BlockIsTyped, EffectLasts DEF Nested
<1> QED BY <1>1, <1>2 DEF Nested

\* Opening a block: what it does not set is kept.
LEMMA OpeningFits ==
    ASSUME IInv, Grows, NEW t \in Tasks, NEW sets \in SUBSET {"actor", "sudo"}, NEW new \in Context,
           Open(t, sets, new), InEffect(new, opened', audits'),
           \A v \in {"actor", "sudo"} : v \in sets \/ new[v] = context[t][v]
    PROVE TasksFit'
<1> DEFINE stack == blocks[t]
           b == [sets |-> sets, new |-> new, old |-> context[t]]
           n == Len(stack)
<1>1. /\ context \in [Tasks -> Context] /\ context[t] \in Context
      /\ blocks \in [Tasks -> Seq(Block)]
      /\ \A u \in Tasks : Nested(u) /\ InEffect(context[u], opened, audits)
  BY DEF IInv, TasksFit
<1>2. /\ stack \in Seq(Block) /\ n \in Nat /\ n < MaxBlocks /\ MaxBlocks \in Nat
  BY <1>1, AuthorityAssumption DEF Nested, Open, AuthorityAssumption
<1>3. b \in Block BY <1>1 DEF Block
<1>4. /\ context' = [context EXCEPT ![t] = new]
      /\ blocks' = [blocks EXCEPT ![t] = Append(stack, b)]
  BY DEF Open
<1>5. /\ context' \in [Tasks -> Context] /\ context'[t] = new
      /\ \A u \in Tasks \ {t} : context'[u] = context[u] /\ blocks'[u] = blocks[u]
      /\ blocks' \in [Tasks -> Seq(Block)] /\ blocks'[t] = Append(stack, b)
  BY <1>1, <1>2, <1>3, <1>4
<1>6. \A u \in Tasks : InEffect(context'[u], opened', audits')
  BY <1>1, <1>5, EffectLasts
<1>7. ASSUME NEW u \in Tasks \ {t} PROVE Nested(u)'
  BY <1>1, <1>5, OtherStacksStay
<1>8. Nested(t)'
  <2> DEFINE more == Append(stack, b)
  <2>1. /\ more \in Seq(Block) /\ Len(more) = n + 1 /\ more[n + 1] = b
        /\ \A k \in 1..n : more[k] = stack[k]
        /\ DOMAIN more = 1..(n + 1) /\ DOMAIN stack = 1..n
    BY <1>2, <1>3, AppendProperties
  <2>2. Nested(t) BY <1>1
  <2>3. /\ b.sets = sets /\ b.new = new /\ b.old = context[t] OBVIOUS
  <2> HIDE DEF b
  <2> HIDE DEF more
  <2>4. HoldsWhatIsSet(context[t], more, n)
    BY <1>2, <2>1, <2>2, BlocksBelowStay DEF Nested
  <2>5. HoldsWhatIsSet(new, more, n + 1)
    <3>1. SUFFICES ASSUME NEW k \in 1..(n + 1), NEW v \in more[k].sets,
                          \A j \in 1..(n + 1) : j > k => v \notin more[j].sets
                   PROVE new[v] = more[k].new[v]
      BY DEF HoldsWhatIsSet
    <3>2. CASE k = n + 1 BY <2>1, <2>3, <3>2
    <3>3. CASE k \in 1..n
      <4>1. n + 1 \in 1..(n + 1) /\ n + 1 > k BY <1>2, <3>3
      <4>2. v \notin sets BY <2>1, <2>3, <3>1, <4>1
      <4>3. v \in {"actor", "sudo"} BY <1>2, <2>1, <3>3, BlockIsTyped
      <4>4. \A j \in 1..n : j > k => v \notin more[j].sets BY <1>2, <3>1
      <4>5. context[t][v] = more[k].new[v] BY <2>4, <3>1, <3>3, <4>4 DEF HoldsWhatIsSet
      <4> QED BY <4>2, <4>3, <4>5
    <3> QED BY <1>2, <3>2, <3>3
  <2>6. ASSUME NEW k \in DOMAIN more
        PROVE /\ HoldsWhatIsSet(more[k].old, more, k - 1)
              /\ InEffect(more[k].old, opened', audits')
    <3>1. CASE k = n + 1
      <4>1. more[k].old = context[t] /\ k - 1 = n BY <1>2, <2>1, <2>3, <3>1
      <4>2. InEffect(context[t], opened', audits') BY <1>1, EffectLasts
      <4> QED BY <2>4, <4>1, <4>2
    <3>2. CASE k \in 1..n
      <4>1. k \in DOMAIN stack /\ more[k] = stack[k] /\ k - 1 \in Nat BY <1>2, <2>1, <3>2
      <4>2. /\ HoldsWhatIsSet(stack[k].old, stack, k - 1)
            /\ InEffect(stack[k].old, opened, audits)
        BY <2>2, <4>1 DEF Nested
      <4>3. \A j \in 1..(k - 1) : more[j] = stack[j] BY <1>2, <2>1, <3>2
      <4>4. HoldsWhatIsSet(stack[k].old, more, k - 1) BY <4>1, <4>2, <4>3, BlocksBelowStay
      <4>5. InEffect(stack[k].old, opened', audits')
        BY <1>2, <4>1, <4>2, BlockIsTyped, EffectLasts
      <4> QED BY <4>1, <4>4, <4>5
    <3> QED BY <1>2, <2>1, <3>1, <3>2
  <2>7. blocks'[t] = more /\ context'[t] = new BY <1>5 DEF more, b
  <2> QED BY <1>2, <2>1, <2>5, <2>6, <2>7 DEF Nested
<1> QED BY <1>5, <1>6, <1>7, <1>8 DEF TasksFit

\* Closing a block: what it had set is put back as the blocks below had it.
LEMMA ClosingFits ==
    ASSUME IInv, NEW t \in Tasks, Close(t)
    PROVE TasksFit'
<1> DEFINE stack == blocks[t]
           n == Len(stack)
           b == stack[n]
           new == Restored(b, context[t])
<1>1. /\ context \in [Tasks -> Context] /\ context[t] \in Context
      /\ blocks \in [Tasks -> Seq(Block)] /\ stack \in Seq(Block)
      /\ \A u \in Tasks : Nested(u) /\ InEffect(context[u], opened, audits)
      /\ stack # << >> /\ Grows
  BY NothingIsLogged DEF IInv, TasksFit, Close
<1>2. /\ n \in Nat \ {0} /\ n \in DOMAIN stack /\ DOMAIN stack = 1..n /\ n <= MaxBlocks
      /\ Last(stack) = b /\ Front(stack) = SubSeq(stack, 1, n - 1)
      /\ MaxBlocks \in Nat
  BY <1>1, AuthorityAssumption DEF Last, Front, Nested, AuthorityAssumption
<1>3. /\ Front(stack) \in Seq(Block) /\ Len(Front(stack)) = n - 1
      /\ \A k \in 1..(n - 1) : Front(stack)[k] = stack[k]
      /\ DOMAIN Front(stack) = 1..(n - 1)
  <2>1. 1 \in 1..n + 1 /\ n - 1 \in 0..n BY <1>2
  <2> QED BY <1>1, <1>2, <2>1, SubSeqProperties
<1>4. /\ b \in Block /\ b.old \in Context /\ b.sets \in SUBSET {"actor", "sudo"}
      /\ InEffect(b.old, opened, audits) /\ HoldsWhatIsSet(b.old, stack, n - 1)
      /\ HoldsWhatIsSet(context[t], stack, n)
  BY <1>1, <1>2, BlockIsTyped DEF Nested
<1>5. /\ context' = [context EXCEPT ![t] = new]
      /\ blocks' = [blocks EXCEPT ![t] = Front(stack)]
  BY <1>2 DEF Close
<1>6. /\ new \in Context
      /\ \A v \in {"actor", "sudo"} : new[v] = IF v \in b.sets THEN b.old[v] ELSE context[t][v]
  BY <1>1, <1>4 DEF Restored, Context
<1>7. InEffect(new, opened', audits')
  <2>1. InEffect(b.old, opened', audits') /\ InEffect(context[t], opened', audits')
    BY <1>1, <1>4, EffectLasts
  <2> QED BY <1>6, <2>1 DEF InEffect
<1> HIDE DEF new
<1>8. /\ context' \in [Tasks -> Context] /\ context'[t] = new
      /\ blocks' \in [Tasks -> Seq(Block)] /\ blocks'[t] = Front(stack)
      /\ \A u \in Tasks \ {t} : context'[u] = context[u] /\ blocks'[u] = blocks[u]
  BY <1>1, <1>3, <1>5, <1>6
<1>9. \A u \in Tasks : InEffect(context'[u], opened', audits')
  BY <1>1, <1>7, <1>8, EffectLasts
<1>10. ASSUME NEW u \in Tasks \ {t} PROVE Nested(u)'
  BY <1>1, <1>8, OtherStacksStay
<1>11. Nested(t)'
  <2> DEFINE less == Front(stack)
  <2> HIDE DEF less
  <2>1. less \in Seq(Block) /\ Len(less) = n - 1 /\ DOMAIN less = 1..(n - 1)
        /\ \A k \in 1..(n - 1) : less[k] = stack[k]
    BY <1>3 DEF less
  <2>2. HoldsWhatIsSet(new, less, n - 1)
    <3>1. SUFFICES ASSUME NEW k \in 1..(n - 1), NEW v \in less[k].sets,
                          \A j \in 1..(n - 1) : j > k => v \notin less[j].sets
                   PROVE new[v] = less[k].new[v]
      BY DEF HoldsWhatIsSet
    <3>2. /\ k \in 1..n /\ k \in DOMAIN stack /\ less[k] = stack[k]
          /\ v \in stack[k].sets
          /\ \A j \in 1..(n - 1) : j > k => v \notin stack[j].sets
      BY <1>2, <2>1, <3>1
    <3>3. v \in {"actor", "sudo"} BY <1>1, <3>2, BlockIsTyped
    <3>4. CASE v \in b.sets
      <4>1. b.old[v] = stack[k].new[v] BY <1>4, <3>2 DEF HoldsWhatIsSet
      <4> QED BY <1>6, <3>2, <3>3, <3>4, <4>1
    <3>5. CASE v \notin b.sets
      <4>1. \A j \in 1..n : j > k => v \notin stack[j].sets
        <5>1. \A j \in 1..n : j = n \/ j \in 1..(n - 1) BY <1>2
        <5> QED BY <3>2, <3>5, <5>1
      <4>2. context[t][v] = stack[k].new[v] BY <1>4, <3>2, <4>1 DEF HoldsWhatIsSet
      <4> QED BY <1>6, <3>2, <3>3, <3>5, <4>2
    <3> QED BY <3>4, <3>5
  <2>3. ASSUME NEW k \in DOMAIN less
        PROVE /\ HoldsWhatIsSet(less[k].old, less, k - 1)
              /\ InEffect(less[k].old, opened', audits')
    <3>1. k \in DOMAIN stack /\ less[k] = stack[k] /\ k - 1 \in Nat /\ k - 1 <= n - 1
      BY <1>2, <2>1
    <3>2. HoldsWhatIsSet(stack[k].old, stack, k - 1) /\ InEffect(stack[k].old, opened, audits)
      BY <1>1, <3>1 DEF Nested
    <3>3. \A j \in 1..(k - 1) : less[j] = stack[j] BY <1>2, <2>1, <3>1
    <3>4. HoldsWhatIsSet(stack[k].old, less, k - 1) BY <3>1, <3>2, <3>3, BlocksBelowStay
    <3>5. InEffect(stack[k].old, opened', audits')
      BY <1>1, <3>1, <3>2, BlockIsTyped, EffectLasts
    <3> QED BY <3>1, <3>4, <3>5
  <2>4. blocks'[t] = less /\ context'[t] = new BY <1>8 DEF less
  <2>5. Len(less) <= MaxBlocks BY <1>2, <2>1
  <2> QED BY <2>1, <2>2, <2>3, <2>4, <2>5 DEF Nested
<1> QED BY <1>8, <1>9, <1>10, <1>11 DEF TasksFit

\* A block of one of the variables, opened, closed, or copied into a new task.
LEMMA ContextStepFits ==
    ASSUME IInv, NEW t \in Tasks, ContextStep(t)
    PROVE IInv'
<1>1. /\ context \in [Tasks -> Context] /\ blocks \in [Tasks -> Seq(Block)]
      /\ \A u \in Tasks : Nested(u) /\ InEffect(context[u], opened, audits)
  BY DEF IInv, TasksFit
<1>2. context[t] \in Context BY <1>1
<1>3. /\ 0 \in Entries /\ NoContext \in Context
      /\ \A k, r : InEffect(NoContext, k, r)
  BY AuthorityAssumption DEF NoContext, Context, Entries, InEffect, AuthorityAssumption
<1>4. ASSUME Grows, TasksFit', UNCHANGED <<querysets, instances, stream>>, read' = NoRead
      PROVE IInv'
  BY <1>4, QuerySetsAreLeft, InstancesAreLeft, StreamIsLeft, NothingIsRead DEF IInv, Grows
<1>5. ASSUME NEW a \in Actors, ActorContext(t, a) PROVE IInv'
  <2>1. Grows BY <1>5, NothingIsLogged DEF ActorContext
  <2> DEFINE new == [context[t] EXCEPT !.actor = a]
  <2>2. /\ new \in Context /\ new.sudo = context[t].sudo
    BY <1>2 DEF Context
  <2>3. InEffect(new, opened', audits')
    BY <1>1, <1>2, <2>1, <2>2, EffectLasts DEF InEffect
  <2>4. Open(t, {"actor"}, new) BY <1>5 DEF ActorContext
  <2> HIDE DEF new
  <2>5. TasksFit' BY <2>1, <2>2, <2>3, <2>4, OpeningFits
  <2> QED BY <1>4, <1>5, <2>1, <2>5 DEF ActorContext
<1>6. ASSUME SudoContext(t) PROVE IInv'
  <2> DEFINE k == Bypassed + 1
             new == [context[t] EXCEPT !.sudo = k]
  <2>1. OpenBypass("block") /\ audits' = audits \cup {<<k, k>>} /\ Open(t, {"sudo"}, new)
    BY <1>6 DEF SudoContext
  <2>3. /\ Grows /\ k \in Entries
        /\ k <= Len(opened') /\ opened'[k] = "block" /\ <<k, k>> \in audits'
    BY <2>1, BlockIsAudited
  <2> HIDE DEF k
  <2>4. new \in Context /\ new.sudo = k /\ new.actor = context[t].actor
    BY <1>2, <2>3 DEF Context
  <2> HIDE DEF new
  <2>5. InEffect(new, opened', audits') BY <2>3, <2>4 DEF InEffect
  <2>6. TasksFit' BY <2>1, <2>3, <2>4, <2>5, OpeningFits
  <2> QED BY <1>4, <1>6, <2>3, <2>6 DEF SudoContext
<1>7. ASSUME NEW user \in Actors, NEW a \in Actors, SuperuserRequest(t, user, a) PROVE IInv'
  <2> DEFINE k == Bypassed + 1
             asActor == [NoContext EXCEPT !.actor = a]
             elevated == [asActor EXCEPT !.sudo = k]
             b1 == [sets |-> {"actor"}, new |-> asActor, old |-> NoContext]
             b2 == [sets |-> {"sudo"}, new |-> elevated, old |-> asActor]
             both == <<b1, b2>>
  <2>1. /\ OpenBypass("block") /\ audits' = audits \cup {<<k, k>>} /\ MaxBlocks >= 2
        /\ context' = [context EXCEPT ![t] = elevated]
        /\ blocks' = [blocks EXCEPT ![t] = both]
    BY <1>7 DEF SuperuserRequest
  <2>3. /\ Grows /\ k \in Entries
        /\ k <= Len(opened') /\ opened'[k] = "block" /\ <<k, k>> \in audits'
    BY <2>1, BlockIsAudited
  <2> HIDE DEF k
  <2>4. /\ asActor \in Context /\ asActor.actor = a /\ asActor.sudo = 0
        /\ elevated \in Context /\ elevated.actor = a /\ elevated.sudo = k
    BY <1>3, <2>3 DEF NoContext, Context
  <2> HIDE DEF asActor, elevated
  <2>5. /\ b1 \in Block /\ b1.sets = {"actor"} /\ b1.new = asActor /\ b1.old = NoContext
        /\ b2 \in Block /\ b2.sets = {"sudo"} /\ b2.new = elevated /\ b2.old = asActor
    BY <1>3, <2>4 DEF Block
  <2> HIDE DEF b1, b2
  <2>6. both \in Seq(Block) /\ Len(both) = 2 /\ both[1] = b1 /\ both[2] = b2
    BY <2>5
  <2> HIDE DEF both
  <2>7. /\ InEffect(elevated, opened', audits') /\ InEffect(asActor, opened', audits')
        /\ InEffect(NoContext, opened', audits')
    BY <1>3, <2>3, <2>4 DEF InEffect
  <2>8. /\ HoldsWhatIsSet(elevated, both, 2) /\ HoldsWhatIsSet(asActor, both, 1)
        /\ HoldsWhatIsSet(NoContext, both, 0)
    BY <2>4, <2>5, <2>6 DEF HoldsWhatIsSet
  <2>9. /\ context' \in [Tasks -> Context] /\ context'[t] = elevated
        /\ blocks' \in [Tasks -> Seq(Block)] /\ blocks'[t] = both
        /\ \A u \in Tasks \ {t} : context'[u] = context[u] /\ blocks'[u] = blocks[u]
    BY <1>1, <2>1, <2>4, <2>6
  <2>10. Nested(t)'
    <3>1. Len(both) <= MaxBlocks BY <2>1, <2>6, AuthorityAssumption DEF AuthorityAssumption
    <3>2. ASSUME NEW n \in DOMAIN both
          PROVE /\ HoldsWhatIsSet(both[n].old, both, n - 1)
                /\ InEffect(both[n].old, opened', audits')
      <4>1. n = 1 \/ n = 2 BY <2>6
      <4>2. 1 - 1 = 0 /\ 2 - 1 = 1 OBVIOUS
      <4> QED BY <2>5, <2>6, <2>7, <2>8, <4>1, <4>2
    <3>3. HoldsWhatIsSet(elevated, both, Len(both)) BY <2>6, <2>8
    <3> QED BY <2>6, <2>9, <3>1, <3>2, <3>3 DEF Nested
  <2>11. \A u \in Tasks : InEffect(context'[u], opened', audits')
    BY <1>1, <2>3, <2>7, <2>9, EffectLasts
  <2>12. TasksFit' BY <2>3, <2>9, <2>10, <2>11, OtherStacksStay DEF TasksFit
  <2> QED BY <1>4, <1>7, <2>3, <2>12 DEF SuperuserRequest
<1>8. ASSUME NEW a \in Actors, AsActorOnly(t, a) PROVE IInv'
  <2>1. Grows BY <1>8, NothingIsLogged DEF AsActorOnly
  <2> DEFINE new == [actor |-> a, sudo |-> 0]
  <2>2. new \in Context /\ InEffect(new, opened', audits')
    BY <1>3 DEF Context, InEffect
  <2>3. Open(t, {"actor", "sudo"}, new) BY <1>8 DEF AsActorOnly
  <2> HIDE DEF new
  <2>4. TasksFit' BY <2>1, <2>2, <2>3, OpeningFits
  <2> QED BY <1>4, <1>8, <2>1, <2>4 DEF AsActorOnly
<1>9. ASSUME Close(t) PROVE IInv'
  <2>1. Grows BY <1>9, NothingIsLogged DEF Close
  <2> QED BY <1>4, <1>9, <2>1, ClosingFits DEF Close
<1>10. ASSUME NEW child \in Tasks, Spawn(t, child) PROVE IInv'
  <2>1. Grows BY <1>10, NothingIsLogged DEF Spawn
  <2>2. /\ context' \in [Tasks -> Context] /\ context'[child] = context[t] /\ blocks' = blocks
        /\ \A u \in Tasks \ {child} : context'[u] = context[u]
        /\ blocks[child] = << >>
    BY <1>1, <1>2, <1>10 DEF Spawn
  <2>3. Nested(child)' BY <1>1, <2>2 DEF Nested, HoldsWhatIsSet
  <2>4. \A u \in Tasks : InEffect(context'[u], opened', audits')
    BY <1>1, <2>1, <2>2, EffectLasts
  <2>5. TasksFit' BY <1>1, <2>1, <2>2, <2>3, <2>4, OtherStacksStay DEF TasksFit
  <2> QED BY <1>4, <1>10, <2>1, <2>5 DEF Spawn
<1> QED BY <1>5, <1>6, <1>7, <1>8, <1>9, <1>10 DEF ContextStep

-----------------------------------------------------------------------------
(* Querysets that are built.                                               *)

\* Cloning is typed whatever the scope.
LEMMA CloneIsTyped ==
    ASSUME NEW q \in QuerySet
    PROVE /\ Clone(q) \in QuerySet
          /\ \A f \in {"actor", "relation", "reason", "entry", "audited", "ambient", "mixed",
                       "eager", "aggregate", "empty", "holds"} : Clone(q)[f] = q[f]
<1> DEFINE copy == [q EXCEPT !.cache = NoRows, !.used = FALSE]
<1>1. /\ copy \in QuerySet
      /\ \A f \in {"actor", "relation", "reason", "entry", "audited", "ambient", "mixed",
                   "eager", "aggregate", "empty", "holds"} : copy[f] = q[f]
  BY DEF QuerySet
<1>2. Clone(q) \in {copy, ResetScope(copy)} BY DEF Clone
<1> HIDE DEF copy
<1>3. \A f \in {"actor", "relation", "reason", "entry", "audited", "ambient", "mixed",
                "eager", "aggregate", "empty", "holds"} : ResetScope(copy)[f] = copy[f]
  BY <1>1 DEF QuerySet, ResetScope
<1> QED BY <1>1, <1>2, <1>3, ResetIsTyped

LEMMA BuildingFits ==
    ASSUME IInv, Grows, NEW r \in QuerySets, NEW q, Make(r, q), Building,
           Fits(q, opened', audits')
    PROVE IInv'
<1>1. querysets' = [querysets EXCEPT ![r] = q] /\ (stream # NoStream => stream.of # r)
  BY DEF Make
<1>2. UNCHANGED <<context, blocks, instances, stream>> /\ read' = NoRead BY DEF Building
<1>3. TasksFit' BY <1>2, TasksStay
<1>4. QuerySetsFit' BY <1>1, OneQuerySetChanges
<1>5. InstancesFit' BY <1>2, InstancesAreLeft
<1>6. Streams' BY <1>1, <1>2, StreamGoesOn
<1> QED BY <1>2, <1>3, <1>4, <1>5, <1>6, NothingIsRead DEF IInv, Grows

LEMMA FreshFits ==
    ASSUME NEW a \in Actors \cup {Nobody}, NEW kinds, NEW rows
    PROVE /\ Fits([Fresh EXCEPT !.relation = a], kinds, rows)
          /\ Fits(Fresh, kinds, rows)
<1>1. 0 \in Entries BY AuthorityAssumption DEF Entries, AuthorityAssumption
<1>2. Fresh \in QuerySet BY <1>1 DEF Fresh, QuerySet
<1>3. [Fresh EXCEPT !.relation = a] \in QuerySet BY <1>2 DEF QuerySet
<1>4. /\ Fresh.reason = 0 /\ Fresh.holds = {} /\ Fresh.eager = FALSE
      /\ Fresh.applied = FALSE /\ Fresh.where = {}
  BY DEF Fresh
<1>5. \A f \in {"reason", "holds", "eager", "applied", "where"} :
        [Fresh EXCEPT !.relation = a][f] = Fresh[f]
  BY DEF Fresh
<1> QED BY <1>2, <1>3, <1>4, <1>5 DEF Fits, Decided, Placed, Accounted, Carries

\* A queryset that is given its pins and refreshed.
LEMMA RefreshedFits ==
    ASSUME IInv, NEW t \in Tasks, NEW r \in QuerySets, NEW q \in QuerySet,
           Refreshed(t, q, r), Building,
           opened' = opened \/ \E k \in Kinds : opened' = Append(opened, k),
           opened' \in Seq(Kinds), Len(opened') <= MaxEntries,
           Placed(q, opened'), Accounted(q, audits), Carries(q),
           q.eager => ScopedUnpinned(q) \/ q.reason # 0 \/ Pin(q) # Nobody
    PROVE IInv'
<1> DEFINE fresh == RefreshScope(t, q)
           new == IF q.eager THEN AuditBypassOnce(t, fresh) ELSE fresh
           rows == IF q.eager THEN DirectRows(t, q) ELSE {}
<1>1. /\ q.eager => EffectiveActor(t, q) # Refused
      /\ Make(r, new) /\ audits' = audits \cup rows
  BY DEF Refreshed, Resolvable
<1>2. context[t] \in Context BY DEF IInv, TasksFit
<1>3. Fits(new, opened', audits \cup rows) /\ rows \subseteq Entries \X Entries
  BY <1>1, <1>2, RefreshFits
<1> HIDE DEF new, rows
<1>4. Grows BY <1>1, <1>3 DEF Grows, LogsFit, IInv
<1> QED BY <1>1, <1>3, <1>4, BuildingFits

\* scoped(): what decides is pinned, with its bypass when that was the block's.
LEMMA ScopedFits ==
    ASSUME IInv, NEW t \in Tasks, NEW n \in QuerySets, NEW aggregate \in BOOLEAN,
           NEW r \in QuerySets, Scoped(t, n, aggregate, r)
    PROVE IInv'
<1> DEFINE c == Clone(querysets[n])
           q == IF aggregate THEN ResetScope([c EXCEPT !.aggregate = TRUE]) ELSE c
           d == EffectiveActor(t, q)
           captured == d = Bypass /\ q.reason = 0 /\ context[t].sudo # 0
           p == [q EXCEPT !.eager = TRUE,
                          !.actor = IF d \in Actors THEN d ELSE @,
                          !.reason = IF d = Bypass /\ @ = 0 THEN context[t].sudo ELSE @,
                          !.ambient = @ \/ captured]
           new == IF q.applied THEN p ELSE AuditBypassOnce(t, ApplyScope(t, p))
           rows == IF q.applied THEN {} ELSE DirectRows(t, p)
<1>1. /\ d # Refused /\ Make(r, new) /\ audits' = audits \cup rows
      /\ Building /\ UNCHANGED opened
  BY DEF Scoped
<1>2. /\ context[t] \in Context /\ context[t].sudo \in Entries
      /\ InEffect(context[t], opened, audits)
      /\ opened \in Seq(Kinds) /\ MaxEntries \in Nat
  BY AuthorityAssumption DEF IInv, TasksFit, LogsFit, Context, AuthorityAssumption
<1>3. /\ Fits(c, opened, audits)
      /\ ~c.eager => c.applied = FALSE
  BY CloneFits DEF IInv, QuerySetsFit
<1> HIDE DEF c
<1>4. /\ q \in QuerySet /\ Placed(q, opened) /\ Accounted(q, audits) /\ Carries(q)
      /\ q.eager = c.eager /\ (q.applied => q = c /\ c.eager) /\ (~q.applied => q.where = {})
      /\ q.eager /\ ~ScopedUnpinned(q) => q.reason # 0 \/ Pin(q) # Nobody
  <2>1. CASE ~aggregate BY <1>3, <2>1 DEF Fits, Decided
  <2>2. CASE aggregate
    <3> DEFINE g == [c EXCEPT !.aggregate = TRUE]
    <3>1. g \in QuerySet /\ g.aggregate = TRUE BY <1>3 DEF Fits, QuerySet
    <3>2. \A f \in {"reason", "eager", "audited", "ambient", "mixed", "holds"} : g[f] = c[f]
      BY <1>3 DEF Fits, QuerySet
    <3>3. q = ResetScope(g) BY <2>2
    <3> HIDE DEF g
    <3>4. Placed(g, opened) /\ Accounted(g, audits) /\ Carries(g)
      BY <1>3, <3>2 DEF Fits, Placed, Accounted, Carries
    <3>5. /\ ResetScope(g) \in QuerySet /\ Placed(ResetScope(g), opened)
          /\ Accounted(ResetScope(g), audits) /\ Carries(ResetScope(g))
      BY <3>1, <3>4, ResetIsTyped, ResetFits
    <3>6. /\ ResetScope(g).applied = FALSE /\ ResetScope(g).where = {}
          /\ ResetScope(g).eager = g.eager /\ ResetScope(g).aggregate = TRUE
      BY <3>1 DEF QuerySet, ResetScope
    <3> QED BY <3>2, <3>3, <3>5, <3>6 DEF ScopedUnpinned
  <2> QED BY <2>1, <2>2
<1> HIDE DEF q
<1>5. /\ d \in Decisions /\ ReadsFor(q, d)
      /\ q.reason = 0 /\ Pin(q) = Nobody /\ d = Bypass => context[t].sudo # 0 \/ ~Strict
      /\ q.reason = 0 /\ Pin(q) = Nobody /\ d = Nobody => q.aggregate
      /\ Pin(q) \in Actors \cup {Nobody} /\ Bypass \notin Actors /\ Nobody \notin Actors
      /\ Bypass # Nobody
  BY <1>1, <1>2, <1>4, Resolution, PinIsTyped, AuthorityAssumption
     DEF ReadsFor, AuthorityAssumption
<1> DEFINE e == EffectiveActor(t, p)
<1>6. e = d
  <2>1. p.aggregate = q.aggregate BY <1>4 DEF QuerySet
  <2>2. CASE d \in Actors
    <3>1. p.reason = q.reason /\ q.reason = 0 BY <1>4, <1>5, <2>2 DEF QuerySet, ReadsFor
    <3>2. p.actor = d BY <1>4, <2>2 DEF QuerySet
    <3>3. Pin(p) = d BY <1>5, <2>2, <3>2 DEF Pin
    <3>4. (p.reason # 0) = FALSE BY <3>1
    <3> QED BY <1>5, <2>2, <3>3, <3>4 DEF EffectiveActor, Resolve
  <2>3. CASE d \notin Actors
    <3>1. Pin(p) = Pin(q)
      <4>1. p.actor = q.actor /\ p.relation = q.relation BY <1>4, <2>3 DEF QuerySet
      <4> QED BY <4>1 DEF Pin
    <3>2. CASE p.reason = q.reason
      <4> HIDE DEF p
      <4> QED BY <2>1, <3>1, <3>2, SamePins
    <3>3. CASE p.reason # q.reason
      <4>1. d = Bypass /\ p.reason = context[t].sudo /\ q.reason = 0
        BY <1>4, <3>3 DEF QuerySet
      <4>2. p.reason # 0 BY <3>3, <4>1
      <4> QED BY <4>1, <4>2 DEF EffectiveActor, Resolve
    <3> QED BY <3>2, <3>3
  <2> QED BY <2>2, <2>3
<1>7. /\ p \in QuerySet /\ p.eager = TRUE
      /\ p.reason = IF d = Bypass /\ q.reason = 0 THEN context[t].sudo ELSE q.reason
      /\ p.ambient = (q.ambient \/ captured)
      /\ \A f \in {"entry", "audited", "mixed", "aggregate", "empty", "holds", "where", "applied",
                   "used", "relation"} : p[f] = q[f]
  <2>1. /\ (q.ambient \/ captured) \in BOOLEAN
        /\ (IF d \in Actors THEN d ELSE q.actor) \in Actors \cup {Nobody}
        /\ (IF d = Bypass /\ q.reason = 0 THEN context[t].sudo ELSE q.reason) \in Entries
    BY <1>2, <1>4 DEF QuerySet
  <2> DEFINE w == IF d \in Actors THEN d ELSE q.actor
             k == IF d = Bypass /\ q.reason = 0 THEN context[t].sudo ELSE q.reason
             m == q.ambient \/ captured
  <2>2. p = [q EXCEPT !.eager = TRUE, !.actor = w, !.reason = k, !.ambient = m]
    BY <1>4 DEF QuerySet
  <2>3. m \in BOOLEAN /\ w \in Actors \cup {Nobody} /\ k \in Entries BY <2>1
  <2>4. k = (IF d = Bypass /\ q.reason = 0 THEN context[t].sudo ELSE q.reason)
        /\ m = (q.ambient \/ captured)
    OBVIOUS
  <2> HIDE DEF w, k, m, p, d, captured
  <2>5. /\ p \in QuerySet /\ p.eager = TRUE /\ p.reason = k /\ p.ambient = m
        /\ \A f \in {"entry", "audited", "mixed", "aggregate", "empty", "holds", "where",
                     "applied", "used", "relation"} : p[f] = q[f]
    BY <1>4, <2>2, <2>3 DEF QuerySet
  <2> QED BY <2>4, <2>5
<1>8. Pin(p) = IF d \in Actors THEN d ELSE Pin(q)
  <2>1. p.actor = (IF d \in Actors THEN d ELSE q.actor) /\ p.relation = q.relation
    BY <1>4 DEF QuerySet
  <2> QED BY <1>5, <2>1 DEF Pin
<1> HIDE DEF p
<1>9. Placed(p, opened)
  BY <1>2, <1>4, <1>7 DEF Placed, InEffect
<1>10. Accounted(p, audits)
  <2>1. context[t].sudo # 0 => Recorded(context[t].sudo, audits)
    BY <1>2 DEF InEffect, Recorded
  <2> QED BY <1>4, <1>7, <2>1 DEF Accounted
<1>11. Carries(p) BY <1>4, <1>7 DEF Carries
<1>12. ~ScopedUnpinned(p) => p.reason # 0 \/ Pin(p) # Nobody
  BY <1>4, <1>5, <1>7, <1>8 DEF ScopedUnpinned, Decisions, ReadsFor
<1>13. CASE q.applied
  <2>1. Decided(c) /\ q = c /\ q.eager BY <1>3, <1>4, <1>13 DEF Fits
  <2>2. ~ScopedUnpinned(p) => ~ScopedUnpinned(q) /\ p.reason = q.reason /\ Pin(p) = Pin(q)
    BY <1>4, <1>5, <1>7, <1>8, <1>13 DEF ScopedUnpinned, ReadsFor
  <2>3. Decided(p) BY <1>7, <1>12, <1>13, <2>1, <2>2 DEF Decided
  <2>4. Fits(p, opened, audits) BY <1>7, <1>9, <1>10, <1>11, <2>3 DEF Fits
  <2>5. rows = {} /\ new = p BY <1>13
  <2>6. Grows BY <1>1, <2>5, NothingIsLogged
  <2> QED BY <1>1, <2>4, <2>5, <2>6, BuildingFits
<1>14. CASE ~q.applied
  <2> DEFINE a == ApplyScope(t, p)
  <2>1. ~p.applied /\ p.where = {} BY <1>4, <1>7, <1>14
  <2>2. /\ a \in QuerySet /\ a.applied /\ Pin(a) = Pin(p) /\ a.where = Wanted(d)
        /\ \A f \in {"actor", "relation", "reason", "entry", "audited", "ambient", "mixed",
                     "eager", "aggregate", "empty", "holds", "used", "cache"} : a[f] = p[f]
    <3>1. EffectiveActor(t, p) = d /\ d # Refused BY <1>1, <1>6
    <3> HIDE DEF d
    <3>2. p \in QuerySet /\ context[t] \in Context BY <1>2, <1>7
    <3>3. a.where = p.where \cup Wanted(d) BY <2>1, <3>1, <3>2, ScopeIsApplied
    <3>4. a.where = Wanted(d) BY <2>1, <3>3
    <3> HIDE DEF e
    <3>5. /\ a \in QuerySet /\ a.applied /\ Pin(a) = Pin(p)
          /\ \A f \in {"actor", "relation", "reason", "entry", "audited", "ambient", "mixed",
                       "eager", "aggregate", "empty", "holds", "used", "cache"} : a[f] = p[f]
      BY <3>1, <3>2, ScopeIsApplied
    <3> QED BY <3>4, <3>5
  <2>3. new = AuditBypassOnce(t, a) /\ rows = DirectRows(t, p) BY <1>14
  <2> HIDE DEF a, new, rows
  <2>4. DirectRows(t, a) = DirectRows(t, p) BY <2>2 DEF DirectRows, BypassRows, Owes
  <2>5. /\ new \in QuerySet /\ Pin(new) = Pin(a)
        /\ \A f \in {"actor", "relation", "reason", "entry", "ambient", "mixed", "eager",
                     "aggregate", "empty", "holds", "used", "cache", "where", "applied"} : new[f] = a[f]
        /\ rows \subseteq Entries \X Entries
    BY <2>2, <2>3, <2>4, AuditIsTyped
  <2>6. Accounted(a, audits) BY <1>10, <2>2 DEF Accounted
  <2>7. Accounted(new, audits') BY <1>1, <2>2, <2>3, <2>4, <2>6, AuditIsKept
  <2>8. Placed(new, opened') /\ Carries(new)
    BY <1>1, <1>9, <1>11, <2>2, <2>5 DEF Placed, Carries
  <2>9. ReadsFor(p, d)
    BY <1>2, <1>4, <1>5, <1>7, <1>8 DEF ReadsFor, Decisions
  <2>10. Decided(new)
    BY <1>5, <1>7, <1>12, <2>2, <2>5, <2>9 DEF Decided, ReadsFor, Wanted, ScopedUnpinned
  <2>11. Grows BY <1>1, <2>5, RowsAreAdded
  <2> QED BY <1>1, <2>5, <2>7, <2>8, <2>10, <2>11, BuildingFits DEF Fits
<1> QED BY <1>13, <1>14

\* a | b: the left operand's policy; what it says of its audit is its own too,
\* unless the left operand is empty.
LEMMA CombinedFits ==
    ASSUME IInv, NEW t \in Tasks, NEW left \in QuerySets, NEW right \in QuerySets,
           NEW r \in QuerySets, Combine(t, left, right, r)
    PROVE IInv'
<1> DEFINE a == querysets[left]
           b == querysets[right]
           both == [a EXCEPT !.where = a.where \cup b.where, !.holds = a.holds \cup b.holds]
           combined == IF a.empty THEN b ELSE IF b.empty THEN a ELSE both
           z == Clone(combined)
           q == [z EXCEPT !.actor = a.actor, !.relation = a.relation, !.reason = a.reason,
                          !.eager = a.eager, !.aggregate = a.aggregate,
                          !.mixed = a.empty \/ a.mixed]
<1>1. /\ Refreshed(t, q, r) /\ Building /\ UNCHANGED opened
  BY DEF Combine
<1>2. Fits(a, opened, audits) /\ Fits(b, opened, audits) BY DEF IInv, QuerySetsFit
<1> HIDE DEF a, b
<1>3. /\ both \in QuerySet /\ both.holds = a.holds \cup b.holds
      /\ \A f \in {"audited", "ambient"} : both[f] = a[f]
  <2> DEFINE w == a.where \cup b.where
             h == a.holds \cup b.holds
  <2>1. w \subseteq Actors \cup {Nobody} /\ h \subseteq Embedded
    BY <1>2 DEF Fits, QuerySet
  <2>2. both = [a EXCEPT !.where = w, !.holds = h] OBVIOUS
  <2> HIDE DEF w, both
  <2>3. /\ both \in QuerySet /\ both.holds = h
        /\ \A f \in {"audited", "ambient"} : both[f] = a[f]
    BY <1>2, <2>1, <2>2 DEF Fits, QuerySet
  <2> QED BY <2>3
<1> HIDE DEF both
<1>4. /\ combined \in QuerySet
      /\ combined.holds \subseteq a.holds \cup b.holds
      /\ ~a.empty => combined.audited = a.audited /\ combined.ambient = a.ambient
  BY <1>2, <1>3 DEF Fits
<1> HIDE DEF combined
<1>5. /\ z \in QuerySet
      /\ \A f \in {"audited", "ambient", "holds"} : z[f] = combined[f]
  BY <1>4, CloneIsTyped
<1> HIDE DEF z
<1>6. /\ q \in QuerySet /\ q.mixed = (a.empty \/ a.mixed)
      /\ \A f \in {"actor", "relation", "reason", "eager", "aggregate"} : q[f] = a[f]
      /\ \A f \in {"audited", "ambient", "holds"} : q[f] = z[f]
  <2> DEFINE m == a.empty \/ a.mixed
  <2>1. /\ a.actor \in Actors \cup {Nobody} /\ a.relation \in Actors \cup {Nobody, NotRelated}
        /\ a.reason \in Entries /\ a.eager \in BOOLEAN /\ a.aggregate \in BOOLEAN
        /\ m \in BOOLEAN
    BY <1>2 DEF Fits, QuerySet
  <2>2. q = [z EXCEPT !.actor = a.actor, !.relation = a.relation, !.reason = a.reason,
                      !.eager = a.eager, !.aggregate = a.aggregate, !.mixed = m]
    OBVIOUS
  <2>3. m = (a.empty \/ a.mixed) OBVIOUS
  <2> HIDE DEF m, q
  <2>4. q \in QuerySet BY <1>5, <2>1, <2>2 DEF QuerySet
  <2>5. q.mixed = m /\ \A f \in {"actor", "relation", "reason", "eager", "aggregate"} : q[f] = a[f]
    BY <1>5, <2>2 DEF QuerySet
  <2>6. \A f \in {"audited", "ambient", "holds"} : q[f] = z[f] BY <1>5, <2>2 DEF QuerySet
  <2> QED BY <2>3, <2>4, <2>5, <2>6
<1> HIDE DEF q
<1>7. Pin(q) = Pin(a) /\ ScopedUnpinned(q) = ScopedUnpinned(a)
  BY <1>6 DEF Pin, ScopedUnpinned
<1>8. Placed(q, opened') BY <1>1, <1>2, <1>6 DEF Fits, Placed
<1>9. Accounted(q, audits) BY <1>2, <1>4, <1>5, <1>6 DEF Fits, Accounted
<1>10. Carries(q) BY <1>2, <1>4, <1>5, <1>6 DEF Fits, Carries
<1>11. q.eager => ScopedUnpinned(q) \/ q.reason # 0 \/ Pin(q) # Nobody
  BY <1>2, <1>6, <1>7 DEF Fits, Decided
<1>12. opened' = opened /\ opened' \in Seq(Kinds) /\ Len(opened') <= MaxEntries
  BY <1>1 DEF IInv, LogsFit
<1> QED BY <1>1, <1>6, <1>8, <1>9, <1>10, <1>11, <1>12, RefreshedFits

\* A subquery is embedded with its scope and the row its execution owes.
LEMMA EmbeddedFits ==
    ASSUME IInv, NEW t \in Tasks, NEW outer \in QuerySets, NEW inner \in QuerySets,
           NEW r \in QuerySets, Embed(t, outer, inner, r)
    PROVE IInv'
<1> DEFINE c == Clone(querysets[inner])
           q == ApplyScope(t, c)
           e == Subquery(t, q)
           z == Clone(querysets[outer])
           new == [z EXCEPT !.holds = {e}]
<1>1. /\ EffectiveActor(t, c) # Refused /\ Make(r, new)
      /\ Building /\ UNCHANGED <<opened, audits>>
  BY DEF Embed, Resolvable
<1>2. Fits(c, opened, audits) /\ Fits(z, opened, audits) /\ context[t] \in Context
  BY CloneFits DEF IInv, QuerySetsFit, TasksFit
<1> HIDE DEF c, z
<1>3. q \in QuerySet BY <1>1, <1>2, ScopeIsApplied DEF Fits
<1> HIDE DEF q
<1>4. e \in Embedded /\ (e.entry # 0 => \E row \in e.pending : row[1] = e.entry)
  <2>1. /\ q.where \subseteq Actors \cup {Nobody} /\ q.entry \in Entries /\ q.reason \in Entries
        /\ 0 \in Entries
    BY <1>3, AuthorityAssumption DEF QuerySet, Entries, AuthorityAssumption
  <2>2. BypassRows(t, q) \in SUBSET (Entries \X Entries)
    BY <2>1 DEF BypassRows
  <2>3. /\ e.where = q.where /\ e.pending = BypassRows(t, q)
        /\ e.entry = IF q.ambient \/ q.reason = 0 THEN 0 ELSE q.entry
    BY DEF Subquery
  <2>4. e \in Embedded BY <2>1, <2>2 DEF Subquery, Embedded
  <2>5. e.entry # 0 => <<q.entry, q.reason>> \in e.pending /\ e.entry = q.entry
    BY <2>3 DEF BypassRows, Owes
  <2> QED BY <2>4, <2>5
<1> HIDE DEF e
<1>5. /\ new \in QuerySet /\ new.holds = {e} /\ Pin(new) = Pin(z)
      /\ \A f \in {"reason", "eager", "aggregate", "applied", "where", "used", "mixed",
                   "ambient", "audited"} : new[f] = z[f]
  BY <1>2, <1>4 DEF Fits, QuerySet, Pin
<1> HIDE DEF new
<1>6. Fits(new, opened, audits)
  <2>1. Decided(new) BY <1>2, <1>5 DEF Fits, Decided, ScopedUnpinned
  <2>2. Placed(new, opened) /\ Accounted(new, audits)
    BY <1>2, <1>5 DEF Fits, Placed, Accounted
  <2>3. Carries(new) BY <1>4, <1>5 DEF Carries
  <2> QED BY <1>5, <2>1, <2>2, <2>3 DEF Fits
<1>7. Grows BY <1>1, NothingIsLogged
<1>8. Fits(new, opened', audits') BY <1>6, <1>7, QuerySetsStay
<1> QED BY <1>1, <1>7, <1>8, BuildingFits

\* Every way to get a queryset from others.
LEMMA BuildStepFits ==
    ASSUME IInv, NEW t \in Tasks, BuildStep(t)
    PROVE IInv'
<1>1. /\ \A n \in QuerySets : Fits(querysets[n], opened, audits)
      /\ \A n \in QuerySets : querysets[n] \in QuerySet
      /\ \A i \in Instances : instances[i] \in Instance
      /\ opened \in Seq(Kinds) /\ Len(opened) <= MaxEntries
      /\ 0 \in Entries /\ Nobody \notin Actors
  BY AuthorityAssumption
     DEF IInv, QuerySetsFit, InstancesFit, LogsFit, Entries, Fits, AuthorityAssumption
<1>2. ASSUME NEW r \in QuerySets, All(r) PROVE IInv'
  <2>1. Grows BY <1>2, NothingIsLogged DEF All
  <2> QED BY <1>2, <2>1, FreshFits, BuildingFits DEF All
<1>3. ASSUME NEW r \in QuerySets, NEW i \in Instances, Related(i, r) PROVE IInv'
  <2>1. Grows BY <1>3, NothingIsLogged DEF Related
  <2>2. instances[i].actor \in Actors \cup {Nobody} BY <1>1 DEF Instance
  <2> QED BY <1>3, <2>1, <2>2, FreshFits, BuildingFits DEF Related
<1>4. ASSUME NEW r \in QuerySets, NEW n \in QuerySets, Filter(n, r) PROVE IInv'
  <2>1. Grows BY <1>4, NothingIsLogged DEF Filter
  <2>2. Fits(Clone(querysets[n]), opened', audits') BY <1>1, <2>1, CloneFits, QuerySetsStay
  <2> QED BY <1>4, <2>1, <2>2, BuildingFits DEF Filter
<1>5. ASSUME NEW r \in QuerySets, NEW n \in QuerySets, None(n, r) PROVE IInv'
  <2> DEFINE z == Clone(querysets[n])
             q == [z EXCEPT !.empty = TRUE]
  <2>1. Grows BY <1>5, NothingIsLogged DEF None
  <2>2. Fits(z, opened', audits') BY <1>1, <2>1, CloneFits, QuerySetsStay
  <2>3. Make(r, q) /\ Building BY <1>5 DEF None
  <2> HIDE DEF z
  <2>4. /\ q \in QuerySet /\ Pin(q) = Pin(z)
        /\ \A f \in {"reason", "eager", "aggregate", "applied", "where", "used", "mixed",
                     "ambient", "audited", "holds"} : q[f] = z[f]
    BY <2>2 DEF Fits, QuerySet, Pin
  <2> HIDE DEF q
  <2>5. Fits(q, opened', audits')
    BY <2>2, <2>4 DEF Fits, Decided, Placed, Accounted, Carries, ScopedUnpinned
  <2> QED BY <2>1, <2>3, <2>5, BuildingFits
<1>6. ASSUME NEW r \in QuerySets, NEW n \in QuerySets, Pickle(n, r) PROVE IInv'
  <2> DEFINE z == ResetScope(querysets[n])
             q == [z EXCEPT
                !.actor = Nobody, !.relation = NotRelated, !.reason = 0,
                !.audited = FALSE, !.entry = 0, !.ambient = FALSE, !.mixed = FALSE,
                !.eager = FALSE, !.cache = NoRows, !.used = FALSE]
  <2>1. Grows BY <1>6, NothingIsLogged DEF Pickle
  <2>2. Make(r, q) /\ Building BY <1>6 DEF Pickle
  <2>3. z \in QuerySet /\ z.holds = querysets[n].holds /\ z.applied = FALSE /\ z.where = {}
    BY <1>1, ResetIsTyped DEF QuerySet, ResetScope
  <2> HIDE DEF z
  <2>4. /\ q \in QuerySet /\ q.holds = z.holds /\ q.reason = 0 /\ q.eager = FALSE
        /\ q.applied = FALSE /\ q.where = {}
    <3>1. 0 \in Entries BY <1>1
    <3> QED BY <2>3, <3>1 DEF QuerySet
  <2> HIDE DEF q
  <2>5. Carries(q) BY <1>1, <2>3, <2>4 DEF Fits, Carries
  <2>6. Fits(q, opened', audits')
    BY <2>4, <2>5 DEF Fits, Decided, Placed, Accounted
  <2> QED BY <2>1, <2>2, <2>6, BuildingFits
<1>7. ASSUME NEW r \in QuerySets, NEW n \in QuerySets, NEW a \in Actors, WithActor(t, n, a, r)
      PROVE IInv'
  <2> DEFINE z == Clone(querysets[n])
             q == [z EXCEPT !.actor = a, !.reason = 0, !.audited = FALSE, !.entry = 0,
                            !.ambient = FALSE, !.mixed = FALSE]
  <2>1. Refreshed(t, q, r) /\ Building /\ UNCHANGED opened BY <1>7 DEF WithActor
  <2>2. Fits(z, opened, audits) BY <1>1, CloneFits
  <2> HIDE DEF z
  <2>3. /\ q \in QuerySet /\ q.holds = z.holds /\ q.reason = 0 /\ q.actor = a
    <3>1. z \in QuerySet /\ 0 \in Entries BY <1>1, <2>2 DEF Fits
    <3> QED BY <3>1 DEF QuerySet
  <2> HIDE DEF q
  <2>4. Pin(q) # Nobody BY <1>1, <2>3 DEF Pin
  <2>5. Placed(q, opened') /\ Accounted(q, audits) /\ Carries(q)
    BY <2>2, <2>3 DEF Fits, Placed, Accounted, Carries
  <2>6. opened' = opened /\ opened' \in Seq(Kinds) /\ Len(opened') <= MaxEntries
    BY <1>1, <2>1
  <2> QED BY <2>1, <2>3, <2>4, <2>5, <2>6, RefreshedFits
<1>8. ASSUME NEW r \in QuerySets, NEW n \in QuerySets, Sudo(t, n, r) PROVE IInv'
  <2> DEFINE k == Bypassed + 1
             z == Clone(querysets[n])
             q == [z EXCEPT !.actor = Nobody, !.reason = k, !.audited = FALSE,
                            !.entry = k, !.ambient = FALSE, !.mixed = FALSE]
  <2>1. Refreshed(t, q, r) /\ Building /\ OpenBypass("queryset") BY <1>8 DEF Sudo
  <2>2. Fits(z, opened, audits) BY <1>1, CloneFits
  <2>3. /\ k \in Entries /\ k # 0 /\ k \in Nat
        /\ opened' \in Seq(Kinds) /\ Len(opened') = k /\ opened'[k] = "queryset"
        /\ Len(opened') <= MaxEntries
        /\ "queryset" \in Kinds /\ opened' = Append(opened, "queryset")
    BY <1>1, <2>1, AuthorityAssumption, AppendProperties
       DEF OpenBypass, Bypassed, Kinds, Entries, AuthorityAssumption
  <2> HIDE DEF z, k
  <2>4. /\ q \in QuerySet /\ q.holds = z.holds /\ q.reason = k
        /\ q.audited = FALSE /\ q.ambient = FALSE
    <3>1. z \in QuerySet /\ k \in Entries BY <2>2, <2>3 DEF Fits
    <3> QED BY <3>1 DEF QuerySet
  <2> HIDE DEF q
  <2>5. Placed(q, opened') /\ Accounted(q, audits) /\ Carries(q)
    BY <2>2, <2>3, <2>4 DEF Fits, Placed, Accounted, Carries
  <2> QED BY <2>1, <2>3, <2>4, <2>5, RefreshedFits
<1> QED BY <1>2, <1>3, <1>4, <1>5, <1>6, <1>7, <1>8, ScopedFits, CombinedFits, EmbeddedFits
        DEF BuildStep

-----------------------------------------------------------------------------
(* Querysets that are evaluated.                                           *)

\* The audit alone, which raw(), insert() and a second _fetch_all() do.
LEMMA AuditFits ==
    ASSUME NEW t \in Tasks, NEW q, NEW kinds, NEW rows, Fits(q, kinds, rows)
    PROVE /\ Fits(AuditBypassOnce(t, q), kinds, rows \cup DirectRows(t, q))
          /\ DirectRows(t, q) \subseteq Entries \X Entries
<1>1. q \in QuerySet BY DEF Fits
<1> DEFINE r == AuditBypassOnce(t, q)
<1>2. /\ r \in QuerySet /\ Pin(r) = Pin(q)
      /\ \A f \in {"actor", "relation", "reason", "entry", "ambient", "mixed", "eager",
                   "aggregate", "empty", "holds", "used", "cache", "where", "applied"} : r[f] = q[f]
      /\ DirectRows(t, q) \subseteq Entries \X Entries
  BY <1>1, AuditIsTyped
<1>3. Accounted(r, rows \cup DirectRows(t, q)) BY <1>1, AuditIsKept DEF Fits
<1> HIDE DEF r
<1>4. Decided(r) /\ Placed(r, kinds) /\ Carries(r)
  BY <1>2 DEF Fits, Decided, Placed, Carries, ScopedUnpinned
<1> QED BY <1>2, <1>3, <1>4 DEF Fits, r

\* The step of a queryset that stays what it was, but for its scope and audit.
LEMMA InPlace ==
    ASSUME IInv, Grows, NEW n \in QuerySets, NEW q, querysets' = [querysets EXCEPT ![n] = q],
           Fits(q, opened', audits'), UNCHANGED <<context, blocks>>,
           InstancesFit', Streams', ReadsFit'
    PROVE IInv'
BY TasksStay, OneQuerySetChanges DEF IInv, Grows

\* A gate asks for the actor of its own moment.
LEMMA GateFits ==
    ASSUME IInv, NEW t \in Tasks, NEW q \in QuerySet, NEW d, d = EffectiveActor(t, q), d # Refused,
           q.where = Wanted(d), q.holds = {}, NEW wrote, read' = Statement(t, q, d, FALSE, wrote),
           audits \subseteq audits', q.reason # 0 /\ ~q.mixed => Recorded(q.reason, audits')
    PROVE ReadsFit'
<1> DEFINE s == Statement(t, q, d, FALSE, wrote)
<1>1. /\ context[t] \in Context /\ InEffect(context[t], opened, audits) BY DEF IInv, TasksFit
<1>2. /\ ReadsFor(q, d) /\ Pin(q) # Bypass
      /\ q.reason = 0 /\ Pin(q) = Nobody /\ d = Bypass => context[t].sudo # 0 \/ ~Strict
  BY <1>1, Resolution, PinIsTyped, AuthorityAssumption DEF ReadsFor, AuthorityAssumption
<1>3. /\ s.rows = s.of.where /\ s.of = q /\ s.as = d /\ s.context = context[t] /\ s.again = FALSE
  BY DEF Statement
<1>4. ScopeIsFor(q, d, FALSE) BY DEF ScopeIsFor
<1>5. q.where = {} => q.reason # 0 \/ context[t].sudo # 0 \/ ~Strict
  BY <1>2 DEF Wanted, ReadsFor
<1>6. context[t].sudo # 0 => <<context[t].sudo, context[t].sudo>> \in audits'
  BY <1>1 DEF InEffect
<1>7. read' = s OBVIOUS
<1> HIDE DEF s
<1> QED BY <1>2, <1>3, <1>4, <1>5, <1>6, <1>7, StatementFits

\* _fetch_all(), count() and the like.
LEMMA EvaluateFits ==
    ASSUME IInv, NEW t \in Tasks, NEW n \in QuerySets, NEW keeps \in BOOLEAN, Evaluate(t, n, keeps)
    PROVE IInv'
<1> DEFINE q == querysets[n]
           d == EffectiveActor(t, q)
           r == Evaluated(t, q)
           wrote == DirectRows(t, q) \cup PendingRows(q)
           new == IF keeps THEN [r EXCEPT !.cache = d] ELSE r
<1>1. /\ d # Refused /\ querysets' = [querysets EXCEPT ![n] = new]
      /\ audits' = audits \cup wrote
      /\ read' = IF q.empty THEN NoRead ELSE Statement(t, r, d, q.used, wrote)
      /\ UNCHANGED <<context, blocks, instances, stream, opened>>
  BY DEF Evaluate, Evaluated
<1>2. /\ Fits(q, opened, audits) /\ context[t] \in Context /\ InEffect(context[t], opened, audits)
      /\ opened \in Seq(Kinds)
  BY DEF IInv, QuerySetsFit, TasksFit, LogsFit
<1> HIDE DEF q
<1>3. /\ Fits(r, opened, audits \cup DirectRows(t, q))
      /\ Pin(r) = Pin(q) /\ r.applied /\ r.used
      /\ \A f \in {"actor", "relation", "reason", "entry", "ambient", "mixed",
                   "eager", "aggregate", "empty", "holds", "cache"} : r[f] = q[f]
      /\ ReadsFor(r, d) /\ ScopeIsFor(r, d, q.used)
      /\ r.where = {} =>
                \/ q.reason # 0 \/ context[t].sudo # 0 \/ q.used
                \/ ~Strict \/ ScopedUnpinned(r)
      /\ q.reason # 0 /\ ~q.mixed => Recorded(q.reason, audits \cup DirectRows(t, q))
  <2>1. d # Refused /\ d = EffectiveActor(t, q) BY <1>1
  <2>2. r = Evaluated(t, q) OBVIOUS
  <2> HIDE DEF r, d
  <2> QED BY <1>2, <2>1, <2>2, EvaluationFits
<1>4. d \in Decisions BY <1>1, <1>2, Resolution DEF Fits
<1>5. q.applied => r.where = q.where
  <2>1. SUFFICES ASSUME q.applied PROVE r.where = q.where OBVIOUS
  <2>2. q \in QuerySet BY <1>2 DEF Fits
  <2> DEFINE b == AuditBypassOnce(t, q)
  <2>3. b \in QuerySet /\ b.where = q.where BY <2>2, AuditIsTyped
  <2>4. r = [b EXCEPT !.used = TRUE] BY <2>1 DEF Evaluated, ApplyScope
  <2> HIDE DEF b, r
  <2> QED BY <2>3, <2>4 DEF QuerySet
<1>6. q.audited => r.audited
  <2> DEFINE b == AuditBypassOnce(t, ApplyScope(t, q))
  <2>1. ApplyScope(t, q) \in QuerySet /\ ApplyScope(t, q).audited = q.audited
    BY <1>1, <1>2, ScopeIsApplied DEF Fits
  <2>2. b \in QuerySet /\ (q.audited => b.audited) BY <2>1, AuditIsTyped
  <2>3. r = [b EXCEPT !.used = TRUE] BY DEF Evaluated
  <2> HIDE DEF b, r
  <2> QED BY <2>2, <2>3 DEF QuerySet
<1> HIDE DEF r, d
<1>7. wrote \subseteq Entries \X Entries
  BY <1>2, AuditIsTyped, PendingIsWritten DEF Fits
<1>8. Grows BY <1>1, <1>7, RowsAreAdded
<1>9. Fits(r, opened', audits')
  <2>1. audits \cup DirectRows(t, q) \subseteq audits' BY <1>1
  <2> QED BY <1>1, <1>2, <1>3, <2>1, FitsStill
<1>10. /\ Fits(new, opened', audits') /\ Pin(new) = Pin(r)
      /\ \A f \in {"reason", "empty", "eager", "aggregate", "applied", "where", "ambient",
                   "audited"} : new[f] = r[f]
  <2>1. CASE ~keeps BY <1>9, <2>1
  <2>2. CASE keeps
    <3> DEFINE m == [r EXCEPT !.cache = d]
    <3>1. /\ m \in QuerySet /\ Pin(m) = Pin(r)
          /\ \A f \in {"actor", "relation", "reason", "entry", "ambient", "mixed", "eager",
                       "aggregate", "empty", "holds", "used", "where", "applied", "audited"} : m[f] = r[f]
      BY <1>4, <1>9 DEF Fits, QuerySet, Pin
    <3>2. new = m BY <2>2
    <3> HIDE DEF m
    <3>3. Fits(m, opened', audits')
      BY <1>9, <3>1 DEF Fits, Decided, Placed, Accounted, Carries, ScopedUnpinned
    <3> QED BY <3>1, <3>2, <3>3
  <2> QED BY <2>1, <2>2
<1> HIDE DEF new
<1>11. Streams'
  <2>1. /\ \A f \in {"reason", "empty", "eager", "aggregate", "ambient"} : new[f] = q[f]
        /\ Pin(new) = Pin(q)
        /\ q.audited => new.audited
        /\ q.applied => new.applied /\ new.where = q.where
    BY <1>3, <1>5, <1>6, <1>10
  <2>2. querysets' = [querysets EXCEPT ![n] = new] /\ UNCHANGED stream BY <1>1
  <2> QED BY <2>1, <2>2, StreamGoesOn DEF q
<1>12. ReadsFit'
  <2>1. CASE q.empty BY <1>1, <2>1, NothingIsRead
  <2>2. CASE ~q.empty
    <3> DEFINE s == Statement(t, r, d, q.used, wrote)
    <3>1. /\ s.rows = s.of.where /\ s.of = r /\ s.as = d /\ s.context = context[t]
          /\ s.again = q.used /\ s.wrote = wrote
      BY DEF Statement
    <3>2. read' = s BY <1>1, <2>2
    <3> HIDE DEF s
    <3>3. r \in QuerySet BY <1>9 DEF Fits
    <3>4. context[t].sudo # 0 => <<context[t].sudo, context[t].sudo>> \in audits'
      BY <1>1, <1>2 DEF InEffect
    <3>5. r.reason # 0 /\ ~r.mixed => Recorded(r.reason, audits')
      <4>1. r.reason = q.reason /\ r.mixed = q.mixed BY <1>3
      <4> QED BY <1>1, <1>3, <4>1 DEF Recorded
    <3>6. \A e \in r.holds : e.entry # 0 => \E row \in wrote : row[1] = e.entry
      BY <1>2, <1>3, <2>2, PendingIsWritten DEF Fits
    <3>7. r.reason = q.reason BY <1>3
    <3> HIDE DEF wrote
    <3> QED BY <1>3, <3>1, <3>2, <3>3, <3>4, <3>5, <3>6, <3>7, StatementFits
  <2> QED BY <2>1, <2>2
<1>13. InstancesFit' BY <1>1, <1>8, InstancesAreLeft
<1> QED BY <1>1, <1>8, <1>10, <1>11, <1>12, <1>13, InPlace

\* An iterator is called: iterator() scopes there and then, aiterator() decides.
LEMMA IterateFits ==
    ASSUME IInv, NEW t \in Tasks, NEW n \in QuerySets, Iterate(t, n) \/ AIterate(t, n)
    PROVE IInv'
<1> DEFINE q == querysets[n]
           d == EffectiveActor(t, q)
           r == Evaluated(t, q)
<1>1. /\ Fits(q, opened, audits) /\ context[t] \in Context /\ opened \in Seq(Kinds)
  BY DEF IInv, QuerySetsFit, TasksFit, LogsFit
<1>2. d # Refused /\ ~q.empty /\ read' = NoRead /\ UNCHANGED <<context, blocks, instances, opened>>
  BY DEF Iterate, AIterate, Resolvable
<1>3. d \in Decisions /\ ReadsFor(q, d) /\ q.used \in BOOLEAN
  BY <1>1, <1>2, Resolution DEF Fits, ReadsFor, QuerySet
<1>4. CASE Iterate(t, n)
  <2>1. /\ querysets' = [querysets EXCEPT ![n] = r] /\ audits' = audits \cup DirectRows(t, q)
        /\ stream' = [of |-> n, as |-> d, ready |-> TRUE, again |-> q.used]
    BY <1>4 DEF Iterate, Evaluated
  <2>2. DirectRows(t, q) \subseteq Entries \X Entries BY <1>1, AuditIsTyped DEF Fits
  <2>3. Grows BY <1>2, <2>1, <2>2, RowsAreAdded
  <2> HIDE DEF q
  <2>4. /\ Fits(r, opened, audits \cup DirectRows(t, q)) /\ r.applied /\ r.empty = q.empty
        /\ ReadsFor(r, d) /\ ScopeIsFor(r, d, q.used)
        /\ r.reason # 0 => r.audited \/ r.ambient
    <3>1. d # Refused /\ d = EffectiveActor(t, q) BY <1>2
    <3>2. r = Evaluated(t, q) OBVIOUS
    <3> HIDE DEF r, d
    <3> QED BY <1>1, <3>1, <3>2, EvaluationFits
  <2> HIDE DEF r, d
  <2>5. Fits(r, opened', audits') BY <1>2, <2>1, <2>4
  <2>6. StreamFits(stream', r) BY <1>2, <1>3, <2>1, <2>4 DEF StreamFits
  <2>7. QuerySetsFit' /\ querysets'[n] = r BY <2>1, <2>3, <2>5, OneQuerySetChanges
  <2>8. Streams' BY <2>1, <2>6, <2>7 DEF Streams
  <2> QED BY <1>2, <2>1, <2>3, <2>5, <2>8, InPlace, InstancesAreLeft, NothingIsRead
<1>5. CASE AIterate(t, n)
  <2>1. /\ UNCHANGED <<querysets, audits>>
        /\ stream' = [of |-> n, as |-> d, ready |-> FALSE, again |-> q.used]
    BY <1>5 DEF AIterate
  <2>2. Grows BY <1>2, <2>1, NothingIsLogged
  <2>3. StreamFits(stream', q)
    <3> HIDE DEF q, d
    <3> QED BY <1>2, <1>3, <2>1 DEF StreamFits
  <2>4. Streams' BY <2>1, <2>3 DEF Streams
  <2> QED BY <1>2, <2>1, <2>2, <2>4, TasksStay, QuerySetsAreLeft, InstancesAreLeft, NothingIsRead
      DEF IInv, Grows
<1> QED BY <1>4, <1>5

\* The consumer runs the statement for the authority the iterator was called
\* under; a queryset that was not scoped until now is scoped for that.
LEMMA ConsumeFits ==
    ASSUME IInv, NEW t \in Tasks, Consume(t)
    PROVE IInv'
<1> DEFINE n == stream.of
           q == querysets[n]
           d == stream.as
           late == ~stream.ready /\ ~q.applied
           p == [q EXCEPT !.applied = TRUE, !.decision = d, !.used = TRUE,
                          !.where = IF d = Bypass THEN q.where ELSE q.where \cup {d}]
           scoped == IF late THEN p ELSE q
           owed == IF stream.ready THEN {} ELSE DirectRows(t, q)
           wrote == owed \cup PendingRows(q)
           r == IF stream.ready THEN scoped ELSE AuditBypassOnce(t, scoped)
           again == stream.again \/ (~stream.ready /\ q.used)
           s == [Statement(t, r, d, again, wrote) EXCEPT !.streamed = TRUE]
<1>1. stream # NoStream /\ n \in QuerySets /\ StreamFits(stream, q)
  BY DEF Consume, IInv, Streams
<1>2. /\ scoped = IF stream.ready \/ q.applied THEN q ELSE p
      /\ stream.ready \in BOOLEAN /\ stream.again \in BOOLEAN
  BY <1>1 DEF StreamFits
<1>3. /\ querysets' = [querysets EXCEPT ![n] = r] /\ audits' = audits \cup wrote
      /\ read' = s /\ stream' = NoStream
      /\ UNCHANGED <<context, blocks, instances, opened>>
  <2>1. p = [q EXCEPT !.applied = TRUE, !.decision = d, !.used = TRUE,
                      !.where = IF d = Bypass THEN @ ELSE @ \cup {d}]
    BY <1>1 DEF IInv, QuerySetsFit, QuerySet
  <2> HIDE DEF p
  <2> QED BY <1>2, <2>1 DEF Consume
<1>4. /\ Fits(q, opened, audits) /\ context[t] \in Context /\ InEffect(context[t], opened, audits)
      /\ opened \in Seq(Kinds)
  BY <1>1 DEF IInv, QuerySetsFit, TasksFit, LogsFit
<1>5. s.rows = s.of.where /\ s.of = r /\ s.as = d /\ s.context = context[t] /\ s.again = again
      /\ s.streamed = TRUE /\ s.wrote = wrote
  BY DEF Statement
<1> HIDE DEF s, q, n
<1>6. /\ d \in Decisions /\ ~q.empty /\ ReadsFor(q, d)
      /\ stream.ready => q.applied /\ ScopeIsFor(q, d, stream.again)
      /\ Pin(q) \in Actors \cup {Nobody} /\ Pin(q) # Bypass
      /\ d # Bypass => d \in Actors \cup {Nobody}
  BY <1>1, <1>4, PinIsTyped, AuthorityAssumption
     DEF StreamFits, Fits, Decisions, AuthorityAssumption
<1> HIDE DEF d
<1>7. late => /\ p \in QuerySet /\ Pin(p) = Pin(q) /\ p.applied /\ p.used /\ p.where = Wanted(d)
              /\ \A f \in {"actor", "relation", "reason", "entry", "audited", "ambient", "mixed",
                           "eager", "aggregate", "empty", "holds", "cache"} : p[f] = q[f]
  <2>1. SUFFICES ASSUME late
                 PROVE /\ p \in QuerySet /\ Pin(p) = Pin(q) /\ p.applied /\ p.used /\ p.where = Wanted(d)
                       /\ \A f \in {"actor", "relation", "reason", "entry", "audited", "ambient",
                                    "mixed", "eager", "aggregate", "empty", "holds", "cache"} :
                            p[f] = q[f]
    OBVIOUS
  <2>2. q \in QuerySet /\ q.where = {} BY <1>4, <2>1 DEF Fits, Decided
  <2>3. Wanted(d) \subseteq Actors \cup {Nobody} BY <1>6 DEF Wanted
  <2>4. p = [q EXCEPT !.applied = TRUE, !.decision = d, !.used = TRUE, !.where = Wanted(d)]
    BY <2>2 DEF Wanted
  <2> HIDE DEF p
  <2> QED BY <1>6, <2>2, <2>3, <2>4 DEF QuerySet, Pin
<1> HIDE DEF p
<1>8. /\ scoped \in QuerySet /\ Pin(scoped) = Pin(q)
      /\ \A f \in {"actor", "relation", "reason", "entry", "audited", "ambient", "mixed",
                   "eager", "aggregate", "empty", "holds"} : scoped[f] = q[f]
      /\ ~late => scoped = q
      /\ late => scoped.applied /\ scoped.used /\ scoped.where = Wanted(d)
  BY <1>4, <1>7 DEF Fits
<1>9. late \/ q.applied BY <1>6
<1> HIDE DEF scoped
<1>10. ScopedUnpinned(scoped) = ScopedUnpinned(q) BY <1>8 DEF ScopedUnpinned
<1>11. Fits(scoped, opened, audits)
  <2>1. Decided(q) BY <1>4 DEF Fits
  <2>2. Decided(scoped)
    BY <1>6, <1>8, <1>10, <2>1 DEF Decided, ReadsFor, Wanted
  <2>3. Placed(scoped, opened) /\ Accounted(scoped, audits) /\ Carries(scoped)
    BY <1>4, <1>8 DEF Fits, Placed, Accounted, Carries
  <2> QED BY <1>8, <2>2, <2>3 DEF Fits
<1>12. DirectRows(t, scoped) = DirectRows(t, q)
  BY <1>8 DEF DirectRows, BypassRows, Owes
<1>13. /\ Fits(r, opened, audits \cup owed) /\ Pin(r) = Pin(scoped)
       /\ \A f \in {"reason", "mixed", "eager", "aggregate", "empty", "holds", "where", "applied",
                    "used"} : r[f] = scoped[f]
  <2>1. CASE stream.ready
    <3>1. r = scoped /\ owed = {} BY <2>1
    <3> QED BY <1>11, <3>1
  <2>2. CASE ~stream.ready
    <3>1. r = AuditBypassOnce(t, scoped) /\ owed = DirectRows(t, scoped) BY <1>12, <2>2
    <3> HIDE DEF r, owed
    <3> QED BY <1>8, <1>11, <3>1, AuditFits, AuditIsTyped
  <2> QED BY <2>1, <2>2
<1>14. owed \subseteq Entries \X Entries /\ PendingRows(q) \subseteq Entries \X Entries
  BY <1>4, AuditIsTyped, PendingIsWritten DEF Fits
<1>15. q.reason # 0 /\ ~q.mixed => Recorded(q.reason, audits')
  <2>1. CASE stream.ready
    <3>1. q.reason # 0 /\ ~q.mixed => Recorded(q.reason, audits)
      BY <1>1, <1>4, <2>1 DEF StreamFits, Fits, Accounted
    <3> QED BY <1>3, <3>1 DEF Recorded
  <2>2. CASE ~stream.ready
    <3>1. q.reason # 0 /\ ~q.mixed => Recorded(q.reason, audits \cup DirectRows(t, q))
      BY <1>4, AuditIsKept DEF Fits
    <3>2. audits \cup DirectRows(t, q) \subseteq audits' BY <1>3, <2>2
    <3> QED BY <3>1, <3>2 DEF Recorded
  <2> QED BY <2>1, <2>2
<1>16. \A e \in q.holds : e.entry # 0 => \E row \in wrote : row[1] = e.entry
  BY <1>4, <1>6, PendingIsWritten DEF Fits
<1> HIDE DEF r
<1>17. Grows
  <2>1. wrote \subseteq Entries \X Entries BY <1>14
  <2> HIDE DEF wrote
  <2> QED BY <1>3, <2>1, RowsAreAdded
<1>18. Fits(r, opened', audits')
  <2>1. audits \cup owed \subseteq audits' BY <1>3
  <2> QED BY <1>3, <1>4, <1>13, <2>1, FitsStill
<1>19. ReadsFit'
  <2>1. /\ Pin(r) = Pin(q) /\ ScopedUnpinned(r) = ScopedUnpinned(q)
        /\ r.reason = q.reason /\ r.mixed = q.mixed /\ r.holds = q.holds
        /\ r.where = scoped.where
    BY <1>8, <1>13 DEF ScopedUnpinned
  <2>2. ReadsFor(r, d) BY <1>6, <2>1 DEF ReadsFor
  <2>3. stream.ready => ~late /\ again = stream.again BY <1>2
  <2>4. ~late => Decided(q) /\ q.applied /\ r.where = q.where BY <1>4, <1>8, <1>9, <2>1 DEF Fits
  <2>5. late => r.where = Wanted(d) BY <1>8, <2>1
  <2>6. ~stream.ready => (q.used => again) BY <1>2
  <2> HIDE DEF late, again
  <2>7. ScopeIsFor(r, d, again)
    <3>1. CASE stream.ready BY <1>6, <2>1, <2>3, <2>4, <3>1 DEF ScopeIsFor
    <3>2. CASE ~stream.ready
      BY <1>6, <2>1, <2>4, <2>5, <2>6, <3>2 DEF ScopeIsFor, Decided, ReadsFor, Wanted
    <3> QED BY <3>1, <3>2
  <2>8. r.where = {} => r.reason # 0 \/ again \/ d = Bypass \/ ScopedUnpinned(r)
    BY <2>7 DEF ScopeIsFor, Wanted
  <2>9. context[t].sudo # 0 => <<context[t].sudo, context[t].sudo>> \in audits'
    BY <1>3, <1>4 DEF InEffect
  <2>10. r \in QuerySet BY <1>18 DEF Fits
  <2> HIDE DEF wrote
  <2> QED BY <1>3, <1>5, <1>15, <1>16, <2>1, <2>2, <2>7, <2>8, <2>9, <2>10, StatementFits
<1>20. Streams' BY <1>3 DEF Streams
<1>21. InstancesFit' BY <1>3, <1>17, InstancesAreLeft
<1> QED BY <1>1, <1>3, <1>17, <1>18, <1>19, <1>20, <1>21, InPlace

\* What the audit in place leaves to show.
LEMMA AuditInPlace ==
    ASSUME IInv, NEW t \in Tasks, NEW n \in QuerySets,
           querysets' = [querysets EXCEPT ![n] = AuditBypassOnce(t, querysets[n])],
           audits' = audits \cup DirectRows(t, querysets[n]),
           UNCHANGED <<context, blocks, stream, opened>>
    PROVE /\ Grows /\ TasksFit' /\ QuerySetsFit' /\ Streams' /\ LogsFit'
          /\ querysets[n].reason # 0 /\ ~querysets[n].mixed => Recorded(querysets[n].reason, audits')
<1> DEFINE q == querysets[n]
           r == AuditBypassOnce(t, q)
<1>1. Fits(q, opened, audits) BY DEF IInv, QuerySetsFit
<1> HIDE DEF q
<1>2. /\ Fits(r, opened, audits \cup DirectRows(t, q))
      /\ DirectRows(t, q) \subseteq Entries \X Entries
  BY <1>1, AuditFits
<1>3. /\ Pin(r) = Pin(q) /\ (q.audited => r.audited)
      /\ \A f \in {"actor", "relation", "reason", "entry", "ambient", "mixed", "eager",
                   "aggregate", "empty", "holds", "used", "cache", "where", "applied"} : r[f] = q[f]
  BY <1>1, AuditIsTyped DEF Fits
<1>4. q.reason # 0 /\ ~q.mixed => Recorded(q.reason, audits \cup DirectRows(t, q))
  BY <1>1, AuditIsKept DEF Fits
<1>5. audits' = audits \cup DirectRows(t, q) /\ querysets' = [querysets EXCEPT ![n] = r]
  BY DEF q
<1> HIDE DEF r
<1>6. Grows BY <1>2, <1>5, RowsAreAdded
<1>7. Fits(r, opened', audits') BY <1>2, <1>5
<1>8. Streams'
  <2>1. /\ \A f \in {"reason", "empty", "eager", "aggregate", "ambient"} : r[f] = querysets[n][f]
        /\ Pin(r) = Pin(querysets[n])
        /\ querysets[n].audited => r.audited
        /\ querysets[n].applied => r.applied /\ r.where = querysets[n].where
    BY <1>3 DEF q
  <2> QED BY <1>5, <2>1, StreamGoesOn
<1>9. QuerySetsFit' BY <1>5, <1>6, <1>7, OneQuerySetChanges
<1>10. q.reason # 0 /\ ~q.mixed => Recorded(q.reason, audits') BY <1>4, <1>5
<1> QED BY <1>6, <1>8, <1>9, <1>10, TasksStay DEF Grows, q

\* A second _fetch_all() of rows that are kept.
LEMMA FetchAgainFits ==
    ASSUME IInv, NEW t \in Tasks, NEW n \in QuerySets, FetchAgain(t, n)
    PROVE IInv'
<1> DEFINE q == querysets[n]
           r == AuditBypassOnce(t, q)
           rows == DirectRows(t, q)
<1>1. /\ querysets' = [querysets EXCEPT ![n] = r] /\ audits' = audits \cup rows
      /\ read' = NoRead /\ UNCHANGED <<context, blocks, instances, stream, opened>>
  BY DEF FetchAgain
<1>2. Grows /\ TasksFit' /\ QuerySetsFit' /\ Streams' /\ LogsFit' BY <1>1, AuditInPlace
<1> QED BY <1>1, <1>2, InstancesAreLeft, NothingIsRead DEF IInv

\* raw(), which takes a bypass of its own moment.
LEMMA RawFits ==
    ASSUME IInv, NEW t \in Tasks, NEW n \in QuerySets, Raw(t, n)
    PROVE IInv'
<1> DEFINE q == querysets[n]
           g == [q EXCEPT !.where = {}, !.holds = {}]
           rows == DirectRows(t, q)
<1>1. /\ querysets' = [querysets EXCEPT ![n] = AuditBypassOnce(t, q)] /\ audits' = audits \cup rows
      /\ EffectiveActor(t, q) = Bypass
      /\ read' = Statement(t, g, Bypass, FALSE, rows)
      /\ UNCHANGED <<context, blocks, instances, stream, opened>>
  BY DEF Raw
<1>2. /\ Grows /\ TasksFit' /\ QuerySetsFit' /\ Streams' /\ LogsFit'
      /\ q.reason # 0 /\ ~q.mixed => Recorded(q.reason, audits')
  BY <1>1, AuditInPlace
<1>3. q \in QuerySet BY DEF IInv, QuerySetsFit
<1> HIDE DEF q
<1>4. /\ g \in QuerySet /\ Pin(g) = Pin(q) /\ g.where = {} /\ g.holds = {}
      /\ g.reason = q.reason /\ g.mixed = q.mixed /\ g.aggregate = q.aggregate
  BY <1>3 DEF QuerySet, Pin
<1> HIDE DEF g
<1>5. EffectiveActor(t, g) = Bypass BY <1>1, <1>4, SamePins
<1>6. Bypass # Refused /\ g.where = Wanted(Bypass)
  BY <1>4, AuthorityAssumption DEF Wanted, AuthorityAssumption
<1>7. g.reason # 0 /\ ~g.mixed => Recorded(g.reason, audits') BY <1>2, <1>4
<1>8. audits \subseteq audits' BY <1>1
<1>9. ReadsFit' BY <1>1, <1>4, <1>5, <1>6, <1>7, <1>8, GateFits
<1> QED BY <1>1, <1>2, <1>9, InstancesAreLeft DEF IInv

LEMMA ReadStepFits ==
    ASSUME IInv, NEW t \in Tasks, ReadStep(t)
    PROVE IInv'
<1>1. ASSUME NEW n \in QuerySets, Fetch(t, n) \/ Count(t, n) PROVE IInv'
  BY <1>1, EvaluateFits DEF Fetch, Count
<1> QED BY <1>1, FetchAgainFits, RawFits, IterateFits, ConsumeFits DEF ReadStep

-----------------------------------------------------------------------------
(* Instances.                                                              *)

\* The pins of an instance are replaced.
LEMMA KeepFits ==
    ASSUME IInv, Grows, NEW i \in Instances, NEW o, Keep(i, o), o \in Instance,
           InstanceFits(o, opened', audits')
    PROVE IInv'
BY TasksStay, QuerySetsAreLeft, OneInstanceChanges, StreamIsLeft, NothingIsRead
   DEF IInv, Grows, Keep

\* check_access() and the gate of save().
LEMMA CheckFits ==
    ASSUME IInv, NEW t \in Tasks, NEW i \in Instances, CheckInstance(t, i)
    PROVE IInv'
<1> DEFINE o == instances[i]
           as == Resolve(t, o.actor, o.reason # 0, FALSE)
           w == IF as = Bypass THEN {} ELSE {as}
           g == [Fresh EXCEPT !.actor = o.actor, !.reason = o.reason, !.entry = o.reason,
                              !.where = w]
           wrote == IF o.reason # 0 /\ ~o.audited THEN {<<o.reason, o.reason>>} ELSE {}
           p == [o EXCEPT !.audited = o.audited \/ o.reason # 0]
<1>1. /\ as # Refused /\ audits' = audits \cup wrote
      /\ read' = Statement(t, g, as, FALSE, wrote)
      /\ UNCHANGED <<context, blocks, querysets, stream, opened>>
  BY DEF CheckInstance
<1>2. /\ o \in Instance /\ InstanceFits(o, opened, audits) /\ context[t] \in Context
      /\ instances \in [Instances -> Instance]
  BY DEF IInv, InstancesFit, TasksFit
<1>3. instances' = [instances EXCEPT ![i] = p]
  <2>1. [instances EXCEPT ![i].audited = @ \/ o.reason # 0] = [instances EXCEPT ![i] = p]
    BY <1>2 DEF Instance
  <2> QED BY <2>1 DEF CheckInstance
<1> HIDE DEF o
<1>4. /\ o.actor \in Actors \cup {Nobody} /\ o.reason \in Entries /\ o.audited \in BOOLEAN
      /\ 0 \in Entries
  BY <1>2, AuthorityAssumption DEF Instance, Entries, AuthorityAssumption
<1>5. as \in Decisions
  BY <1>1, <1>2, <1>4 DEF Resolve, Decisions, Context
<1>6. w \subseteq Actors \cup {Nobody} /\ w = Wanted(as) BY <1>5 DEF Decisions, Wanted
<1>7. as = Resolve(t, o.actor, o.reason # 0, FALSE) OBVIOUS
<1> HIDE DEF as, w
<1>8. /\ g \in QuerySet /\ g.where = w /\ g.holds = {} /\ g.reason = o.reason
      /\ g.actor = o.actor /\ g.relation = NotRelated /\ g.aggregate = FALSE /\ g.mixed = FALSE
  BY <1>4, <1>6 DEF Fresh, QuerySet
<1> HIDE DEF g
<1>9. as = EffectiveActor(t, g) BY <1>7, <1>8 DEF EffectiveActor, Pin
<1>10. p \in Instance /\ p.reason = o.reason /\ p.audited = (o.audited \/ o.reason # 0)
  BY <1>2, <1>4 DEF Instance
<1> HIDE DEF p
<1>11. wrote \subseteq Entries \X Entries BY <1>4
<1>12. o.reason # 0 => <<o.reason, o.reason>> \in audits' BY <1>1, <1>2 DEF InstanceFits
<1> HIDE DEF wrote
<1>13. Grows BY <1>1, <1>11, RowsAreAdded
<1>14. InstanceFits(p, opened', audits')
  BY <1>1, <1>2, <1>10, <1>12 DEF InstanceFits
<1>15. InstancesFit' BY <1>3, <1>10, <1>13, <1>14, OneInstanceChanges
<1>16. g.reason # 0 /\ ~g.mixed => Recorded(g.reason, audits')
  BY <1>8, <1>12 DEF Recorded
<1>17. ReadsFit' BY <1>1, <1>6, <1>8, <1>9, <1>13, <1>16, GateFits DEF Grows
<1> QED BY <1>1, <1>13, <1>15, <1>17, TasksStay, QuerySetsAreLeft, StreamIsLeft DEF IInv, Grows

\* queryset.insert(obj).
LEMMA InsertFits ==
    ASSUME IInv, NEW t \in Tasks, NEW n \in QuerySets, NEW i \in Instances, Insert(t, n, i)
    PROVE IInv'
<1> DEFINE q == querysets[n]
           as == EffectiveActor(t, q)
           w == IF as = Bypass THEN {} ELSE {as}
           g == [q EXCEPT !.where = w, !.holds = {}]
           rows == DirectRows(t, q)
           o == instances[i]
           p == PinsOfInsertion(q, o, as)
<1>1. /\ as \notin {Refused, Nobody}
      /\ querysets' = [querysets EXCEPT ![n] = AuditBypassOnce(t, q)] /\ audits' = audits \cup rows
      /\ read' = Statement(t, g, as, FALSE, rows)
      /\ instances' = [instances EXCEPT ![i] = p]
      /\ UNCHANGED <<context, blocks, stream, opened>>
  BY DEF Insert
<1>2. /\ Grows /\ TasksFit' /\ QuerySetsFit' /\ Streams' /\ LogsFit'
      /\ q.reason # 0 /\ ~q.mixed => Recorded(q.reason, audits')
  BY <1>1, AuditInPlace
<1>3. q \in QuerySet /\ o \in Instance /\ context[t] \in Context
  BY DEF IInv, QuerySetsFit, InstancesFit, TasksFit
<1> HIDE DEF q, o
<1>4. as \in Decisions /\ as = EffectiveActor(t, q) BY <1>1, <1>3, Resolution
<1> HIDE DEF as
<1>5. w \subseteq Actors \cup {Nobody} /\ w = Wanted(as) BY <1>4 DEF Decisions, Wanted
<1> HIDE DEF w
<1>6. /\ g \in QuerySet /\ Pin(g) = Pin(q) /\ g.where = w /\ g.holds = {}
      /\ g.reason = q.reason /\ g.mixed = q.mixed /\ g.aggregate = q.aggregate
  BY <1>3, <1>5 DEF QuerySet, Pin
<1> HIDE DEF g
<1>7. as = EffectiveActor(t, g) BY <1>4, <1>6, SamePins
<1>8. p \in Instance /\ p.reason = 0
  <2> DEFINE m == IF as = Bypass THEN Nobody ELSE as
  <2>1. m \in Actors \cup {Nobody} BY <1>4 DEF Decisions
  <2>2. 0 \in Entries BY AuthorityAssumption DEF Entries, AuthorityAssumption
  <2>3. p = [o EXCEPT !.actor = m, !.reason = 0] BY DEF PinsOfInsertion
  <2> HIDE DEF m, p
  <2> QED BY <1>3, <2>1, <2>2, <2>3 DEF Instance
<1> HIDE DEF p
<1>9. InstancesFit' BY <1>1, <1>2, <1>8, OneInstanceChanges DEF InstanceFits
<1>10. g.reason # 0 /\ ~g.mixed => Recorded(g.reason, audits') BY <1>2, <1>6
<1>11. ReadsFit' BY <1>1, <1>2, <1>5, <1>6, <1>7, <1>10, GateFits DEF Grows
<1> QED BY <1>2, <1>9, <1>11 DEF IInv

LEMMA InstanceStepFits ==
    ASSUME IInv, NEW t \in Tasks, InstanceStep(t)
    PROVE IInv'
<1>1. /\ 0 \in Entries /\ instances \in [Instances -> Instance]
      /\ Unpinned \in Instance /\ Unpinned.reason = 0
      /\ \A i \in Instances : InstanceFits(instances[i], opened, audits)
  BY AuthorityAssumption
     DEF IInv, InstancesFit, Entries, Unpinned, Instance, AuthorityAssumption
<1>2. ASSUME NEW i \in Instances, NEW n \in QuerySets, Load(n, i) PROVE IInv'
  <2> DEFINE c == querysets[n].cache
             o == [Unpinned EXCEPT !.actor = IF c \in Actors THEN c ELSE @]
  <2>1. Grows /\ Keep(i, o) BY <1>2, NothingIsLogged DEF Load
  <2>2. o \in Instance /\ o.reason = 0 BY <1>1 DEF Unpinned, Instance
  <2> HIDE DEF o
  <2> QED BY <2>1, <2>2, KeepFits DEF InstanceFits
<1>3. ASSUME NEW i \in Instances, NEW a \in Actors, PinActor(i, a) PROVE IInv'
  <2> DEFINE o == [actor |-> a, reason |-> 0, audited |-> FALSE]
  <2>1. Grows /\ Keep(i, o) BY <1>3, NothingIsLogged DEF PinActor
  <2>2. o \in Instance /\ o.reason = 0 BY <1>1 DEF Instance
  <2> HIDE DEF o
  <2> QED BY <2>1, <2>2, KeepFits DEF InstanceFits
<1>4. ASSUME NEW i \in Instances, PinSudo(i) PROVE IInv'
  <2> DEFINE k == Bypassed + 1
             o == [instances[i] EXCEPT !.reason = k, !.audited = FALSE]
  <2>1. OpenBypass("instance") /\ Keep(i, o) /\ audits' = audits \cup {}
    BY <1>4 DEF PinSudo
  <2>2. "instance" \in Kinds /\ {} \in SUBSET (Entries \X Entries) BY DEF Kinds
  <2>3. /\ Grows /\ k \in Entries /\ k <= Len(opened') /\ opened'[k] = "instance"
    BY <2>1, <2>2, BypassIsOpened
  <2> HIDE DEF k
  <2>4. o \in Instance /\ o.reason = k /\ o.audited = FALSE BY <1>1, <2>3 DEF Instance
  <2> HIDE DEF o
  <2> QED BY <2>1, <2>3, <2>4, KeepFits DEF InstanceFits
<1>5. ASSUME NEW i \in Instances, Unsudo(i) PROVE IInv'
  <2> DEFINE o == [instances[i] EXCEPT !.reason = 0, !.audited = FALSE]
  <2>1. Grows /\ Keep(i, o) BY <1>5, NothingIsLogged DEF Unsudo
  <2>2. o \in Instance /\ o.reason = 0 BY <1>1 DEF Instance
  <2> HIDE DEF o
  <2> QED BY <2>1, <2>2, KeepFits DEF InstanceFits
<1>6. ASSUME NEW i \in Instances, PickleInstance(i) PROVE IInv'
  <2>1. Grows /\ Keep(i, Unpinned) BY <1>6, NothingIsLogged DEF PickleInstance
  <2> QED BY <1>1, <2>1, KeepFits DEF InstanceFits
<1> QED BY <1>2, <1>3, <1>4, <1>5, <1>6, CheckFits, InsertFits DEF InstanceStep

-----------------------------------------------------------------------------
(* The theorems.                                                           *)

LEMMA IInvInitially ==
    ASSUME Init PROVE IInv
<1>1. 0 \in Entries /\ MaxEntries \in Nat /\ MaxBlocks \in Nat
  BY AuthorityAssumption DEF Entries, AuthorityAssumption
<1>2. NoContext \in Context /\ NoContext.sudo = 0 BY <1>1 DEF NoContext, Context
<1>3. Unpinned \in Instance /\ Unpinned.reason = 0 BY <1>1 DEF Unpinned, Instance
<1>4. opened = << >> /\ opened \in Seq(Kinds) /\ Len(opened) = 0 BY DEF Init
<1>5. << >> \in Seq(Block) /\ Len(<< >>) = 0 /\ DOMAIN << >> = {} OBVIOUS
<1>6. TasksFit
  <2>1. /\ context \in [Tasks -> Context] /\ blocks \in [Tasks -> Seq(Block)]
        /\ \A t \in Tasks : context[t] = NoContext /\ blocks[t] = << >>
    BY <1>2, <1>5 DEF Init
  <2>2. \A t \in Tasks : HoldsWhatIsSet(context[t], blocks[t], Len(blocks[t]))
    BY <1>5, <2>1 DEF HoldsWhatIsSet
  <2> QED BY <1>1, <1>2, <1>5, <2>1, <2>2 DEF TasksFit, Nested, InEffect
<1>7. QuerySetsFit
  <2>1. Fits(Fresh, opened, audits) BY FreshFits
  <2> QED BY <2>1 DEF Init, QuerySetsFit, Fits
<1>8. InstancesFit BY <1>3 DEF Init, InstancesFit, InstanceFits
<1>9. Streams /\ LogsFit BY <1>1, <1>4 DEF Init, Streams, LogsFit
<1>10. ReadsFit
  BY DEF Init, ReadsFit, ReadsFollowTheirAuthority, PinsOutrankTheBlocks, RowsAreReadForTheirActor,
         ElevationNeedsABypass, BypassesAreAudited, ElevatedReadsAreAudited,
         EmbeddedBypassesAreAudited
<1> QED BY <1>6, <1>7, <1>8, <1>9, <1>10 DEF IInv

LEMMA IInvStays ==
    ASSUME IInv, [Next]_vars PROVE IInv'
<1>1. ASSUME Next PROVE IInv'
  BY <1>1, ContextStepFits, BuildStepFits, ReadStepFits, InstanceStepFits DEF Next
<1>2. ASSUME UNCHANGED vars PROVE IInv'
  BY <1>2 DEF vars, IInv, TasksFit, Nested, QuerySetsFit, InstancesFit, Streams, LogsFit, ReadsFit,
     ReadsFollowTheirAuthority, PinsOutrankTheBlocks, RowsAreReadForTheirActor,
     ElevationNeedsABypass, BypassesAreAudited, ElevatedReadsAreAudited, EmbeddedBypassesAreAudited
<1> QED BY <1>1, <1>2

\* What holds of a stack of blocks is what the property says of its context.
LEMMA ContextsFollow ==
    ASSUME IInv PROVE AuthorityStaysInItsPlace /\ TypeOK
<1>1. ContextsFollowTheirBlocks
  <2>1. SUFFICES ASSUME NEW t \in Tasks, NEW v \in {"actor", "sudo"}, NEW k \in DOMAIN blocks[t],
                        v \in blocks[t][k].sets, SetLast(blocks[t], k, v)
                 PROVE context[t][v] = blocks[t][k].new[v]
    BY DEF ContextsFollowTheirBlocks
  <2>2. Nested(t) BY DEF IInv, TasksFit
  <2>3. DOMAIN blocks[t] = 1..Len(blocks[t]) BY <2>2 DEF Nested
  <2> QED BY <2>1, <2>2, <2>3 DEF Nested, HoldsWhatIsSet, SetLast
<1>2. SudoStaysWhereItWasPut
  BY DEF IInv, QuerySetsFit, Fits, Placed, InstancesFit, InstanceFits, SudoStaysWhereItWasPut
<1>3. TypeOK
  BY DEF IInv, TasksFit, Nested, QuerySetsFit, InstancesFit, LogsFit, TypeOK, Kinds, Bypassed
<1> QED BY <1>1, <1>2, <1>3 DEF AuthorityStaysInItsPlace

LEMMA Invariance == Spec => []IInv
BY IInvInitially, IInvStays, PTL DEF Spec

\* Contexts, blocks, querysets, instances and the audit stay in their types,
\* however programs build, evaluate and hand on querysets.
THEOREM TypeCorrectness == Spec => []TypeOK
BY Invariance, ContextsFollow, PTL

\* A block that is left restores what the blocks around it had set, in any
\* nesting, and a bypass stays on what it was put on (actor_context,
\* _sudo_state_context, _combined_scope, insert).
THEOREM AuthorityStays == Spec => []AuthorityStaysInItsPlace
BY Invariance, ContextsFollow, PTL

\* Rows are those of the actor stamped on them, a pin outranks the blocks, and
\* nothing is read unrestricted without a bypass (resolve,
\* _apply_scope_in_place, _reset_scope, _clone).
THEOREM ReadsFollow == Spec => []ReadsFollowTheirAuthority
<1>1. IInv => ReadsFollowTheirAuthority BY DEF IInv, ReadsFit
<1> QED BY <1>1, Invariance, PTL

\* A statement that runs under a bypass, of its own, of the block or of an
\* embedded queryset, has its audit row (_audit_bypass_once, resolve_expression).
THEOREM BypassesAudited == Spec => []BypassesAreAudited
<1>1. IInv => BypassesAreAudited BY DEF IInv, ReadsFit
<1> QED BY <1>1, Invariance, PTL
===============================================================================
