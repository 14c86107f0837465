----------------------------- MODULE LbmrDecode -----------------------------
(***************************************************************************)
(* DecodeLbmrPacket of TRsniffer: what one topic resolution packet does to *)
(* the statistics, and the number it returns.                              *)
(*                                                                         *)
(* A packet is a record of what the bytes say: the version, how its header *)
(* options end, the header options, the type, and the records of its type. *)
(* A name is a number, a string that is stored a sequence of them: the     *)
(* formats are left out, what is put into a string and in which order is   *)
(* not.  Decoding is a fold over the records; d.ret # 0 is a return.       *)
(*                                                                         *)
(* `unset' holds what the stack gives for msg_domain_id and app_maj_ver,   *)
(* which the code sets only when the packet has the option, and the return *)
(* of whatever is read where the code has lost its place.                  *)
(***************************************************************************)
EXTENDS Integers, FiniteSets, SequencesExt

CONSTANT MaxParts    \* parts source_name has room for before a domain is refused

ASSUME MaxPartsAssumption == MaxParts \in Nat

Counters == {"otids", "tmrs", "tirs", "tqrs", "domains", "wtqrs", "umps", "ulbs",
             "dro_src", "ctxinfo", "lbmrd_keepalive"}

\* What a number in a string stands for
Domain(n) == 10 + n
Evicted == 20
\* The last of the flags that is tested is what is formatted.
ExFuncName(flags) == IF "ulb" \in flags THEN 33 ELSE IF "umq" \in flags THEN 32 ELSE 31
TmrUse == 41
TmrLeave == 42
Interest == 51
Route == 52

Start(unset) ==
  [ret |-> 0, source_name |-> <<>>, temp_buff |-> 0,
   otid_flag |-> FALSE, dro_src_flag |-> FALSE, ex_func_flag |-> FALSE, ex_func_str |-> 0,
   msg_domain_id |-> unset.domain, app_maj_ver |-> unset.version, misplaced |-> FALSE,
   prev_num_domains |-> -1,
   stored |-> <<>>, count |-> [c \in Counters |-> 0]]

Counted(d, c) == [d EXCEPT !.count[c] = @ + 1]
Return(d, code) == [d EXCEPT !.ret = code]

\* TS_stats_*: the key of the list entry, and the string kept with it
Store(d, opts, list, key, with) ==
  IF opts.stats
  THEN [d EXCEPT !.stored = Append(@, [list |-> list, key |-> key, with |-> with,
                                       timed |-> opts.save_all])]
  ELSE d

\* One record after the other, until a return
Each(Parse(_, _), d, records) ==
  LET after[i \in 0 .. Len(records)] ==
        IF i = 0 THEN d
        ELSE IF after[i - 1].ret # 0 THEN after[i - 1]
        ELSE Parse(after[i - 1], records[i])
  IN after[Len(records)]

-----------------------------------------------------------------------------
(* The options behind the records of the packet                            *)

TrailerCodes == [none |-> 0, ok |-> 0, short |-> 2, type |-> 3, len |-> 4, total |-> 5]

HeaderOption(d, o) ==
  IF o.kind = "src_type" /\ ~ o.ok THEN Return(d, 110)
  ELSE IF o.kind = "src_id" /\ ~ o.ok THEN Return(d, 111)
  ELSE IF o.kind = "local_domain" /\ ~ o.ok THEN Return(d, 120)
  ELSE IF o.kind = "zero" THEN Return(d, 112)
  ELSE IF o.kind = "local_domain" THEN [d EXCEPT !.msg_domain_id = o.val]
  ELSE IF o.kind = "version" THEN [d EXCEPT !.app_maj_ver = o.val]
  ELSE d

HeaderOptions(d, p) ==
  IF TrailerCodes[p.trailer] # 0 THEN Return(d, TrailerCodes[p.trailer])
  ELSE IF p.trailer = "none" THEN d
  ELSE Each(HeaderOption, d, p.hopts)

-----------------------------------------------------------------------------
(* Queries.  The returns 210 and 330 here, and 400 of an advertisement, ask  *)
(* for a name longer than what strncpy and snprintf copy: they never return. *)

WildcardQuery(d, opts, q) ==
  Store(Counted(d, "wtqrs"), opts, "wtqrs", <<q.topic, Domain(d.msg_domain_id)>>, 0)

Query(d, opts, q) ==
  Store([Counted(d, "tqrs") EXCEPT !.source_name = IF opts.stats THEN <<q.topic>> ELSE @],
        opts, "tqrs", <<q.topic, Domain(d.msg_domain_id)>>, 0)

-----------------------------------------------------------------------------
(* The options of a topic                                                  *)

OtidOption(d, o, tir) ==
  IF ~ o.ok THEN Return(d, 10000)
  ELSE LET seen == [Counted(d, "otids") EXCEPT !.otid_flag = TRUE]
       IN IF o.val = 0 THEN Return(seen, 10001)    \* no source in the OTID
          ELSE [seen EXCEPT !.source_name = <<o.val>>, !.temp_buff = tir.topic]

DomainIdOption(d, opts, o) ==
  LET seen == [Counted(d, "dro_src") EXCEPT !.dro_src_flag = TRUE]
  IN IF ~ opts.stats THEN seen
     ELSE IF Len(seen.source_name) < MaxParts
          THEN [seen EXCEPT !.source_name = Append(@, Domain(o.val))]
          ELSE Return(seen, 665)

\* o.val is the set of functionality flags: the persistent store of a source
\* (ume) is counted, any of the three is named.
ExFuncOption(d, opts, o) ==
  LET seen == IF "ume" \in o.val THEN [Counted(d, "umps") EXCEPT !.ex_func_flag = TRUE] ELSE d
  IN IF o.val # {} /\ opts.stats THEN [seen EXCEPT !.ex_func_str = ExFuncName(o.val)] ELSE seen

\* The size of an UME option is added to ptr twice: what follows it is not
\* read where it is.
UmeOption(d, o) == IF o.ok THEN [d EXCEPT !.misplaced = TRUE] ELSE Return(d, 501)

TopicOption(d, opts, o, tir, unset) ==
  IF d.misplaced THEN Return(d, unset.misread)
  ELSE CASE o.kind = "zero" -> Return(d, 500)
         [] o.kind = "ume" -> UmeOption(d, o)
         [] o.kind = "qinfo" -> Return(d, -1)
         [] o.kind = "rcridx" -> Return(d, 501)
         [] o.kind = "latejoin" ->
              Store(d, opts, "umps", <<tir.topic, Domain(d.msg_domain_id), o.val>>, 0)
         [] o.kind = "cost" /\ o.val = -1 ->
              Store(d, opts, "tmrs", <<Evicted, tir.topic, Domain(d.msg_domain_id)>>, 0)
         [] o.kind = "otid" -> OtidOption(d, o, tir)
         [] o.kind = "ulb" -> Store(Counted(d, "ulbs"), opts, "ulbs", <<o.val>>, 0)
         [] o.kind = "exfunc" -> ExFuncOption(d, opts, o)
         [] o.kind = "domain_id" -> DomainIdOption(d, opts, o)
         [] o.kind \in {"store", "store_group", "ctxinst"} -> d
         [] o.kind = "cost" /\ o.val # -1 -> d
         [] OTHER -> Return(d, 666)

-----------------------------------------------------------------------------
(* Advertisements                                                          *)

TopicOptions(d, opts, tir, unset) ==
  CASE tir.optlen = "none" -> d
    [] tir.optlen = "type" -> Return(d, 401)
    [] tir.optlen = "len" -> Return(d, 402)
    [] tir.optlen = "total" -> Return(d, 403)
    [] tir.optlen = "ok" ->
         Each(LAMBDA e, o : TopicOption(e, opts, o, tir, unset), d, tir.opts)

StoreOtid_FlagsKept(d, opts) ==
  LET named == IF d.ex_func_flag /\ opts.stats
               THEN [d EXCEPT !.source_name = Append(@, d.ex_func_str)] ELSE d
  IN IF d.otid_flag \/ d.dro_src_flag
     THEN Store(named, opts, "otids", named.source_name, d.temp_buff) ELSE named

\* After the options, because a domain may have been added to the name
StoreOtid(d, opts) ==
  LET named == IF d.ex_func_flag /\ opts.stats
               THEN [d EXCEPT !.source_name = Append(@, d.ex_func_str)] ELSE d
      stored == IF d.otid_flag \/ d.dro_src_flag
                THEN Store(named, opts, "otids", named.source_name, d.temp_buff) ELSE named
  IN [stored EXCEPT !.otid_flag = FALSE, !.dro_src_flag = FALSE, !.ex_func_flag = FALSE]

TransportCodes ==
  [tcp |-> 1000, lbtru |-> 1001, smx |-> 1003, lbtrm |-> 1004, rdma |-> 1005, ipc |-> 1006]

Transport(d, tir) ==
  IF tir.transport = "tcp6" THEN Return(d, 1002)
  ELSE IF tir.transport \notin DOMAIN TransportCodes THEN Return(d, 1007)
  ELSE IF ~ tir.tlen_ok THEN Return(d, TransportCodes[tir.transport])
  ELSE Counted(d, "tirs")

Advertisement(d, opts, tir, unset) ==
  IF d.misplaced THEN Return(d, unset.misread)
  ELSE LET parsed == TopicOptions(d, opts, tir, unset)
       IN IF parsed.ret # 0 THEN parsed ELSE Transport(StoreOtid(parsed, opts), tir)

\* An answer to a keepalive has neither queries nor advertisements.
IsAnswer(p) == p.type = "normal" /\ p.ntqrs = 0 /\ p.ntirs = 0

Queries(d, opts, p) == Each(LAMBDA e, q : Query(e, opts, q), d, p.tqrs)

Advertisements(d, opts, p, unset) ==
  Each(LAMBDA e, t : Advertisement(e, opts, t, unset), d, p.tirs)

Normal(d, opts, p, unset) ==
  IF IsAnswer(p) /\ opts.unicastTR THEN Return(Counted(d, "lbmrd_keepalive"), 99999)
  ELSE IF p.ntirs > 1000 THEN Return(d, 316)
  ELSE IF p.ntqrs > 250 THEN Return(d, 317)
  ELSE Advertisements(Queries(d, opts, p), opts, p, unset)

WildcardQueries(d, opts, p) ==
  IF p.pattern \notin {"regex", "pcre"} THEN Return(d, 200)
  ELSE Each(LAMBDA e, q : WildcardQuery(e, opts, q), d, p.tqrs)

-----------------------------------------------------------------------------
(* Topic management, and what routers and contexts tell each other         *)

TopicManagement(d, opts, m) ==
  LET seen == Counted(d, "tmrs")
  IN IF m.long THEN Return(seen, 1010)
     ELSE CASE m.kind = "leave" -> Store(seen, opts, "tmrs", <<m.topic, TmrLeave>>, 0)
            [] m.kind = "use" -> Store(seen, opts, "tmrs", <<m.topic, TmrUse>>, 0)
            [] OTHER -> Return(seen, 1011)

TopicManagements(d, opts, p) ==
  IF p.ntmrs > 1000 THEN Return(d, 1015)
  ELSE Each(LAMBDA e, m : TopicManagement(e, opts, m), d, p.recs)

\* Stored with or without -s
DroEntry(d, key, timed) ==
  [d EXCEPT !.stored = Append(@, [list |-> "dros", key |-> key, with |-> 0, timed |-> timed])]

TnwgCodes == [interest |-> 0, ctxinfo |-> 1300, trreq |-> 1301, other |-> 1302]

TnwgMessage(d, opts, p) ==
  IF TnwgCodes[p.tnwg] # 0 THEN Return(d, TnwgCodes[p.tnwg])
  ELSE Each(LAMBDA e, r : DroEntry(e, <<Interest, r.topic>>, opts.save_all), d, p.recs)

\* A change in the number of domains that can be reached
DomainRoute(d, opts, p) ==
  IF ~ opts.stats THEN d
  ELSE LET seen == Counted(d, "domains")
           num == Len(p.recs)
       IN IF d.prev_num_domains = num THEN seen
          ELSE [DroEntry(seen, <<Route>> \o [i \in 1 .. num |-> p.recs[i].topic], TRUE)
                  EXCEPT !.prev_num_domains = num]

ContextOption(d, opts, o) ==
  LET named == IF d.app_maj_ver > 5 /\ opts.stats
               THEN [d EXCEPT !.source_name = Append(@, o.val)] ELSE d
  IN CASE o.kind = "address" /\ ~ o.ok -> Return(d, 1450)
       [] o.kind \in {"address", "odomain"} /\ o.ok -> Counted(named, "umps")
       [] o.kind \in {"instance", "name"} -> named
       [] OTHER -> Return(d, 1460)

ContextOptions(d, opts, r) ==
  Each(LAMBDA e, o : ContextOption(e, opts, o), d, r.opts)

\* ptr is moved over the options and then by their length again: a second
\* record is not read where it is.
ContextRecord(d, opts, r, unset) ==
  IF d.misplaced THEN Return(d, unset.misread)
  ELSE LET parsed == ContextOptions(d, opts, r)
       IN IF parsed.ret # 0 THEN parsed
          ELSE [parsed EXCEPT
                  !.stored = Append(@, [list |-> "umps", key |-> parsed.source_name,
                                        with |-> 0, timed |-> opts.save_all]),
                  !.misplaced = TRUE]

ContextRecords(d, opts, p, unset) ==
  Each(LAMBDA e, r : ContextRecord(e, opts, r, unset), d, p.recs)

ContextInfo(d, opts, p, unset) ==
  ContextRecords([Counted(d, "ctxinfo") EXCEPT !.source_name = <<p.ctx_type>>], opts, p, unset)

Extended(d, opts, p, unset) ==
  CASE p.ext \in {"proxy_elect", "queue_mgmt", "context_info", "res_request"} -> d
    [] p.ext = "tnwg" -> TnwgMessage(d, opts, p)
    [] p.ext = "domain_route" -> DomainRoute(d, opts, p)
    [] p.ext = "remote_context" -> ContextInfo(d, opts, p, unset)
    [] OTHER -> Return(d, 1500)

\* A receiver or a source that says it is there
Alive(d, p, code) ==
  IF p.ntqrs # 0 \/ p.ntirs # 0 THEN Return(d, code) ELSE Counted(d, "lbmrd_keepalive")

-----------------------------------------------------------------------------

\* The types in the order of the switch
ByType(d, p, opts, unset) ==
  CASE p.type = "wc_tqrs" -> WildcardQueries(d, opts, p)
    [] p.type = "normal" -> Normal(d, opts, p, unset)
    [] p.type = "topic_mgmt" -> TopicManagements(d, opts, p)
    [] p.type = "queue_res" -> Return(d, 1100)
    [] p.type = "ext" -> Extended(d, opts, p, unset)
    [] p.type = "rcv_alive" -> Alive(d, p, 3000)
    [] p.type = "src_alive" -> Alive(d, p, 3001)
    [] OTHER -> Return(d, 1600)

\* What follows a packet that was understood (TS_lbmrd_keepalive_received is
\* the caller's)
DecodeLbmrPacket(p, opts, unset, routes) ==
  LET start == [Start(unset) EXCEPT !.prev_num_domains = routes]
      opened == HeaderOptions(start, p)
      d == ByType(opened, p, opts, unset)
  IN IF p.version \notin {0, 1} THEN Return(start, 1)
     ELSE IF opened.ret # 0 THEN opened
     ELSE IF d.ret = 0 /\ opts.unicastTR THEN Counted(d, "lbmrd_keepalive")
     ELSE d

-----------------------------------------------------------------------------
(* What a packet is: the fields that are read have values of their kinds.  *)

IsOption(o) ==
  IF o.kind = "exfunc" THEN o.val \subseteq {"ume", "umq", "ulb"} ELSE o.val \in Int

IsTopic(t) ==
  /\ t.topic \in Int /\ t.optlen \in {"none", "type", "len", "total", "ok"}
  /\ Len(t.opts) \in Nat /\ \A i \in 1 .. Len(t.opts) : IsOption(t.opts[i])

HasNumbers(opts) == Len(opts) \in Nat /\ \A i \in 1 .. Len(opts) : opts[i].val \in Int
HasTopics(recs) == Len(recs) \in Nat /\ \A i \in 1 .. Len(recs) : recs[i].topic \in Int

IsPacket(p) ==
  p.version \in {0, 1} =>
    /\ p.trailer \in DOMAIN TrailerCodes /\ HasNumbers(p.hopts)
    /\ HasTopics(p.tqrs)
    /\ Len(p.tirs) \in Nat /\ DOMAIN p.tirs = 1 .. Len(p.tirs)
    /\ \A i \in 1 .. Len(p.tirs) : IsTopic(p.tirs[i])
    /\ p.tnwg \in DOMAIN TnwgCodes /\ p.ctx_type \in Int
    /\ IF p.type = "ext" /\ p.ext = "remote_context"
       THEN Len(p.recs) \in Nat /\ \A i \in 1 .. Len(p.recs) : HasNumbers(p.recs[i].opts)
       ELSE HasTopics(p.recs)

IsUnset(u) == u.domain \in Int /\ u.version \in Int /\ u.misread \in Int

-----------------------------------------------------------------------------
(* What the options of a topic say of its source                           *)

OptionsOf(tir, kind) == {i \in 1 .. Len(tir.opts) : tir.opts[i].kind = kind}
Offers(tir) == {i \in OptionsOf(tir, "exfunc") : tir.opts[i].val # {}}
WithStore(tir) == {i \in Offers(tir) : "ume" \in tir.opts[i].val}
IsLast(i, positions) == i \in positions /\ \A j \in positions : j <= i

\* Comments at lines 976 and 1143: the OTID of a topic comes before its domains.
OtidFirst(tir) ==
  \A i \in OptionsOf(tir, "domain_id") :
    OptionsOf(tir, "otid") # {} /\ \A j \in OptionsOf(tir, "otid") : j < i

Ascending(at) == \A i, j \in DOMAIN at : i < j => at[i] < at[j]
SourceOf(tir, otid, at) ==
  <<tir.opts[otid].val>> \o [i \in DOMAIN at |-> Domain(tir.opts[at[i]].val)]

\* The name an advertisement gives its source: the OTID, the domains it went
\* through, in order, and what a source with a store offers
IsSourceName(name, tir) ==
  LET otids == OptionsOf(tir, "otid")
      domains == OptionsOf(tir, "domain_id")
  IN \E otid \in otids, at \in [1 .. Cardinality(domains) -> domains] :
       /\ IsLast(otid, otids) /\ Ascending(at)
       /\ IF WithStore(tir) = {} THEN name = SourceOf(tir, otid, at)
          ELSE \E last \in Offers(tir) :
                 /\ IsLast(last, Offers(tir))
                 /\ name = Append(SourceOf(tir, otid, at), ExFuncName(tir.opts[last].val))
=============================================================================
