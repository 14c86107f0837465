---------------------------- MODULE MCTRSniffer ----------------------------
(***************************************************************************)
(* Instances of TRSniffer: files read, and networks listened to.           *)
(***************************************************************************)
EXTENDS TRSniffer, TLC

\* What a packet has that says nothing else
Blank ==
  [version |-> 0, dest |-> "m", trailer |-> "none", hopts |-> <<>>, type |-> "normal",
   ntqrs |-> 0, ntirs |-> 0, pattern |-> "pcre", tqrs |-> <<>>, tirs |-> <<>>, ntmrs |-> 0,
   recs |-> <<>>, tnwg |-> "interest", ext |-> "tnwg", ctx_type |-> 61]

Packet(fields) == fields @@ Blank
Of(type, fields) == Packet([type |-> type] @@ fields)
Ext(ext, fields) == Packet([type |-> "ext", ext |-> ext] @@ fields)
Answer == Packet([dest |-> "u"])

TirOf(fields) ==
  fields @@ [topic |-> 1, optlen |-> "ok", opts |-> <<>>, transport |-> "lbtrm",
             tlen_ok |-> TRUE]
Opt(kind, val) == [kind |-> kind, ok |-> TRUE, val |-> val]
Bad(kind) == [kind |-> kind, ok |-> FALSE, val |-> 0]
Rec(topic) == [topic |-> topic, long |-> FALSE, kind |-> "use"]

Tirs(tirs) == Packet([ntirs |-> Len(tirs), tirs |-> tirs])
WithOpts(opts) == Tirs(<<TirOf([opts |-> opts]), TirOf([topic |-> 2, opts |-> <<Opt("otid", 3)>>])>>)
WithTransport(transport, ok) == Tirs(<<TirOf([transport |-> transport, tlen_ok |-> ok])>>)
Query1(topic, dest) ==
  Packet([dest |-> dest, trailer |-> "ok", hopts |-> <<Opt("local_domain", 1)>>, ntqrs |-> 1,
          tqrs |-> <<[topic |-> topic]>>])
Advert(otid, dest) ==
  Packet([dest |-> dest, ntirs |-> 1, tirs |-> <<TirOf([opts |-> <<Opt("otid", otid)>>])>>])

HeaderKinds ==
  {Packet([trailer |-> t, ntqrs |-> 1, tqrs |-> <<[topic |-> 1]>>,
           hopts |-> <<Opt("local_domain", 1), Opt("src_id", 0)>>]) :
     t \in {"ok", "short", "type", "len", "total"}}
  \union {Packet([trailer |-> "ok", hopts |-> <<o>>, ntqrs |-> 1,
                  tqrs |-> <<[topic |-> 1]>>]) :
            o \in {Bad("src_type"), Bad("src_id"), Bad("local_domain"), Bad("zero"),
                   Opt("version", 6)}}
  \union {Packet([version |-> 2])}

TopicKinds ==
  {WithOpts(<<o>>) :
     o \in {Bad("zero"), Opt("ume", 0), Bad("ume"), Opt("qinfo", 0), Opt("rcridx", 0),
            Opt("latejoin", 1), Opt("cost", -1), Opt("cost", 1), Bad("otid"), Opt("otid", 0),
            Opt("ulb", 1), Opt("store", 0), Opt("store_group", 0), Opt("ctxinst", 0),
            Opt("unknown", 0), Opt("exfunc", {}), Opt("exfunc", {"ume"})}}
  \union {WithOpts(<<Opt("otid", 1)>> \o opts) :
            opts \in {<<>>, <<Opt("domain_id", 1)>>,
                      <<Opt("domain_id", 1), Opt("domain_id", 2)>>,
                      <<Opt("domain_id", 1), Opt("domain_id", 2), Opt("domain_id", 3)>>,
                      <<Opt("exfunc", {"ume", "umq"}), Opt("domain_id", 2)>>,
                      <<Opt("exfunc", {"umq", "ulb"})>>,
                      <<Opt("otid", 2), Opt("domain_id", 1)>>,
                      <<Opt("exfunc", {"ume"}), Opt("exfunc", {"ulb"}), Opt("exfunc", {})>>,
                      <<Opt("latejoin", 0), Opt("cost", -1)>>}}
  \union {WithOpts(<<Opt("domain_id", 2)>>), WithOpts(<<Opt("domain_id", 2), Opt("otid", 1)>>)}

TirKinds ==
  {WithTransport(t, ok) :
     t \in {"tcp", "tcp6", "lbtru", "smx", "lbtrm", "rdma", "ipc", "other"}, ok \in BOOLEAN}
  \union {Tirs(<<TirOf([optlen |-> o])>>) : o \in {"none", "type", "len", "total"}}
  \union {Tirs(<<TirOf([opts |-> <<>>]), TirOf([topic |-> 2])>>)}

OtherKinds ==
  {Packet(<<>>), Packet([ntirs |-> 1001]), Packet([ntqrs |-> 251]),
   Packet([ntqrs |-> 2, tqrs |-> <<[topic |-> 2], [topic |-> 1]>>]),
   Of("wc_tqrs", [pattern |-> "other"]), Of("queue_res", <<>>), Of("unknown", <<>>),
   Of("rcv_alive", <<>>), Of("rcv_alive", [ntqrs |-> 1]), Of("src_alive", <<>>),
   Of("src_alive", [ntirs |-> 1]), Of("topic_mgmt", [ntmrs |-> 1001])}
  \union {Of("wc_tqrs", [pattern |-> "regex", tqrs |-> <<[topic |-> 2]>>])}
  \union {Of("topic_mgmt", [ntmrs |-> 2, recs |-> <<[topic |-> 1, long |-> FALSE, kind |-> k],
                                                    [topic |-> 2, long |-> TRUE, kind |-> k]>>]) :
            k \in {"leave", "use", "other"}}
  \union {Ext("tnwg", [tnwg |-> t, recs |-> <<Rec(2), Rec(1), Rec(2)>>]) :
            t \in {"interest", "ctxinfo", "trreq", "other"}}
  \union {Ext("domain_route", [recs |-> rs]) : rs \in {<<Rec(1)>>, <<Rec(2)>>, <<Rec(1), Rec(2)>>}}
  \union {Ext(e, <<>>) :
            e \in {"proxy_elect", "queue_mgmt", "context_info", "res_request", "unknown"}}
  \union {Ext("remote_context", [trailer |-> "ok", hopts |-> <<Opt("version", 6)>>, recs |-> rs]) :
            rs \in {<<>>, <<[opts |-> <<Opt("address", 5), Opt("name", 4)>>]>>,
                    <<[opts |-> <<Bad("address")>>]>>, <<[opts |-> <<Opt("other", 4)>>]>>,
                    <<[opts |-> <<Opt("odomain", 5)>>], [opts |-> <<Opt("instance", 4)>>]>>}}

Udp(p) == [kind |-> "udp", link |-> "eth", packet |-> p]
Frag(datagram, id, offset, nBytes, more) ==
  [datagram |-> datagram, id |-> id, offset |-> offset, nBytes |-> nBytes, more |-> more]

A == {Frag("a", 1, 0, 2, TRUE), Frag("a", 1, 2, 2, TRUE), Frag("a", 1, 4, 1, FALSE)}
B == {Frag("b", 2, 0, 2, TRUE), Frag("b", 2, 2, 2, FALSE)}
C == {Frag("c", 1, 0, 2, TRUE), Frag("c", 1, 2, 1, FALSE)}
Z == {Frag("z", 0, 0, 2, TRUE), Frag("z", 0, 2, 1, FALSE)}
\* As many fragments as the counters can tell, and one more
D == {Frag("d", 3, 2 * i, 2, i < 3) : i \in 0 .. 3}
E == {Frag("e", 4, 2 * i, 2, i < 4) : i \in 0 .. 4}
InFrames(fragments) == {[kind |-> "fragment", fragment |-> f] : f \in fragments}

Carries == [a |-> Query1(1, "m"), b |-> Advert(2, "m"), c |-> Packet([version |-> 3]), z |-> Query1(2, "m"),
            d |-> Query1(1, "m"), e |-> Query1(2, "m")]

MCDatagrams == {A, B, C, D, E, Z}

Pairs ==
  {Ext("domain_route", [recs |-> rs]) : rs \in {<<Rec(1)>>, <<Rec(2)>>, <<Rec(1), Rec(2)>>}}
  \union {WithOpts(<<Opt("otid", 1)>>), WithOpts(<<Opt("otid", 1), Opt("domain_id", 2)>>),
          Of("topic_mgmt", [ntmrs |-> 1, recs |-> <<Rec(1)>>]), WithOpts(<<Opt("cost", -1)>>)}

MCCaptures(name) ==
  CASE name = "kinds" ->
         [frames |-> {Udp(p) : p \in HeaderKinds \union TopicKinds \union TirKinds
                                       \union OtherKinds},
          max |-> 1]
    [] name = "pairs" -> [frames |-> {Udp(p) : p \in Pairs}, max |-> 3]
    [] name = "mixed" ->
         [frames |-> {Udp(Query1(1, "m")), Udp(Advert(1, "m")), [kind |-> "other"],
                      [kind |-> "udp", link |-> "raw", packet |-> Query1(2, "m")]}
                       \union InFrames(B),
          max |-> 3, carries |-> Carries]
    [] name = "frags" -> [frames |-> InFrames(A \union B \union Z), max |-> 5, carries |-> Carries]
    [] name = "many" -> [frames |-> InFrames(D \union E), max |-> 5, carries |-> Carries]
    [] name = "reuse" -> [frames |-> InFrames(A \union C), max |-> 5, carries |-> Carries]

MCHeard ==
  {Answer, Query1(1, "u"), Query1(1, "m"), Query1(2, "m"), Advert(1, "m"), Advert(2, "m"),
   Advert(3, "m"), Packet([version |-> 4, dest |-> "u"])}

Plain ==
  [addrs |-> <<>>, capture |-> "none", stats |-> FALSE, stats_ivl |-> 0, clearstats_ivl |-> 0,
   save_all |-> FALSE, start |-> 0, stop |-> -1, pcapFile |-> FALSE]

With(fields) == fields @@ Plain

Reading ==
  {With([capture |-> c, stats |-> TRUE, stats_ivl |-> 1]) : c \in {"kinds", "pairs"}}
  \union {With([capture |-> c]) : c \in {"frags", "many", "reuse"}}
  \union {With([capture |-> "mixed", stats |-> s, stats_ivl |-> IF s THEN 1 ELSE 0, start |-> from,
                stop |-> to, save_all |-> all]) :
            s \in BOOLEAN, all \in BOOLEAN, from \in {0, 1, 2}, to \in {-1, 1}}
  \union {With([capture |-> "mixed", addrs |-> <<"u">>])}

Listening ==
  {With([addrs |-> a]) : a \in {<<"u">>, <<"m", "u">>}}
  \union {With([addrs |-> <<"m">>, pcapFile |-> TRUE])}
  \union {With([stats |-> TRUE, stats_ivl |-> i[1], clearstats_ivl |-> i[2]]) :
            i \in {<<2, 0>>, <<2, 1>>, <<2, 3>>, <<3, 2>>}}
  \union {With([stats |-> TRUE, stats_ivl |-> 1, clearstats_ivl |-> 1, save_all |-> TRUE])}

MCSetups == Reading \union Listening

MCUnset ==
  {[domain |-> 0, version |-> 0, misread |-> 666], [domain |-> 9, version |-> 6, misread |-> 0]}
=============================================================================
