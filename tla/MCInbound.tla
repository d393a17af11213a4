----------------------------- MODULE MCInbound -----------------------------
(* Clients of every protocol, those of the repository and others, at servers *)
(* of their own and of another protocol; four engines.                       *)
EXTENDS Inbound

V4 == <<1, 10, 10, 10, 10, 0, 80>>
Any4 == <<1, 0, 0, 0, 0, 0, 0>>
Other4 == <<1, 9, 9, 9, 9, 0, 80>>
Name == <<3, 3, 97, 98, 99, 0, 80>>
V6 == <<4>> \o [i \in 1..16 |-> 6] \o <<0, 80>>
Payload == <<400, 401>>
Ann == <<<<61>>, <<62>>>>
Wrong == <<<<61>>, <<63>>>>
Hash == <<71, 71, 71>>
BadHash == <<72, 72, 72>>
MCUrls == {310}
MCPaths == {320, 321}
MCAuthorities == {330}

Say(bytes) == [send |-> bytes, want |-> <<>>]
Ask(bytes, reply) == [send |-> bytes, want |-> reply]

Base == [server |-> "socks5", users |-> {}, udp |-> TRUE, only_connect |-> FALSE, only_path |-> 0,
         pre |-> <<>>, earlier |-> <<>>, speaks |-> "socks5", script |-> <<>>, who |-> NoUser, ta |-> V4,
         payload |-> Payload, valid |-> TRUE, dgrams |-> {}, rbuf |-> 0, sent |-> {}]
With(script) == [Base EXCEPT !.script = script]
Users(s, u) == [s EXCEPT !.users = u]
As(s, u) == [s EXCEPT !.who = u]
After(s, us) == [s EXCEPT !.earlier = us]
At(s, server) == [s EXCEPT !.server = server]
Invalid(s) == [s EXCEPT !.valid = FALSE]
AuthMsg(u) == <<1, 1>> \o u[1] \o <<1>> \o u[2]
ConnectTo(a) == <<5, 1, 0>> \o a

\* ruci's own client, and one that sends all at once.
SocksPlain == With(Socks5Client(NoUser, V4, Payload))
SocksAnn == As(With(Socks5Client(Ann, V4, Payload)), Ann)
Burst == As(With(<<Say(<<5, 1, 2>> \o AuthMsg(Ann) \o ConnectTo(Name) \o Payload)>>), Ann)
TwoMethods == As(With(<<Ask(<<5, 2, 0, 2>>, <<5, 2>>), Ask(AuthMsg(Ann), <<1, 0>>),
                        Ask(ConnectTo(V6), REPLY), Say(Payload)>>), Ann)
Odd == Invalid(As(With(<<Say(<<5, 3, 1, 2, 0>> \o AuthMsg(Ann)), Say(ConnectTo(V4) \o Payload)>>), Ann))
CutName == Invalid(As(With(<<Ask(<<5, 1, 2>>, <<5, 2>>), Ask(<<1, 4, 61, 1, 62>>, <<1, 0>>)>>), Wrong))
Associate(a, dgs) ==
  [With(<<Ask(<<5, 1, 0>>, <<5, 0>>), Ask(<<5, 3, 0>> \o a, REPLY)>>) EXCEPT !.dgrams = dgs]
Dg(from, to) == [from |-> from, to |-> to, data |-> Payload]

SocksSessions ==
  {SocksPlain, Users(SocksAnn, {Ann}), Invalid(As(Users(With(Socks5Client(Wrong, V4, Payload)), {Ann}), Wrong)),
   Users([Burst EXCEPT !.ta = Name], {Ann}), Users([TwoMethods EXCEPT !.ta = V6], {Ann}),
   Users(Odd, {Ann}), Users(CutName, {Ann}), Invalid(Users(SocksPlain, {Ann})), Invalid(SocksAnn),
   With(<<Say(<<5, 1, 0>> \o ConnectTo(V4) \o Payload)>>),
   Invalid(With(<<Ask(<<5, 1, 0>>, <<5, 0>>), Ask(<<5, 2, 0>> \o V4, REPLY)>>)),
   Associate(Any4, {Dg(V4, V4), Dg(V4, NoAddr)}), Associate(V4, {Dg(V4, V4), Dg(Other4, V4)}),
   Associate(Name, {Dg(V4, V4)}), Invalid([Associate(Any4, {}) EXCEPT !.udp = FALSE]),
   [SocksPlain EXCEPT !.pre = <<5, 1, 0>>, !.script = Tail(@)],
   [With(<<Say(Payload)>>) EXCEPT !.pre = <<5, 1, 0>> \o ConnectTo(V4)]}

HttpBase == [Base EXCEPT !.server = "http", !.speaks = "http"]
HttpSay(req) == [HttpBase EXCEPT !.script = <<Ask(req, CONNECT_REPLY), Say(Payload)>>, !.ta = <<330>>]
Connect == HttpSay(<<CONNECT, 330, VERSION, HOST_HEADER, END>>)
Get == [HttpBase EXCEPT !.script = <<Say(<<GET, 310, VERSION, HOST_HEADER, 308, END>> \o Payload)>>, !.ta = <<310>>]
AuthConnect(h) == Invalid(As(Users(HttpSay(<<CONNECT, 330, VERSION, HOST_HEADER, h, END>>), {Ann}), Ann))
FilterGet == [HttpBase EXCEPT !.server = "filter", !.script = <<Say(<<GET, 320, VERSION, HOST_HEADER, END>>)>>, !.ta = NoAddr]

HttpSessions ==
  {Connect, Get, Invalid([Get EXCEPT !.only_connect = TRUE]),
   AuthConnect(AUTH_HEADER), AuthConnect(AUTH_HEADER_SPACE), AuthConnect(BAD_AUTH_HEADER),
   FilterGet, [FilterGet EXCEPT !.only_path = 320], Invalid([FilterGet EXCEPT !.only_path = 321]),
   At(Connect, "socks5http"), At(Get, "socks5http"), At(SocksPlain, "socks5http"),
   Invalid(At(Users(Connect, {Ann}), "socks5http")), At(Users(SocksAnn, {Ann}), "socks5http"),
   Invalid(At(Connect, "socks5")), Invalid(At(SocksPlain, "http")),
   Invalid(At([Connect EXCEPT !.script = <<Ask(<<5, 1, 0>>, <<5, 0>>)>> \o @], "socks5http")),
   Invalid(As(At(Users([Connect EXCEPT !.script = <<Say(<<5, 1, 2>> \o AuthMsg(Ann))>> \o @], {Ann}), "socks5http"), Ann))}

TrojanBase == [Base EXCEPT !.server = "trojan", !.speaks = "trojan", !.users = {Hash}, !.who = Hash]
ByTrojan(script) == [TrojanBase EXCEPT !.script = script]
D1 == [to |-> V4, data |-> <<500, 501, 502>>]
D2 == [to |-> Name, data |-> <<503>>]
D3 == [to |-> V4, data |-> <<504, 505>>]
DgramSession(rbuf) ==
  [ByTrojan(TrojanClient(Hash, 3, V4, <<Frame(D1.to, D1.data), Frame(D2.to, D2.data), Frame(D3.to, D3.data)>>, TRUE))
     EXCEPT !.rbuf = rbuf, !.sent = {D1, D2, D3}]

TrojanSessions ==
  {ByTrojan(TrojanClient(Hash, 1, V4, <<Payload>>, TRUE)),
   ByTrojan(TrojanClient(Hash, 1, V4, <<Payload>>, FALSE)),
   [ByTrojan(TrojanClient(Hash, 1, V6, <<Payload>>, TRUE)) EXCEPT !.ta = V6],
   Invalid(As(ByTrojan(TrojanClient(BadHash, 1, V4, <<Payload>>, TRUE)), BadHash)),
   Invalid(ByTrojan(TrojanClient(Hash, 127, V4, <<Payload>>, TRUE))),
   Invalid(At(Connect, "trojan")),
   Invalid([ByTrojan(<<Say(Tail(Hash))>>) EXCEPT !.pre = <<71>>]),
   [ByTrojan(<<Say(Payload)>>) EXCEPT !.pre = TrojanClient(Hash, 1, V4, <<>>, TRUE)[1].send],
   DgramSession(9), DgramSession(2), DgramSession(3)}

\* A map before has authenticated the client.
EarlierSessions ==
  {After(ByTrojan(TrojanClient(Hash, 1, V4, <<Payload>>, TRUE)), <<Ann>>),
   Invalid(After(As(ByTrojan(TrojanClient(BadHash, 1, V4, <<Payload>>, TRUE)), BadHash), <<Ann>>)),
   After(SocksPlain, <<Ann>>), After(Users(SocksAnn, {Ann}), <<Hash>>),
   After(FilterGet, <<Ann>>)}

MCSessions == SocksSessions \cup HttpSessions \cup TrojanSessions \cup EarlierSessions

-----------------------------------------------------------------------------
Outs == [direct |-> "Direct", proxy |-> "Proxy", site |-> "Site"]
Known == {"Direct", "Proxy", "Site"}
Rule(mode, tag) == [mode |-> mode, out_tag |-> tag, in_tags |-> None, is_fallback |-> None, userset |-> None,
                    ta_networks |-> None, ta_ipv4 |-> None, ta_ipv6 |-> None, ta_ip_countries |-> None, mmdb |-> FALSE]
For == {<<Ann>>, <<Hash>>, <<Ann, Hash>>}
Selector(kind) == [kind |-> kind, outs |-> Known, reserved |-> "Proxy", reserved_for |-> For,
                   outbounds_map |-> Outs]
MCSelectors ==
  {[kind |-> "fixed", outs |-> Known, reserved |-> "nobody's", reserved_for |-> {}, default |-> "Direct"],
   [kind |-> "tag", outs |-> Known, reserved |-> "nobody's", reserved_for |-> {}, outbounds_map |-> Outs,
    outbounds_tag_route_map |-> Some([socks5 |-> "direct", trojan |-> "gone"]),
    fallback_tag_route_map |-> Some([trojan |-> "site", http |-> "site"]), ok_default |-> "Proxy", fb_default |-> NoOut],
   [kind |-> "info", outs |-> Known, reserved |-> "nobody's", reserved_for |-> {}, outbounds_map |-> Outs,
    outbounds_ruleset_vec |-> <<[infos |-> {[is_fallback |-> FALSE, in_tag |-> "socks5", users |-> None,
        addr |-> [network |-> "tcp", kind |-> "v4", ip |-> 10, country |-> 10]]}, out_tag |-> "direct"]>>,
    ok_default |-> "Proxy", fb_default |-> "Site"],
   [kind |-> "rules", outs |-> Known, reserved |-> "Proxy", reserved_for |-> For, outbounds_map |-> Outs,
    outbounds_rules_vec |->
      <<[Rule("WhiteList", "proxy") EXCEPT !.userset = Some(For)],
        [Rule("WhiteList", "site") EXCEPT !.is_fallback = Some(TRUE), !.ta_ipv4 = Some({0})],
        [Rule("WhiteList", "direct") EXCEPT !.in_tags = Some({"socks5"}), !.ta_ipv4 = Some({10}),
           !.ta_networks = Some({"tcp"}), !.ta_ip_countries = Some({10}), !.mmdb = TRUE],
        [Rule("BlackList", "gone") EXCEPT !.is_fallback = Some(TRUE), !.in_tags = Some({"http"}),
           !.ta_networks = Some({"udp"}), !.ta_ipv6 = Some({6}), !.ta_ip_countries = Some({9}), !.mmdb = TRUE]>>,
    default |-> "Direct"]}
=============================================================================
