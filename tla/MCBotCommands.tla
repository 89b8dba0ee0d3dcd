----------------------------- MODULE MCBotCommands -----------------------------
(* Instances of BotCommands for TLC. *)
EXTENDS BotCommands, TLC

CONSTANTS c, d, any

Offered == [s \in {"exchange", "token", "chain"} |->
              CASE s = "exchange" -> <<"x", "y">> [] s = "token" -> <<"t", "u">> [] OTHER -> <<"n", "m">>]
Carried == [s \in {"exchange", "token", "chain"} |->
              CASE s = "exchange" -> {"x", "y", "old"} [] s = "token" -> {"t", "u"} [] OTHER -> {"n", "m"}]
Resolved == [s \in {"exchange", "token", "chain"} |->
              CASE s = "exchange" -> {"x", "y"} [] s = "token" -> {"t", "u"} [] OTHER -> {"n", "m"}]

Does(chat, deed)  == [chat |-> chat, do |-> deed]
Button(step, slug) == [chat |-> c, do |-> "toggle", step |-> step, slug |-> slug]
Subscribe(chat, slug) ==
  [chat |-> chat, do |-> "subscribe",
   filter |-> [exchange |-> slug, token |-> any, chain |-> any]]
Unsubscribes(chat, id) == [chat |-> chat, do |-> "unsubscribe", rule |-> id]

(* Exchanges, tokens and chains picked and saved, stale buttons, all tokens and chains *)
(* after all, commands beside the wizard, a chat that is not allowed, a full chat. *)
Dialogues ==
  {<<Button("exchange", "x"), Button("exchange", "y"), Button("token", "t"), Does(c, "save")>>,
   <<Button("exchange", "y"), Button("token", "u"), Button("chain", "m")>>,
   <<Button("exchange", "old"), Does(c, "save"), Does(c, "reset")>>,
   <<Button("exchange", "x"), Button("chain", "n"), Does(c, "all")>>,
   <<Does(c, "start"), Does(c, "other"), Does(c, "look")>>, <<Does(d, "start"), Does(c, "look")>>,
   <<Subscribe(c, "x"), Subscribe(c, "x"), Subscribe(c, "x")>>,
   <<Subscribe(c, "old"), Subscribe(c, "x"), Unsubscribes(c, 1)>>}
===============================================================================
