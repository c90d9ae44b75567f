--------------------------- MODULE OutboundRouting ---------------------------
(***************************************************************************)
(* Where the app may post: replies go to their agent's channel if it is on *)
(* the allowlist, and the notice that an agent has finished goes to the    *)
(* Dump channel, with the destination and the person to mention in it, for *)
(* a flow that posts it there (channelAllowlist.ts, relaySender.ts and     *)
(* their wiring in main.ts).                                               *)
(*                                                                         *)
(* Allowlist and settings are read from files and kept for Ttl ticks of    *)
(* the clock; times are ages in ticks, Ttl standing for all that is older. *)
(* A settings file that cannot be read is taken for one with the default   *)
(* settings, an offices file for one without overrides.                    *)
(***************************************************************************)
EXTENDS Naturals, FiniteSets

CONSTANTS
    Channel,        \* channels
    NoChannel,      \* no channel is configured
    Config,         \* what the files may say: [default, overrides, dump, mention]
    Ttl,            \* how long a cache is good
    MaxChanges,     \* bound: changes of the configuration
    MaxUnread,      \* bound: files that cannot be read
    MaxNotices      \* bound: notices under way at a time

Configuration == [default : Channel \cup {NoChannel}, overrides : SUBSET Channel,
                  dump : Channel \cup {NoChannel}, mention : BOOLEAN]
ASSUME RoutingAssumption ==
    /\ Config \subseteq Configuration /\ NoChannel \notin Channel
    /\ Ttl \in Nat \ {0}
    /\ MaxChanges \in Nat /\ MaxUnread \in Nat /\ MaxNotices \in Nat

VARIABLES
    config,         \* what the files say
    allowed,        \* createCachedAllowedChannels: the set and its age
    settings,       \* getTeamsSettingsCached: the settings and their age
    notices,        \* notices whose mention is being resolved
    lastPost,       \* ghost: what the last post came to
    sinceIn,        \* ghost: since when each channel is no longer configured
    sinceOut,       \* ghost: since when each channel is configured
    sinceDump,      \* ghost: since when each channel is no longer the Dump channel
    sinceUnread,    \* ghost: since when every file could be read
    changes, unread

routingVars == <<config, allowed, settings, notices, lastPost, sinceIn, sinceOut, sinceDump, sinceUnread,
          changes, unread>>

Age == 0..Ttl
Defaults == [default |-> NoChannel, dump |-> NoChannel, mention |-> FALSE]
Settings(c) == [default |-> c.default, dump |-> c.dump, mention |-> c.mention]
Configured(c) == ({c.default} \ {NoChannel}) \cup c.overrides

Notice == [to : Channel, dump : Channel, override : BOOLEAN, mention : {"office", "operator", "none"}]
Post == [is : {"nothing", "content", "notice", "refused"}, to : Channel \cup {NoChannel},
         dump : Channel \cup {NoChannel}]
AnySettings == {Settings(c) : c \in Config} \cup {Defaults}

Nothing == [is |-> "nothing", to |-> NoChannel, dump |-> NoChannel]

RoutingTypeOK ==
    /\ config \in Config
    /\ allowed \in [set : SUBSET Channel, age : Age]
    /\ settings \in [is : AnySettings, age : Age]
    /\ notices \subseteq Notice /\ IsFiniteSet(notices) /\ Cardinality(notices) <= MaxNotices
    /\ lastPost \in Post
    /\ sinceIn \in [Channel -> Age] /\ sinceOut \in [Channel -> Age]
    /\ sinceDump \in [Channel -> Age] /\ sinceUnread \in Age
    /\ changes \in 0..MaxChanges
    /\ unread \in 0..MaxUnread

RoutingInit ==
    /\ config \in Config
    /\ allowed = [set |-> {}, age |-> Ttl]
    /\ settings = [is |-> Settings(config), age |-> 0]
    /\ notices = {}
    /\ lastPost = Nothing
    /\ sinceIn = [c \in Channel |-> IF c \in Configured(config) THEN 0 ELSE Ttl]
    /\ sinceOut = [c \in Channel |-> IF c \in Configured(config) THEN Ttl ELSE 0]
    /\ sinceDump = [c \in Channel |-> IF c = config.dump THEN 0 ELSE Ttl]
    /\ sinceUnread = Ttl
    /\ changes = 0
    /\ unread = 0

Older(age) == IF age < Ttl THEN age + 1 ELSE Ttl

Tick ==
    /\ allowed' = [allowed EXCEPT !.age = Older(@)]
    /\ settings' = [settings EXCEPT !.age = Older(@)]
    /\ sinceIn' = [c \in Channel |-> IF c \in Configured(config) THEN 0 ELSE Older(sinceIn[c])]
    /\ sinceOut' = [c \in Channel |-> IF c \in Configured(config) THEN Older(sinceOut[c]) ELSE 0]
    /\ sinceDump' = [c \in Channel |-> IF c = config.dump THEN 0 ELSE Older(sinceDump[c])]
    /\ sinceUnread' = Older(sinceUnread)
    /\ lastPost' = Nothing
    /\ UNCHANGED <<config, notices, changes, unread>>

(* The operator saves the Teams settings or an office's channel.           *)
Configure ==
    /\ changes < MaxChanges
    /\ changes' = changes + 1
    /\ config' \in Config
    /\ sinceIn' = [c \in Channel |-> IF c \in Configured(config') THEN 0 ELSE sinceIn[c]]
    /\ sinceOut' = [c \in Channel |-> IF c \in Configured(config') THEN sinceOut[c] ELSE 0]
    /\ sinceDump' = [c \in Channel |-> IF c = config'.dump THEN 0 ELSE sinceDump[c]]
    /\ lastPost' = Nothing
    /\ UNCHANGED <<allowed, settings, notices, sinceUnread, unread>>

-----------------------------------------------------------------------------
(* The caches.                                                             *)

Fresh(cache) == cache.age < Ttl

(* The age of a cache that was looked at.  (A bug: it starts again.)       *)
AgeOnceLooked(cache) == 0

AgeOf(cache) == IF Fresh(cache) THEN cache.age ELSE 0

(* What the files yield: all of it, or the defaults of one that cannot be  *)
(* read.                                                                   *)
Yields == {[set |-> Configured(config), settings |-> Settings(config), fails |-> FALSE]}
          \cup (IF unread < MaxUnread
                THEN {[set |-> config.overrides, settings |-> Defaults, fails |-> TRUE],
                      [set |-> {config.default} \ {NoChannel}, settings |-> Settings(config), fails |-> TRUE]}
                ELSE {})

(* A look at the allowlist and one at the settings, which are read again   *)
(* once they are old.                                                      *)
AllowlistLooked(y) ==
    allowed' = [set |-> IF Fresh(allowed) THEN allowed.set ELSE y.set, age |-> AgeOf(allowed)]

SettingsLooked(y) ==
    settings' = [is |-> IF Fresh(settings) THEN settings.is ELSE y.settings, age |-> AgeOf(settings)]

Unread(y, caches) ==
    /\ y.fails => \E cache \in caches : ~Fresh(cache)
    /\ unread' = unread + (IF y.fails THEN 1 ELSE 0)
    /\ sinceUnread' = IF y.fails THEN 0 ELSE sinceUnread

-----------------------------------------------------------------------------
(* Posts.                                                                  *)

Refuse(c) ==
    /\ lastPost' = [is |-> "refused", to |-> c, dump |-> NoChannel]
    /\ UNCHANGED notices

(* createAllowlistedGraphSender: a thread or a reply, as the user.         *)
Content(c) ==
    /\ \E y \in Yields :
          /\ Unread(y, {allowed}) /\ AllowlistLooked(y) /\ UNCHANGED settings
          /\ IF c \in allowed'.set
             THEN /\ lastPost' = [is |-> "content", to |-> c, dump |-> NoChannel]
                  /\ UNCHANGED notices
             ELSE Refuse(c)
    /\ UNCHANGED <<config, sinceIn, sinceOut, sinceDump, changes>>

(* The mention of a notice: the office's own, or else the operator's.      *)
(* (A bug: the operator's is always taken.)                                *)
OperatorsMention(override, of) == IF of.mention THEN "operator" ELSE "none"

Mention(override, of) == IF override THEN "office" ELSE IF of.mention THEN "operator" ELSE "none"

(* isDestinationAllowed.  (A bug: a notice goes to the Dump channel, which *)
(* is not on the allowlist anyway, and so is let through.)                 *)
AnyDestination(c, set) == TRUE

DestinationAllowed(c, set) == c \in set

(* maybeNotifyComplete, postToDump: the notice that an agent is done, if a *)
(* Dump channel is configured.  Whom to mention is looked up first.        *)
Notify(c, override) ==
    /\ Cardinality(notices) < MaxNotices
    /\ \E y \in Yields :
          /\ SettingsLooked(y)
          /\ IF settings'.is.dump = NoChannel
             THEN Unread(y, {settings}) /\ lastPost' = Nothing /\ UNCHANGED <<allowed, notices>>
             ELSE /\ Unread(y, {settings, allowed}) /\ AllowlistLooked(y)
                  /\ IF DestinationAllowed(c, allowed'.set)
                     THEN /\ notices' = notices \cup
                                {[to |-> c, dump |-> settings'.is.dump, override |-> override,
                                  mention |-> Mention(override, settings'.is)]}
                          /\ lastPost' = [is |-> "notice", to |-> c, dump |-> settings'.is.dump]
                     ELSE Refuse(c)
    /\ UNCHANGED <<config, sinceIn, sinceOut, sinceDump, changes>>

(* resolveMention answers, and the notice is posted; whom it does not find *)
(* is not mentioned.                                                       *)
Resolved(n) ==
    /\ n \in notices
    /\ notices' = notices \ {n}
    /\ lastPost' = Nothing
    /\ UNCHANGED <<config, allowed, settings, sinceIn, sinceOut, sinceDump, sinceUnread, changes, unread>>

RoutingNext ==
    \/ Tick \/ Configure
    \/ \E c \in Channel : Content(c) \/ \E override \in BOOLEAN : Notify(c, override)
    \/ \E n \in notices : Resolved(n)

RoutingSpec == RoutingInit /\ [][RoutingNext]_routingVars

-----------------------------------------------------------------------------
(* Safety.                                                                 *)

(* channelAllowlist.ts: "EVERY outbound path [...] is validated": a post   *)
(* goes where the operator wants posts, or wanted them shortly before, and *)
(* so does a notice with its Dump channel.                                 *)
PostsGoWhereConfigured ==
    lastPost.is \in {"content", "notice"} =>
        /\ sinceIn[lastPost.to] < Ttl
        /\ lastPost.is = "notice" => sinceDump[lastPost.dump] < Ttl

(* "Config changes take effect within ttlMs": nothing is refused that has  *)
(* been configured for so long, unless a file could not be read.           *)
ConfiguredIsServed ==
    lastPost.is = "refused" => sinceOut[lastPost.to] < Ttl \/ sinceUnread < Ttl

(* postToDump: the office's mention is not replaced with the operator's.   *)
OfficeMentionWins == \A n \in notices : n.override => n.mention = "office"

RoutesAreConfigured == RoutingTypeOK /\ PostsGoWhereConfigured /\ ConfiguredIsServed /\ OfficeMentionWins
=============================================================================
