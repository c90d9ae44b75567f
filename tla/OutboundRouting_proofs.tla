----------------------- MODULE OutboundRouting_proofs -----------------------
(***************************************************************************)
(* Where the app may post, for any channels, configurations, life of the   *)
(* caches, changes and files that cannot be read.                          *)
(*                                                                         *)
(* A post is let through by a cache, and the property speaks of the files. *)
(* The invariant relates the two by their ages: what the files say now is  *)
(* so since 0 ticks (FilesInv), and what a cache that is good says was so  *)
(* at some moment of its age (CachesInv).  A look at a cache leaves it     *)
(* younger than Ttl, so what it lets through was configured less than Ttl  *)
(* ago; what it refuses had been so for less, unless a file could not be   *)
(* read meanwhile.                                                         *)
(***************************************************************************)
EXTENDS OutboundRouting, FiniteSetTheorems, TLAPS

(* What the history says of the files as they are.                         *)
FilesInv ==
    \A c \in Channel :
        /\ IF c \in Configured(config) THEN sinceIn[c] = 0 ELSE sinceOut[c] = 0
        /\ c = config.dump => sinceDump[c] = 0

(* A cache that is good was right at some moment of its age, or was filled *)
(* from a file that could not be read.                                     *)
AllowlistIsRight ==
    Fresh(allowed) =>
        \A c \in Channel :
            IF c \in allowed.set THEN sinceIn[c] <= allowed.age
            ELSE sinceOut[c] <= allowed.age \/ sinceUnread <= allowed.age
SettingsAreRight ==
    Fresh(settings) /\ settings.is.dump # NoChannel => sinceDump[settings.is.dump] <= settings.age
CachesInv == AllowlistIsRight /\ SettingsAreRight

RoutingInv == RoutesAreConfigured /\ FilesInv /\ CachesInv

USE RoutingAssumption

(* The parts of a configuration.                                           *)
LEMMA ConfigTypes ==
  ASSUME NEW c \in Config
  PROVE  /\ c.default \in Channel \cup {NoChannel} /\ c.overrides \subseteq Channel
         /\ c.dump \in Channel \cup {NoChannel} /\ c.mention \in BOOLEAN
         /\ Configured(c) \subseteq Channel
         /\ Settings(c).dump = c.dump
  BY DEF Configuration, Configured, Settings

(* The Dump channel of settings.                                           *)
LEMMA SettingsTypes ==
  ASSUME NEW is \in AnySettings
  PROVE  is.dump \in Channel \cup {NoChannel}
  BY ConfigTypes DEF Defaults, AnySettings

(* The ages of caches and histories.                                       *)
LEMMA Ages ==
  /\ 0 \in Age /\ Ttl \in Age /\ Age \subseteq Nat
  /\ \A age \in Age : /\ Older(age) \in Age /\ age <= Older(age)
                      /\ age < Ttl => Older(age) = age + 1
                      /\ Older(age) < Ttl => age < Ttl
  BY DEF Age, Older

(* What is read is of the configuration, or the defaults.                  *)
LEMMA Read ==
  ASSUME RoutingInv, NEW y \in Yields
  PROVE  /\ y.set \subseteq Configured(config) /\ y.fails \in BOOLEAN
         /\ y.settings \in AnySettings
         /\ y.settings.dump \in {config.dump, NoChannel}
         /\ ~y.fails => y.set = Configured(config)
         /\ y.fails => unread < MaxUnread
  <1>1. config \in Config /\ config.default \in Channel \cup {NoChannel}
    BY ConfigTypes DEF RoutingInv, RoutesAreConfigured, RoutingTypeOK
  <1>2. Settings(config).dump = config.dump /\ Defaults.dump = NoChannel
    BY DEF Settings, Defaults
  <1>3. Settings(config) \in AnySettings /\ Defaults \in AnySettings
    BY <1>1 DEF AnySettings
  <1>4. CASE y = [set |-> Configured(config), settings |-> Settings(config), fails |-> FALSE]
    BY <1>2, <1>3, <1>4
  <1>5. CASE unread < MaxUnread /\ y = [set |-> config.overrides, settings |-> Defaults, fails |-> TRUE]
    BY <1>2, <1>3, <1>5 DEF Configured
  <1>6. CASE unread < MaxUnread /\ y = [set |-> {config.default} \ {NoChannel},
                                       settings |-> Settings(config), fails |-> TRUE]
    BY <1>2, <1>3, <1>6 DEF Configured
  <1>7. \/ y = [set |-> Configured(config), settings |-> Settings(config), fails |-> FALSE]
        \/ unread < MaxUnread /\ y = [set |-> config.overrides, settings |-> Defaults, fails |-> TRUE]
        \/ unread < MaxUnread /\ y = [set |-> {config.default} \ {NoChannel},
                                     settings |-> Settings(config), fails |-> TRUE]
    BY DEF Yields
  <1> QED BY <1>4, <1>5, <1>6, <1>7

-----------------------------------------------------------------------------
(* The first state, the clock and the configuration.                       *)

\* The invariant holds when the app starts, with empty caches.
LEMMA RoutingStart == RoutingInit => RoutingInv
  <1> SUFFICES ASSUME RoutingInit PROVE RoutingInv
    OBVIOUS
  <1>1. config \in Config /\ Settings(config) \in AnySettings
    BY DEF RoutingInit, AnySettings
  <1>2. RoutingTypeOK
    <2>1. Cardinality({}) = 0 /\ IsFiniteSet({})
      BY FS_EmptySet
    <2> QED BY <1>1, <2>1, Ages DEF RoutingInit, RoutingTypeOK, Nothing, Post
  <1>3. RoutesAreConfigured
    BY <1>2 DEF RoutingInit, RoutesAreConfigured, PostsGoWhereConfigured, ConfiguredIsServed,
                OfficeMentionWins, Nothing
  <1>4. FilesInv
    BY DEF RoutingInit, FilesInv
  <1>5. CachesInv
    BY <1>1, ConfigTypes DEF RoutingInit, CachesInv, AllowlistIsRight, SettingsAreRight, Fresh
  <1> QED BY <1>3, <1>4, <1>5 DEF RoutingInv

(* A step after which nothing was posted.                                  *)
LEMMA NothingPosted ==
  ASSUME lastPost' = Nothing, OfficeMentionWins, notices' \subseteq notices, RoutingTypeOK'
  PROVE  RoutesAreConfigured'
  BY DEF RoutesAreConfigured, PostsGoWhereConfigured, ConfiguredIsServed, OfficeMentionWins, Nothing

(* Caches and histories grow older together.                               *)
LEMMA TickKeeps ==
  ASSUME RoutingInv, Tick
  PROVE  RoutingInv'
  <1> USE DEF RoutingInv, RoutesAreConfigured, RoutingTypeOK
  <1>1. RoutingTypeOK'
    <2>1. allowed' \in [set : SUBSET Channel, age : Age]
      BY Ages DEF Tick
    <2>2. settings' \in [is : AnySettings, age : Age]
      BY Ages DEF Tick
    <2>3. sinceIn' \in [Channel -> Age] /\ sinceOut' \in [Channel -> Age]
          /\ sinceDump' \in [Channel -> Age] /\ sinceUnread' \in Age
      BY Ages DEF Tick
    <2>4. lastPost' \in Post
      BY DEF Tick, Post, Nothing
    <2> QED BY <2>1, <2>2, <2>3, <2>4 DEF Tick
  <1>2. RoutesAreConfigured'
    BY <1>1, NothingPosted DEF Tick
  <1>3. FilesInv'
    BY DEF Tick, FilesInv
  <1>4. CachesInv'
    <2>1. ASSUME Fresh(allowed)', NEW c \in Channel
          PROVE  IF c \in allowed'.set THEN sinceIn'[c] <= allowed'.age
                 ELSE sinceOut'[c] <= allowed'.age \/ sinceUnread' <= allowed'.age
      <3>1. Fresh(allowed) /\ allowed'.age = allowed.age + 1 /\ allowed'.set = allowed.set
        BY <2>1, Ages DEF Tick, Fresh
      <3>2. allowed.age \in Nat /\ sinceIn[c] \in Nat /\ sinceOut[c] \in Nat /\ sinceUnread \in Nat
        BY Ages
      <3>3. sinceIn'[c] <= sinceIn[c] + 1 /\ sinceOut'[c] <= sinceOut[c] + 1
            /\ sinceUnread' <= sinceUnread + 1
        BY <3>2, Ages DEF Tick, Older
      <3> QED BY <3>1, <3>2, <3>3, Ages DEF CachesInv, AllowlistIsRight, SettingsAreRight, Tick
    <2>2. ASSUME Fresh(settings)', settings'.is.dump # NoChannel
          PROVE  sinceDump'[settings'.is.dump] <= settings'.age
      <3>1. Fresh(settings) /\ settings'.age = settings.age + 1 /\ settings'.is = settings.is
        BY <2>2, Ages DEF Tick, Fresh
      <3>2. settings.is.dump \in Channel
        BY <2>2, <3>1, SettingsTypes
      <3>3. settings.age \in Nat /\ sinceDump[settings.is.dump] \in Nat
        BY <3>2, Ages
      <3>4. sinceDump'[settings.is.dump] <= sinceDump[settings.is.dump] + 1
        BY <3>2, <3>3, Ages DEF Tick, Older
      <3>5. sinceDump[settings.is.dump] <= settings.age
        BY <2>2, <3>1 DEF CachesInv, AllowlistIsRight, SettingsAreRight
      <3>6. sinceDump'[settings.is.dump] \in Nat
        BY <3>2, <1>1, Ages
      <3> QED BY <3>1, <3>3, <3>4, <3>5, <3>6
    <2> QED BY <2>1, <2>2 DEF CachesInv, AllowlistIsRight, SettingsAreRight
  <1> QED BY <1>2, <1>3, <1>4

(* A channel that is configured anew starts its history again.             *)
LEMMA ConfigureKeeps ==
  ASSUME RoutingInv, Configure
  PROVE  RoutingInv'
  <1> USE DEF RoutingInv, RoutesAreConfigured, RoutingTypeOK
  <1>1. RoutingTypeOK'
    <2>1. sinceIn' \in [Channel -> Age] /\ sinceOut' \in [Channel -> Age]
          /\ sinceDump' \in [Channel -> Age]
      BY Ages DEF Configure
    <2>2. lastPost' \in Post
      BY DEF Configure, Post, Nothing
    <2> QED BY <2>1, <2>2 DEF Configure
  <1>2. RoutesAreConfigured'
    BY <1>1, NothingPosted DEF Configure
  <1>3. FilesInv'
    BY DEF Configure, FilesInv
  <1>4. CachesInv'
    <2>1. ASSUME Fresh(allowed)', NEW c \in Channel
          PROVE  IF c \in allowed'.set THEN sinceIn'[c] <= allowed'.age
                 ELSE sinceOut'[c] <= allowed'.age \/ sinceUnread' <= allowed'.age
      <3>1. Fresh(allowed) /\ allowed.age \in Nat
        BY <2>1, Ages DEF Configure, Fresh
      <3> QED BY <3>1, Ages DEF CachesInv, AllowlistIsRight, SettingsAreRight, Configure
    <2>2. ASSUME Fresh(settings)', settings'.is.dump # NoChannel
          PROVE  sinceDump'[settings'.is.dump] <= settings'.age
      <3>1. Fresh(settings) /\ settings.age \in Nat /\ settings' = settings
        BY <2>2, Ages DEF Configure, Fresh
      <3>2. settings.is.dump \in Channel
        BY <2>2, <3>1, SettingsTypes
      <3>3. sinceDump[settings.is.dump] <= settings.age
        BY <2>2, <3>1 DEF CachesInv, AllowlistIsRight, SettingsAreRight
      <3>4. sinceDump'[settings.is.dump] \in {0, sinceDump[settings.is.dump]}
        BY <3>2 DEF Configure
      <3> QED BY <3>1, <3>3, <3>4
    <2> QED BY <2>1, <2>2 DEF CachesInv, AllowlistIsRight, SettingsAreRight
  <1> QED BY <1>2, <1>3, <1>4

-----------------------------------------------------------------------------
(* Looks at the caches.                                                    *)

(* What became of the files that could not be read.                        *)
LEMMA UnreadKept ==
  ASSUME RoutingInv, NEW y \in Yields, NEW caches, Unread(y, caches)
  PROVE  /\ unread' \in 0..MaxUnread /\ sinceUnread' \in Age /\ sinceUnread' <= sinceUnread
         /\ y.fails => sinceUnread' = 0
  <1>1. y.fails \in BOOLEAN /\ (y.fails => unread < MaxUnread)
    BY Read
  <1>2. unread \in 0..MaxUnread /\ sinceUnread \in Age
    BY DEF RoutingInv, RoutesAreConfigured, RoutingTypeOK
  <1> QED BY <1>1, <1>2, Ages DEF Unread

(* An allowlist that was looked at is good and right.                      *)
LEMMA AllowlistSeen ==
  ASSUME RoutingInv, NEW y \in Yields, NEW caches, Unread(y, caches), AllowlistLooked(y),
         UNCHANGED <<sinceIn, sinceOut>>
  PROVE  /\ allowed' \in [set : SUBSET Channel, age : Age] /\ allowed'.age < Ttl
         /\ AllowlistIsRight'
  <1>1. allowed \in [set : SUBSET Channel, age : Age] /\ sinceIn \in [Channel -> Age]
        /\ sinceOut \in [Channel -> Age] /\ sinceUnread \in Age /\ config \in Config
    BY DEF RoutingInv, RoutesAreConfigured, RoutingTypeOK
  <1>2. y.set \subseteq Channel
    BY <1>1, Read, ConfigTypes
  <1>3. allowed'.set = (IF Fresh(allowed) THEN allowed.set ELSE y.set)
        /\ allowed'.age = (IF Fresh(allowed) THEN allowed.age ELSE 0)
        /\ allowed' = [set |-> allowed'.set, age |-> allowed'.age]
    BY DEF AllowlistLooked, AgeOf
  <1>4. allowed'.set \in SUBSET Channel /\ allowed'.age \in Age /\ allowed'.age < Ttl
    BY <1>1, <1>2, <1>3, Ages DEF Fresh
  <1>5. ASSUME NEW c \in Channel
        PROVE  IF c \in allowed'.set THEN sinceIn[c] <= allowed'.age
               ELSE sinceOut[c] <= allowed'.age \/ sinceUnread' <= allowed'.age
    <2>1. sinceUnread' \in Nat /\ sinceUnread \in Nat /\ sinceUnread' <= sinceUnread
          /\ allowed'.age \in Nat /\ allowed.age \in Nat
      BY <1>1, <1>4, UnreadKept, Ages
    <2>2. CASE Fresh(allowed)
      BY <1>3, <2>1, <2>2 DEF RoutingInv, CachesInv, AllowlistIsRight
    <2>3. CASE ~Fresh(allowed) /\ c \in y.set
      <3>1. sinceIn[c] = 0
        BY <2>3, Read DEF RoutingInv, FilesInv
      <3> QED BY <1>3, <2>3, <3>1
    <2>4. CASE ~Fresh(allowed) /\ c \notin y.set
      <3>1. sinceOut[c] = 0 \/ sinceUnread' = 0
        BY <2>4, Read, UnreadKept DEF RoutingInv, FilesInv
      <3> QED BY <1>3, <2>4, <3>1
    <2> QED BY <2>2, <2>3, <2>4
  <1> QED BY <1>3, <1>4, <1>5 DEF AllowlistIsRight

(* Settings that were looked at are good and right.                        *)
LEMMA SettingsSeen ==
  ASSUME RoutingInv, NEW y \in Yields, SettingsLooked(y), UNCHANGED sinceDump
  PROVE  /\ settings' \in [is : AnySettings, age : Age] /\ settings'.age < Ttl
         /\ settings'.is.dump \in Channel \cup {NoChannel}
         /\ SettingsAreRight'
  <1>1. settings \in [is : AnySettings, age : Age] /\ config \in Config
    BY DEF RoutingInv, RoutesAreConfigured, RoutingTypeOK
  <1>2. settings'.is = (IF Fresh(settings) THEN settings.is ELSE y.settings)
        /\ settings'.age = (IF Fresh(settings) THEN settings.age ELSE 0)
        /\ settings' = [is |-> settings'.is, age |-> settings'.age]
    BY DEF SettingsLooked, AgeOf
  <1>3. settings'.is \in AnySettings /\ settings'.age \in Age /\ settings'.age < Ttl
    BY <1>1, <1>2, Read, Ages DEF Fresh
  <1>4. ASSUME settings'.is.dump # NoChannel
        PROVE  sinceDump[settings'.is.dump] <= settings'.age
    <2>1. CASE Fresh(settings)
      BY <1>2, <1>4, <2>1 DEF RoutingInv, CachesInv, SettingsAreRight
    <2>2. CASE ~Fresh(settings)
      <3>1. settings'.is.dump = config.dump /\ settings'.is.dump \in Channel
        BY <1>1, <1>2, <1>4, <2>2, Read, ConfigTypes
      <3>2. sinceDump[settings'.is.dump] = 0
        BY <3>1 DEF RoutingInv, FilesInv
      <3> QED BY <1>2, <2>2, <3>2
    <2> QED BY <2>1, <2>2
  <1> QED BY <1>2, <1>3, <1>4, SettingsTypes DEF SettingsAreRight

(* A cache nobody looked at stays right.                                   *)
LEMMA Unlooked ==
  ASSUME RoutingInv, NEW y \in Yields, NEW caches, Unread(y, caches),
         UNCHANGED <<sinceIn, sinceOut, sinceDump>>
  PROVE  /\ allowed' = allowed => AllowlistIsRight'
         /\ settings' = settings => SettingsAreRight'
  <1>1. allowed.age \in Nat /\ sinceUnread \in Nat /\ sinceUnread' \in Nat
        /\ sinceUnread' <= sinceUnread
    BY UnreadKept, Ages DEF RoutingInv, RoutesAreConfigured, RoutingTypeOK
  <1>2. ASSUME allowed' = allowed, Fresh(allowed), NEW c \in Channel
        PROVE  IF c \in allowed.set THEN sinceIn[c] <= allowed.age
               ELSE sinceOut[c] <= allowed.age \/ sinceUnread' <= allowed.age
    BY <1>1, <1>2 DEF RoutingInv, CachesInv, AllowlistIsRight
  <1>3. allowed' = allowed => AllowlistIsRight'
    BY <1>2 DEF AllowlistIsRight, Fresh
  <1>4. settings' = settings => SettingsAreRight'
    BY DEF RoutingInv, CachesInv, SettingsAreRight, Fresh
  <1> QED BY <1>3, <1>4

-----------------------------------------------------------------------------
(* Posts.                                                                  *)

(* What a cache that was just looked at lets through was configured        *)
(* shortly before; what it holds back was not, or a file was not read.     *)
LEMMA LetThrough ==
  ASSUME AllowlistIsRight', allowed'.age \in Age, allowed'.age < Ttl, NEW c \in Channel,
         sinceIn' \in [Channel -> Age], sinceOut' \in [Channel -> Age], sinceUnread' \in Age
  PROVE  /\ c \in allowed'.set => sinceIn'[c] < Ttl
         /\ c \notin allowed'.set => sinceOut'[c] < Ttl \/ sinceUnread' < Ttl
  <1>1. IF c \in allowed'.set THEN sinceIn'[c] <= allowed'.age
        ELSE sinceOut'[c] <= allowed'.age \/ sinceUnread' <= allowed'.age
    BY DEF AllowlistIsRight, Fresh
  <1>2. sinceIn'[c] \in Nat /\ sinceOut'[c] \in Nat /\ sinceUnread' \in Nat /\ allowed'.age \in Nat
        /\ Ttl \in Nat
    BY Ages
  <1> QED BY <1>1, <1>2

(* A thread or a reply is posted, or refused.                              *)
LEMMA ContentKeeps ==
  ASSUME RoutingInv, NEW c \in Channel, Content(c)
  PROVE  RoutingInv'
  <1>1. PICK y \in Yields :
            /\ Unread(y, {allowed}) /\ AllowlistLooked(y) /\ UNCHANGED settings
            /\ IF c \in allowed'.set
               THEN /\ lastPost' = [is |-> "content", to |-> c, dump |-> NoChannel]
                    /\ UNCHANGED notices
               ELSE Refuse(c)
    BY DEF Content
  <1>2. UNCHANGED <<config, sinceIn, sinceOut, sinceDump, changes, settings, notices>>
    BY <1>1 DEF Content, Refuse
  <1>3. /\ allowed' \in [set : SUBSET Channel, age : Age] /\ allowed'.age < Ttl
        /\ AllowlistIsRight' /\ SettingsAreRight'
    BY <1>1, <1>2, AllowlistSeen, Unlooked
  <1>4. unread' \in 0..MaxUnread /\ sinceUnread' \in Age
    BY <1>1, UnreadKept
  <1>5. lastPost' \in Post
    BY <1>1 DEF Post, Refuse
  <1>6. RoutingTypeOK'
    BY <1>2, <1>3, <1>4, <1>5 DEF RoutingInv, RoutesAreConfigured, RoutingTypeOK
  <1>7. /\ c \in allowed'.set => sinceIn'[c] < Ttl
        /\ c \notin allowed'.set => sinceOut'[c] < Ttl \/ sinceUnread' < Ttl
    BY <1>3, <1>6, LetThrough DEF RoutingTypeOK
  <1>8. PostsGoWhereConfigured' /\ ConfiguredIsServed'
    BY <1>1, <1>7 DEF PostsGoWhereConfigured, ConfiguredIsServed, Refuse
  <1>9. OfficeMentionWins' /\ FilesInv'
    BY <1>2 DEF RoutingInv, RoutesAreConfigured, OfficeMentionWins, FilesInv
  <1> QED BY <1>3, <1>6, <1>8, <1>9 DEF RoutingInv, RoutesAreConfigured, CachesInv

(* A notice is on its way to the Dump channel, is refused, or there is no  *)
(* such channel.                                                           *)
LEMMA NotifyKeeps ==
  ASSUME RoutingInv, NEW c \in Channel, NEW override \in BOOLEAN, Notify(c, override)
  PROVE  RoutingInv'
  <1> DEFINE notice == [to |-> c, dump |-> settings'.is.dump, override |-> override,
                        mention |-> Mention(override, settings'.is)]
  <1> HIDE DEF notice
  <1>1. PICK y \in Yields :
            /\ SettingsLooked(y)
            /\ IF settings'.is.dump = NoChannel
               THEN Unread(y, {settings}) /\ lastPost' = Nothing /\ UNCHANGED <<allowed, notices>>
               ELSE /\ Unread(y, {settings, allowed}) /\ AllowlistLooked(y)
                    /\ IF DestinationAllowed(c, allowed'.set)
                       THEN /\ notices' = notices \cup {notice}
                            /\ lastPost' = [is |-> "notice", to |-> c, dump |-> settings'.is.dump]
                       ELSE Refuse(c)
    BY DEF Notify, notice
  <1>2. UNCHANGED <<config, sinceIn, sinceOut, sinceDump, changes>> /\ Cardinality(notices) < MaxNotices
    BY DEF Notify
  <1>3. /\ settings' \in [is : AnySettings, age : Age] /\ settings'.age < Ttl
        /\ settings'.is.dump \in Channel \cup {NoChannel}
        /\ SettingsAreRight'
    BY <1>1, <1>2, SettingsSeen
  <1>4. PICK caches : Unread(y, caches)
    BY <1>1
  <1>5. unread' \in 0..MaxUnread /\ sinceUnread' \in Age
    BY <1>4, UnreadKept
  <1>6. RoutingTypeOK
    BY DEF RoutingInv, RoutesAreConfigured
  <1>7. FilesInv'
    BY <1>2 DEF RoutingInv, FilesInv
  <1>8. CASE settings'.is.dump = NoChannel
    <2>1. lastPost' = Nothing /\ UNCHANGED <<allowed, notices>>
      BY <1>1, <1>8
    <2>2. AllowlistIsRight'
      BY <1>2, <1>4, <2>1, Unlooked
    <2>3. lastPost' \in Post
      BY <2>1 DEF Nothing, Post
    <2>4. RoutingTypeOK'
      BY <1>2, <1>3, <1>5, <1>6, <2>1, <2>3 DEF RoutingTypeOK
    <2>5. RoutesAreConfigured'
      BY <2>1, <2>4, NothingPosted DEF RoutingInv, RoutesAreConfigured
    <2> QED BY <1>3, <1>7, <2>2, <2>5 DEF RoutingInv, CachesInv
  <1>9. CASE settings'.is.dump # NoChannel
    <2>1. /\ AllowlistLooked(y)
          /\ IF DestinationAllowed(c, allowed'.set)
             THEN /\ notices' = notices \cup {notice}
                  /\ lastPost' = [is |-> "notice", to |-> c, dump |-> settings'.is.dump]
             ELSE Refuse(c)
      BY <1>1, <1>9
    <2>2. /\ allowed' \in [set : SUBSET Channel, age : Age] /\ allowed'.age < Ttl
          /\ AllowlistIsRight'
      BY <1>2, <1>4, <2>1, AllowlistSeen
    <2>3. settings'.is.dump \in Channel
      BY <1>3, <1>9
    <2>4. lastPost' \in Post
      BY <2>1, <2>3 DEF Post, Refuse
    <2>5. notice \in Notice /\ (notice.override => notice.mention = "office")
      BY <2>3 DEF notice, Notice, Mention
    <2>6. notices' \subseteq Notice /\ IsFiniteSet(notices') /\ Cardinality(notices') <= MaxNotices
      <3>1. notices \subseteq Notice /\ IsFiniteSet(notices) /\ Cardinality(notices) \in Nat
            /\ Cardinality(notices) < MaxNotices
        BY <1>2, <1>6, FS_CardinalityType DEF RoutingTypeOK
      <3>2. CASE notices' = notices
        BY <3>1, <3>2
      <3>3. CASE notices' = notices \cup {notice}
        <4>1. /\ IsFiniteSet(notices \cup {notice})
              /\ Cardinality(notices \cup {notice})
                    = IF notice \in notices THEN Cardinality(notices) ELSE Cardinality(notices) + 1
          BY <3>1, FS_AddElement
        <4> QED BY <2>5, <3>1, <3>3, <4>1
      <3> QED BY <2>1, <3>2, <3>3 DEF Refuse
    <2>7. RoutingTypeOK'
      BY <1>2, <1>3, <1>5, <1>6, <2>2, <2>4, <2>6 DEF RoutingTypeOK
    <2>8. /\ c \in allowed'.set => sinceIn'[c] < Ttl
          /\ c \notin allowed'.set => sinceOut'[c] < Ttl \/ sinceUnread' < Ttl
      BY <2>2, <2>7, LetThrough DEF RoutingTypeOK
    <2>9. sinceDump'[settings'.is.dump] < Ttl
      <3>1. sinceDump'[settings'.is.dump] <= settings'.age
        BY <1>3, <1>9 DEF SettingsAreRight, Fresh
      <3>2. sinceDump'[settings'.is.dump] \in Nat /\ settings'.age \in Nat /\ Ttl \in Nat
        BY <1>3, <2>3, <2>7, Ages DEF RoutingTypeOK
      <3> QED BY <1>3, <3>1, <3>2
    <2>10. PostsGoWhereConfigured' /\ ConfiguredIsServed'
      BY <2>1, <2>8, <2>9 DEF PostsGoWhereConfigured, ConfiguredIsServed, Refuse, DestinationAllowed
    <2>11. OfficeMentionWins'
      BY <2>1, <2>5 DEF RoutingInv, RoutesAreConfigured, OfficeMentionWins, Refuse
    <2> QED BY <1>3, <1>7, <2>2, <2>7, <2>10, <2>11 DEF RoutingInv, RoutesAreConfigured, CachesInv
  <1> QED BY <1>8, <1>9

(* A notice is posted.                                                     *)
LEMMA ResolvedKeeps ==
  ASSUME RoutingInv, NEW n \in notices, Resolved(n)
  PROVE  RoutingInv'
  <1>1. UNCHANGED <<config, allowed, settings, sinceIn, sinceOut, sinceDump, sinceUnread, changes,
                    unread>>
        /\ notices' = notices \ {n} /\ lastPost' = Nothing
    BY DEF Resolved
  <1>2. RoutingTypeOK
    BY DEF RoutingInv, RoutesAreConfigured
  <1>3. IsFiniteSet(notices') /\ Cardinality(notices') <= MaxNotices
    <2>1. IsFiniteSet(notices) /\ Cardinality(notices) \in Nat /\ Cardinality(notices) <= MaxNotices
      BY <1>2, FS_CardinalityType DEF RoutingTypeOK
    <2>2. IsFiniteSet(notices \ {n}) /\ Cardinality(notices \ {n}) = Cardinality(notices) - 1
      BY <2>1, FS_RemoveElement
    <2> QED BY <1>1, <2>1, <2>2
  <1>4. lastPost' \in Post
    BY <1>1 DEF Nothing, Post
  <1>5. RoutingTypeOK'
    BY <1>1, <1>2, <1>3, <1>4 DEF RoutingTypeOK
  <1>6. RoutesAreConfigured'
    BY <1>1, <1>5, NothingPosted DEF RoutingInv, RoutesAreConfigured
  <1>7. FilesInv' /\ CachesInv'
    BY <1>1 DEF RoutingInv, FilesInv, CachesInv, AllowlistIsRight, SettingsAreRight, Fresh
  <1> QED BY <1>6, <1>7 DEF RoutingInv

(* Every step keeps the invariant.                                         *)
LEMMA RoutingStep == RoutingInv /\ [RoutingNext]_routingVars => RoutingInv'
  <1> SUFFICES ASSUME RoutingInv, [RoutingNext]_routingVars PROVE RoutingInv'
    OBVIOUS
  <1>1. CASE Tick
    BY <1>1, TickKeeps
  <1>2. CASE Configure
    BY <1>2, ConfigureKeeps
  <1>3. ASSUME NEW c \in Channel, Content(c) PROVE RoutingInv'
    BY <1>3, ContentKeeps
  <1>4. ASSUME NEW c \in Channel, NEW override \in BOOLEAN, Notify(c, override) PROVE RoutingInv'
    BY <1>4, NotifyKeeps
  <1>5. ASSUME NEW n \in notices, Resolved(n) PROVE RoutingInv'
    BY <1>5, ResolvedKeeps
  <1>6. CASE UNCHANGED routingVars
    BY <1>6 DEF RoutingInv, RoutesAreConfigured, RoutingTypeOK, PostsGoWhereConfigured,
                ConfiguredIsServed, OfficeMentionWins, FilesInv, CachesInv, AllowlistIsRight,
                SettingsAreRight, Fresh, routingVars
  <1> QED BY <1>1, <1>2, <1>3, <1>4, <1>5, <1>6 DEF RoutingNext

(* What is posted goes where the operator wants posts, or wanted them less *)
(* than the life of a cache ago, and what has been wanted for longer is    *)
(* not refused, for any channels, files, changes and failures to read      *)
(* them; the mention an office chose stays.                                *)
THEOREM PostsAreRouted == RoutingSpec => []RoutesAreConfigured
  <1>1. RoutingInv => RoutesAreConfigured
    BY DEF RoutingInv
  <1> QED BY RoutingStart, RoutingStep, <1>1, PTL DEF RoutingSpec
=============================================================================
