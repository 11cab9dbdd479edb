---------------------------- MODULE ConfigProofs ----------------------------
(***************************************************************************)
(* What an accepted configuration is, for any targets and alerters and     *)
(* whatever the layers set: the layers with the defaults applied, valid,   *)
(* but for the mode, which the flag may have changed.                      *)
(***************************************************************************)
EXTENDS Config, TLAPS

Effective == ApplyDefaults(Layered)
ModeSetting == <<"app", "mode">>

\* A setting no flag changes.
Kept(k) == k \in Settings /\ k # ModeSetting

\* The settings that are compared with each other.
Waits == {"retry"} \X {"initial_wait", "max_wait"}

IInv ==
  /\ stage \in {"start", "decoded", "defaulted", "loaded", "accepted", "rejected"}
  /\ \A k \in Waits : Layered[k] \in Signs \cup {2, Garbage}
  /\ stage \in {"start", "decoded"} => cfg = Layered
  /\ stage \in {"decoded", "defaulted", "loaded", "accepted"} =>
       \A k \in Settings : Layered[k] # Garbage
  /\ stage \in {"defaulted", "loaded"} => cfg = Effective
  /\ stage \in {"loaded", "accepted"} => Valid(Effective)
  /\ stage = "accepted" => \A k \in Settings : k # ModeSetting => cfg[k] = Effective[k]
  /\ stage = "accepted" =>
       cfg[ModeSetting] \in Modes \cup {Effective[ModeSetting]}

LEMMA SettingFacts ==
  /\ ModeSetting \in Settings
  /\ \A t \in Targets, f \in TargetFields :
       <<"targets", t, f>> \in EntrySettings /\ Kept(<<"targets", t, f>>)
  /\ \A a \in Alerters, f \in AlerterFields :
       <<"alerters", a, f>> \in EntrySettings /\ Kept(<<"alerters", a, f>>)
  /\ \A f \in {"timeout", "proxy", "cert_expiry_warning"} :
       Kept(<<"http", f>>) /\ <<"http", f>> \notin EntrySettings
BY DEF ModeSetting, Kept, Settings, SectionSettings, EntrySettings

LEMMA WaitFacts ==
  ASSUME NEW k \in Waits
  PROVE  /\ Kept(k) /\ k \notin EntrySettings /\ k[1] = "retry"
         /\ Numeric(k) /\ Choices(k) = Signs \cup {2, Garbage} /\ Zero(k) = 0
         /\ Defaults[k] \in {1, 2} /\ Field(k) \in {"initial_wait", "max_wait"}
<1>1. k = <<"retry", "initial_wait">> \/ k = <<"retry", "max_wait">>
  BY DEF Waits
<1>2. Kept(k) /\ k \notin EntrySettings /\ k[1] = "retry"
  BY <1>1 DEF ModeSetting, Kept, Settings, SectionSettings, EntrySettings
<1>3. Field(k) \in {"initial_wait", "max_wait"}
  BY <1>1, <1>2 DEF Field
<1>4. Numeric(k)
  BY <1>3 DEF Numeric
<1>5. Choices(k) = Signs \cup {2, Garbage}
  BY <1>3, <1>4 DEF Choices
<1>6. Zero(k) = 0
  BY <1>3, <1>4 DEF Zero
<1>7. k \in SectionSettings
  BY <1>1 DEF SectionSettings
<1>8. Defaults[k] \in {1, 2}
  <2>1. CASE k = <<"retry", "initial_wait">>
    <3>1. Field(k) = "initial_wait"
      BY <1>2, <2>1 DEF Field
    <3> QED
      BY <2>1, <3>1, <1>7 DEF Defaults
  <2>2. CASE k = <<"retry", "max_wait">>
    <3>1. Field(k) = "max_wait"
      BY <1>2, <2>2 DEF Field
    <3> QED
      BY <2>2, <3>1, <1>7 DEF Defaults
  <2> QED
    BY <1>1, <2>1, <2>2
<1> QED
  BY <1>2, <1>3, <1>4, <1>5, <1>6, <1>8

\* Whatever the layers set a wait to, it is a number or does not decode.
LEMMA WaitsAreNumbers ==
  ASSUME Init, NEW k \in Waits
  PROVE  Layered[k] \in Signs \cup {2, Garbage}
<1> DEFINE Numbers == Signs \cup {2, Garbage}
           Fine(f) == k \in DOMAIN f => f[k] \in Numbers
<1>1. ASSUME NEW one \in Changes
      PROVE  Fine(Layer(one))
  <2>1. PICK j \in Settings : one \in {j} \X Choices(j)
    BY DEF Changes
  <2> QED
    BY <2>1, WaitFacts DEF Layer
<1>2. k \notin DOMAIN Minimal
  BY DEF Minimal, Waits
<1>3. \A upper, lower : Fine(upper) /\ Fine(lower) => Fine(Over(upper, lower))
  BY DEF Over
<1>4. Fine(<<>>)
  BY DEF Waits
<1>5. Fine(Defaults)
  BY WaitFacts DEF Signs
<1> HIDE DEF Fine
<1>6. Fine(Minimal)
  BY <1>2 DEF Fine
<1>7. Fine(file) /\ Fine(env)
  BY <1>1, <1>3, <1>4, <1>6 DEF Init, Reachable
<1>8. Fine(Over(env, Over(file, Defaults)))
  BY <1>3, <1>5, <1>7
<1> QED
  BY <1>8, WaitFacts DEF Layered, Kept, Signs, Fine

LEMMA Invariance == Spec => []IInv
<1>1. Init => IInv
  BY WaitsAreNumbers DEF Init, IInv
<1>2. IInv /\ [Next]_vars => IInv'
  <2> SUFFICES ASSUME IInv, [Next]_vars PROVE IInv'
    OBVIOUS
  <2>0. file' = file /\ env' = env
    BY DEF Next, vars, Decode, Default, Validate, Provide, Done
  <2>1. Layered' = Layered /\ Effective' = Effective
    BY <2>0 DEF Layered, Effective, ApplyDefaults, Fallback
  <2>2. CASE Decode
    BY <2>1, <2>2 DEF Decode, IInv
  <2>3. CASE Default
    BY <2>1, <2>3 DEF Default, IInv, Effective
  <2>4. CASE Validate
    BY <2>1, <2>4 DEF Validate, IInv
  <2>5. CASE Provide
    <3>1. /\ cfg = Effective /\ Valid(Effective) /\ DOMAIN cfg = Settings
          /\ stage' \in {"accepted", "rejected"}
      BY <2>5 DEF Provide, IInv, Effective, ApplyDefaults
    <3>2. ModeSetting \in Settings
      BY SettingFacts
    <3>5. /\ \A k \in Waits : Layered[k] \in Signs \cup {2, Garbage}
          /\ \A k \in Settings : Layered[k] # Garbage
      BY <2>5 DEF Provide, IInv
    <3>3. CASE flag \in Modes
      <4>1. cfg' = [cfg EXCEPT ![ModeSetting] = flag]
        BY <2>5, <3>3 DEF Provide, ModeSetting
      <4>2. \A k \in Settings : k # ModeSetting => cfg'[k] = Effective[k]
        BY <3>1, <4>1
      <4>3. cfg'[ModeSetting] = flag
        BY <3>1, <3>2, <4>1
      <4>4. stage' = "accepted" => cfg'[ModeSetting] \in Modes \cup {Effective[ModeSetting]}
        BY <3>3, <4>3
      <4> QED
        BY <2>1, <3>1, <3>5, <4>2, <4>4, Zenon DEF IInv
    <3>4. CASE flag \notin Modes
      <4>1. cfg' = cfg
        BY <2>5, <3>4 DEF Provide
      <4>2. \A k \in Settings : k # ModeSetting => cfg'[k] = Effective[k]
        BY <3>1, <4>1
      <4>3. cfg'[ModeSetting] = Effective[ModeSetting]
        BY <3>1, <4>1
      <4> QED
        BY <2>1, <3>1, <3>5, <4>2, <4>3, Zenon DEF IInv
    <3> QED
      BY <3>3, <3>4
  <2>6. CASE UNCHANGED vars
    BY <2>1, <2>6 DEF vars, IInv
  <2> QED
    BY <2>2, <2>3, <2>4, <2>5, <2>6 DEF Next, Done
<1> QED
  BY <1>1, <1>2, PTL DEF Spec

\* What an accepted setting is.
LEMMA AcceptedSetting ==
  ASSUME IInv, stage = "accepted", NEW k, Kept(k)
  PROVE  cfg[k] = IF Layered[k] = Zero(k) THEN Fallback(Layered, k) ELSE Layered[k]
BY DEF IInv, Kept, Effective, ApplyDefaults

\* An accepted configuration is one the other modules assume: validate runs
\* after applyDefaults, and the flag only changes the mode (ProvideConfig).
THEOREM AcceptedConfigsRun == Spec => []AcceptedIsRunnable
<1>1. IInv => AcceptedIsRunnable
  <2> SUFFICES ASSUME IInv, stage = "accepted" PROVE AcceptedIsRunnable
    BY DEF AcceptedIsRunnable
  <2>1. Valid(Effective) /\ \A k : Kept(k) => cfg[k] = Effective[k]
    BY DEF IInv, Kept
  <2>2. cfg[ModeSetting] \in Modes
    BY <2>1 DEF IInv, Valid, ValidApp, ModeSetting
  <2>3. /\ cfg[<<"app", "concurrency">>] >= 1
        /\ cfg[<<"app", "reminder_multiplier">>] >= 0
    <3>1. Kept(<<"app", "concurrency">>) /\ Kept(<<"app", "reminder_multiplier">>)
      BY DEF Kept, ModeSetting, Settings, SectionSettings
    <3> QED
      BY <2>1, <3>1 DEF Valid, ValidApp
  <2>4. cfg[<<"retry", "max_attempts">>] >= 1
    <3>1. Kept(<<"retry", "max_attempts">>)
      BY DEF Kept, ModeSetting, Settings, SectionSettings
    <3> QED
      BY <2>1, <3>1 DEF Valid, ValidRetry
  <2>5. cfg[<<"retry", "initial_wait">>] \in 1..cfg[<<"retry", "max_wait">>]
    <3>1. \A k \in Waits : Kept(k) /\ cfg[k] \in Int
      <4> SUFFICES ASSUME NEW k \in Waits PROVE Kept(k) /\ cfg[k] \in Int
        OBVIOUS
      <4>1. Layered[k] \in Signs \cup {2}
        BY WaitFacts DEF IInv, Kept
      <4>2. Fallback(Layered, k) = Layered[k]
        BY WaitFacts DEF Fallback
      <4> QED
        BY <4>1, <4>2, WaitFacts, AcceptedSetting DEF Signs
    <3>2. <<"retry", "initial_wait">> \in Waits /\ <<"retry", "max_wait">> \in Waits
      BY DEF Waits
    <3>3. /\ Effective[<<"retry", "initial_wait">>] > 0
          /\ Effective[<<"retry", "max_wait">>] >= Effective[<<"retry", "initial_wait">>]
      BY <2>1 DEF Valid, ValidRetry
    <3>4. /\ cfg[<<"retry", "initial_wait">>] > 0
          /\ cfg[<<"retry", "max_wait">>] >= cfg[<<"retry", "initial_wait">>]
      BY <2>1, <3>1, <3>2, <3>3
    <3> QED
      BY <3>1, <3>2, <3>4
  <2>6. ASSUME NEW t \in Targets
        PROVE  Target(cfg, t, "interval") > 0 /\ Target(cfg, t, "timeout") > 0
    BY <2>1, SettingFacts DEF Valid, ValidTarget, Target, TargetFields
  <2>7. ASSUME NEW a \in Alerters, Alerter(cfg, a, "enabled")
        PROVE  Alerter(cfg, a, "timeout") > 0
    BY <2>1, <2>7, SettingFacts DEF Valid, ValidAlerter, Alerter, AlerterFields
  <2> QED
    BY <2>2, <2>3, <2>4, <2>5, <2>6, <2>7 DEF AcceptedIsRunnable, ModeSetting
<1> QED
  BY <1>1, Invariance, PTL

\* No TCP target runs through an HTTP proxy, its own or the inherited one
\* (validateTargets, after applyDefaults).
THEOREM TCPNeedsNoHTTPProxy == Spec => []NoTCPThroughHTTPProxy
<1>1. IInv => NoTCPThroughHTTPProxy
  <2> SUFFICES ASSUME IInv, stage = "accepted", NEW t \in Targets
               PROVE  LET own == Target(Layered, t, "proxy")
                          used == IF own = "" THEN Layered[<<"http", "proxy">>] ELSE own
                      IN  IsTCP(cfg, t) =>
                            used \in {"", "direct", "socks5"} /\ Target(cfg, t, "proxy") = used
    BY DEF NoTCPThroughHTTPProxy
  <2> DEFINE p == <<"targets", t, "proxy">>
             u == <<"targets", t, "url">>
  <2>1. Kept(p) /\ Kept(u) /\ p \in EntrySettings
    BY SettingFacts DEF TargetFields
  <2>2. Field(p) = "proxy" /\ ~Numeric(p)
    BY <2>1 DEF Field, Numeric
  <2>3. Zero(p) = ""
    BY <2>2 DEF Zero
  <2>4. Fallback(Layered, p) = Layered[<<"http", "proxy">>]
    BY <2>1, <2>2 DEF Fallback
  <2>5. cfg[p] = IF Layered[p] = "" THEN Layered[<<"http", "proxy">>] ELSE Layered[p]
    BY <2>1, <2>3, <2>4, AcceptedSetting
  <2>6. cfg[p] = Effective[p] /\ cfg[u] = Effective[u]
    BY <2>1 DEF IInv, Kept
  <2>7. Effective[u] = "tcp" => Effective[p] \in {"", "direct", "socks5"}
    BY DEF IInv, Valid, ValidTarget, IsTCP, Target
  <2> QED
    BY <2>5, <2>6, <2>7 DEF IsTCP, Target
<1> QED
  BY <1>1, Invariance, PTL

\* A target's own certificate window wins unless it is zero (applyDefaults).
THEOREM WindowsAreInherited == Spec => []WindowIsInheritedOrOff
<1>1. IInv => WindowIsInheritedOrOff
  <2> SUFFICES ASSUME IInv, stage = "accepted", NEW t \in Targets
               PROVE  LET own == Target(Layered, t, "cert_expiry_warning")
                          used == Target(cfg, t, "cert_expiry_warning")
                      IN  IF own = 0 THEN used = Layered[<<"http", "cert_expiry_warning">>]
                          ELSE used = own
    BY DEF WindowIsInheritedOrOff
  <2> DEFINE w == <<"targets", t, "cert_expiry_warning">>
  <2>1. Kept(w) /\ w \in EntrySettings
    BY SettingFacts DEF TargetFields
  <2>2. Field(w) = "cert_expiry_warning"
    BY <2>1 DEF Field
  <2>3. Zero(w) = 0
    BY <2>2 DEF Zero, Numeric
  <2>4. Fallback(Layered, w) = Layered[<<"http", "cert_expiry_warning">>]
    BY <2>2 DEF Fallback
  <2> QED
    BY <2>1, <2>3, <2>4, AcceptedSetting DEF Target
<1> QED
  BY <1>1, Invariance, PTL

-----------------------------------------------------------------------------
(***************************************************************************)
(* A document in which every setting is the smallest one's or means a      *)
(* default: what its layers are, setting by setting, what the defaults     *)
(* make of them, and that it is valid.                                     *)
(***************************************************************************)
\* The smallest document is in every file, and gives the entries' identities.
Written == DOMAIN Minimal \subseteq DOMAIN file

Required(k) == k \in DOMAIN Minimal

LEMMA RequiredFacts ==
  ASSUME NEW k
  PROVE  /\ Required(k) <=>
              \/ \E t \in Targets, f \in {"name", "url"} : k = <<"targets", t, f>>
              \/ \E a \in Alerters, f \in {"type", "enabled", "credentials"} :
                   k = <<"alerters", a, f>>
         /\ Required(k) => k \in EntrySettings /\ Field(k) = k[3]
         /\ k \in EntrySettings => k \notin SectionSettings /\ Field(k) = k[3]
         /\ k \in SectionSettings => k \notin EntrySettings /\ ~Required(k) /\ Field(k) = k[2]
BY DEF Required, Minimal, EntrySettings, SectionSettings, TargetFields, AlerterFields, Field

LEMMA MinimalFacts ==
  /\ \A t \in Targets : /\ Minimal[<<"targets", t, "name">>] = t
                        /\ Minimal[<<"targets", t, "url">>] \in {"https", "tcp"}
  /\ \A a \in Alerters : /\ Minimal[<<"alerters", a, "type">>] = "telegram"
                         /\ Minimal[<<"alerters", a, "enabled">>] = TRUE
                         /\ Minimal[<<"alerters", a, "credentials">>] = TRUE
<1>1. ASSUME NEW t \in Targets
      PROVE  /\ Minimal[<<"targets", t, "name">>] = t
             /\ Minimal[<<"targets", t, "url">>] \in {"https", "tcp"}
  <2> DEFINE n == <<"targets", t, "name">>
             u == <<"targets", t, "url">>
  <2>1. Required(n) /\ Required(u)
    BY RequiredFacts
  <2>2. Field(n) = "name" /\ Field(u) = "url" /\ n[2] = t /\ u[2] = t
    BY <2>1, RequiredFacts
  <2> HIDE DEF n, u
  <2>3. Minimal[n] = t
    BY <2>1, <2>2 DEF Minimal, Required
  <2>4. Minimal[u] = IF t = "db" THEN "tcp" ELSE "https"
    BY <2>1, <2>2 DEF Minimal, Required
  <2> QED
    BY <2>3, <2>4 DEF n, u
<1>2. ASSUME NEW a \in Alerters
      PROVE  /\ Minimal[<<"alerters", a, "type">>] = "telegram"
             /\ Minimal[<<"alerters", a, "enabled">>] = TRUE
             /\ Minimal[<<"alerters", a, "credentials">>] = TRUE
  <2> DEFINE y == <<"alerters", a, "type">>
             e == <<"alerters", a, "enabled">>
             r == <<"alerters", a, "credentials">>
  <2>1. Required(y) /\ Required(e) /\ Required(r)
    BY RequiredFacts
  <2>2. Field(y) = "type" /\ Field(e) = "enabled" /\ Field(r) = "credentials"
    BY <2>1, RequiredFacts
  <2> HIDE DEF y, e, r
  <2>3. Minimal[y] = "telegram"
    BY <2>1, <2>2 DEF Minimal, Required
  <2>4. Minimal[e] = TRUE
    BY <2>1, <2>2 DEF Minimal, Required
  <2>5. Minimal[r] = TRUE
    BY <2>1, <2>2 DEF Minimal, Required
  <2> QED
    BY <2>3, <2>4, <2>5 DEF y, e, r
<1> QED
  BY <1>1, <1>2

\* What the layers say of a setting, in a document with nothing unusual.
LEMMA UsualSettings ==
  ASSUME Written, ~Unusual, NEW k \in Settings
  PROVE  /\ Required(k) => Layered[k] = Minimal[k]
         /\ k \in EntrySettings /\ ~Required(k) => Layered[k] = Zero(k)
         /\ k \in SectionSettings => Layered[k] = Defaults[k]
<1> DEFINE given == Over(env, file)
           layers == Over(env, Over(file, Defaults))
<1>1. /\ DOMAIN given = DOMAIN env \cup DOMAIN file
      /\ DOMAIN layers = DOMAIN env \cup DOMAIN file \cup SectionSettings
      /\ DOMAIN Defaults = SectionSettings
  BY DEF Over, Defaults
<1>2. k \in DOMAIN given => k \in DOMAIN layers /\ layers[k] = given[k]
  BY DEF Over
<1>3. k \notin DOMAIN given /\ k \in SectionSettings =>
        k \in DOMAIN layers /\ layers[k] = Defaults[k]
  BY DEF Over, Defaults
<1>4. k \in DOMAIN given =>
        (Required(k) /\ given[k] = Minimal[k]) \/ MeansDefault(k, given[k])
  BY DEF Unusual, Required
<1> HIDE DEF given, layers
<1>5. Layered[k] = IF k \in DOMAIN layers THEN layers[k] ELSE Zero(k)
  BY DEF Layered, layers
<1>6. CASE Required(k)
  <2>1. k \in DOMAIN given
    BY <1>1, <1>6 DEF Written, Required
  <2>2. k \in EntrySettings /\ k \notin SectionSettings
    BY <1>6, RequiredFacts
  <2>3. Field(k) \in {"name", "url", "type", "enabled", "credentials"}
    BY <1>6, RequiredFacts
  <2>4. ~MeansDefault(k, given[k])
    BY <2>3 DEF MeansDefault
  <2> QED
    BY <1>2, <1>4, <1>5, <1>6, <2>1, <2>2, <2>4
<1>7. CASE ~Required(k) /\ k \in EntrySettings
  <2>1. k \notin SectionSettings
    BY <1>7, RequiredFacts
  <2>2. CASE k \in DOMAIN given
    BY <1>2, <1>4, <1>5, <1>7, <2>1, <2>2 DEF MeansDefault
  <2>3. CASE k \notin DOMAIN given
    BY <1>1, <1>5, <1>7, <2>1, <2>3
  <2> QED
    BY <1>7, <2>1, <2>2, <2>3
<1>8. CASE k \in SectionSettings
  <2>1. k \notin EntrySettings /\ ~Required(k)
    BY <1>8, RequiredFacts
  <2>2. k \notin DOMAIN given
    BY <1>4, <2>1 DEF MeansDefault
  <2> QED
    BY <1>3, <1>5, <1>8, <2>1, <2>2
<1> QED
  BY <1>6, <1>7, <1>8 DEF Settings

\* The sections of the configuration: every default is in place already.
LEMMA UsualSections ==
  ASSUME Written, ~Unusual, NEW s, NEW f, <<s, f>> \in SectionSettings
  PROVE  /\ Layered[<<s, f>>] = Defaults[<<s, f>>]
         /\ Effective[<<s, f>>] = Defaults[<<s, f>>]
<1> DEFINE k == <<s, f>>
<1>1. /\ k \in Settings /\ k \notin EntrySettings
      /\ k[1] \in {"app", "http", "retry", "metrics"} /\ Field(k) = f
      /\ f \notin {"interval", "expected_status"}
  BY RequiredFacts DEF Settings, SectionSettings
<1> HIDE DEF k
<1>2. Layered[k] = Defaults[k]
  BY <1>1, UsualSettings DEF k
<1>3. Fallback(Layered, k) = Layered[k]
  BY <1>1 DEF Fallback
<1>4. Effective[k] = Layered[k]
  BY <1>1, <1>3 DEF Effective, ApplyDefaults
<1> QED
  BY <1>2, <1>4 DEF k

LEMMA DefaultValues ==
  /\ \A f \in {"mode", "log_level", "concurrency", "reminder_multiplier"} :
       <<"app", f>> \in SectionSettings
  /\ \A f \in {"timeout", "proxy", "cert_expiry_warning"} :
       <<"http", f>> \in SectionSettings
  /\ \A f \in {"max_attempts", "initial_wait", "max_wait", "multiplier"} :
       <<"retry", f>> \in SectionSettings
  /\ <<"metrics", "listen">> \in SectionSettings
  /\ Defaults[<<"app", "mode">>] = "oneshot"
  /\ Defaults[<<"app", "log_level">>] = "info"
  /\ Defaults[<<"app", "concurrency">>] = 1
  /\ Defaults[<<"app", "reminder_multiplier">>] = 1
  /\ Defaults[<<"http", "timeout">>] = 1
  /\ Defaults[<<"http", "proxy">>] = ""
  /\ Defaults[<<"http", "cert_expiry_warning">>] = 0
  /\ Defaults[<<"retry", "max_attempts">>] = 1
  /\ Defaults[<<"retry", "initial_wait">>] = 1
  /\ Defaults[<<"retry", "max_wait">>] = 2
  /\ Defaults[<<"retry", "multiplier">>] = "above one"
  /\ Defaults[<<"metrics", "listen">>] = ""
<1>1. /\ \A f \in {"mode", "log_level", "concurrency", "reminder_multiplier"} :
           <<"app", f>> \in SectionSettings
      /\ \A f \in {"timeout", "proxy", "cert_expiry_warning"} :
           <<"http", f>> \in SectionSettings
      /\ \A f \in {"max_attempts", "initial_wait", "max_wait", "multiplier"} :
           <<"retry", f>> \in SectionSettings
      /\ <<"metrics", "listen">> \in SectionSettings
  BY DEF SectionSettings
<1>2. ASSUME NEW s, NEW f, <<s, f>> \in SectionSettings
      PROVE  /\ Defaults[<<s, f>>] =
                  CASE s = "app" /\ f = "mode" -> "oneshot"
                    [] s = "app" /\ f = "log_level" -> "info"
                    [] s = "retry" /\ f = "max_wait" -> 2
                    [] s = "retry" /\ f = "multiplier" -> "above one"
                    [] f \in {"concurrency", "reminder_multiplier", "timeout",
                              "max_attempts", "initial_wait"} -> 1
                    [] OTHER -> Zero(<<s, f>>)
             /\ f \in {"proxy", "listen"} => Defaults[<<s, f>>] = ""
             /\ f = "cert_expiry_warning" => Defaults[<<s, f>>] = 0
  <2> DEFINE k == <<s, f>>
  <2>1. Field(k) = f /\ k \in SectionSettings
    BY <1>2, RequiredFacts
  <2>2. /\ f \in {"proxy", "listen"} => Zero(k) = ""
        /\ f = "cert_expiry_warning" => Zero(k) = 0
    BY <2>1 DEF Zero, Numeric
  <2>3. Defaults[k] =
          CASE k = <<"app", "mode">> -> "oneshot"
            [] k = <<"app", "log_level">> -> "info"
            [] k = <<"retry", "max_wait">> -> 2
            [] k = <<"retry", "multiplier">> -> "above one"
            [] f \in {"concurrency", "reminder_multiplier", "timeout",
                      "max_attempts", "initial_wait"} -> 1
            [] OTHER -> Zero(k)
    BY <2>1 DEF Defaults
  <2>4. f \in {"proxy", "listen", "cert_expiry_warning"} => Defaults[k] = Zero(k)
    BY <2>3
  <2> QED
    BY <2>2, <2>3, <2>4
<1>3. /\ Defaults[<<"app", "mode">>] = "oneshot"
      /\ Defaults[<<"app", "log_level">>] = "info"
  <2>1. Defaults[<<"app", "mode">>] = "oneshot"
    BY <1>1, <1>2
  <2>2. Defaults[<<"app", "log_level">>] = "info"
    BY <1>1, <1>2
  <2> QED
    BY <2>1, <2>2
<1>8. /\ Defaults[<<"app", "concurrency">>] = 1
      /\ Defaults[<<"app", "reminder_multiplier">>] = 1
  BY <1>1, <1>2
<1>4. /\ Defaults[<<"http", "timeout">>] = 1
      /\ Defaults[<<"retry", "max_attempts">>] = 1
      /\ Defaults[<<"retry", "initial_wait">>] = 1
  BY <1>1, <1>2
<1>5. /\ Defaults[<<"retry", "max_wait">>] = 2
      /\ Defaults[<<"retry", "multiplier">>] = "above one"
  BY <1>1, <1>2
<1>6. /\ Defaults[<<"http", "proxy">>] = ""
      /\ Defaults[<<"metrics", "listen">>] = ""
  BY <1>1, <1>2
<1>7. Defaults[<<"http", "cert_expiry_warning">>] = 0
  BY <1>1, <1>2
<1> QED
  BY <1>1, <1>3, <1>4, <1>5, <1>6, <1>7, <1>8

\* A setting that no one has to write is defaulted, or zero and harmless.
LEMMA UsualTargets ==
  ASSUME Written, ~Unusual, NEW t \in Targets
  PROVE  /\ Effective[<<"targets", t, "name">>] = t
         /\ Effective[<<"targets", t, "url">>] \in {"https", "tcp"}
         /\ Effective[<<"targets", t, "interval">>] = 1
         /\ Effective[<<"targets", t, "timeout">>] = 1
         /\ Effective[<<"targets", t, "expected_status">>] = 1
         /\ Effective[<<"targets", t, "proxy">>] = ""
<1>1. ASSUME NEW f \in TargetFields
      PROVE  LET k == <<"targets", t, f>>
             IN  /\ k \in Settings /\ k \in EntrySettings /\ Field(k) = f /\ k[1] = "targets"
                 /\ Effective[k] = IF Layered[k] = Zero(k) THEN Fallback(Layered, k)
                                   ELSE Layered[k]
                 /\ f \in {"name", "url"} => Layered[k] = Minimal[k]
                 /\ f \notin {"name", "url"} => Layered[k] = Zero(k)
  <2> DEFINE k == <<"targets", t, f>>
  <2>1. k \in EntrySettings /\ k \in Settings /\ k[1] = "targets"
    BY SettingFacts DEF Kept
  <2>2. Field(k) = f
    BY <2>1, RequiredFacts
  <2>3. Required(k) <=> f \in {"name", "url"}
    BY RequiredFacts
  <2> HIDE DEF k
  <2>4. Effective[k] = IF Layered[k] = Zero(k) THEN Fallback(Layered, k) ELSE Layered[k]
    BY <2>1 DEF Effective, ApplyDefaults
  <2> QED
    BY <2>1, <2>2, <2>3, <2>4, UsualSettings DEF k
<1>2. Effective[<<"targets", t, "name">>] = t
  <2> DEFINE k == <<"targets", t, "name">>
  <2>1. Layered[k] = t
    BY <1>1, MinimalFacts DEF TargetFields
  <2>2. Zero(k) = "" /\ t # ""
    BY <1>1, ConfigAssumption DEF Zero, Numeric, TargetFields
  <2> QED
    BY <1>1, <2>1, <2>2 DEF TargetFields
<1>3. Effective[<<"targets", t, "url">>] \in {"https", "tcp"}
  <2> DEFINE k == <<"targets", t, "url">>
  <2>1. Layered[k] \in {"https", "tcp"}
    BY <1>1, MinimalFacts DEF TargetFields
  <2>2. Zero(k) = ""
    BY <1>1 DEF Zero, Numeric, TargetFields
  <2> QED
    BY <1>1, <2>1, <2>2 DEF TargetFields
<1>4. ASSUME NEW f \in {"interval", "expected_status"}
      PROVE  Effective[<<"targets", t, f>>] = 1
  <2> DEFINE k == <<"targets", t, f>>
  <2>1. Effective[k] = Fallback(Layered, k) /\ Field(k) = f /\ k[1] = "targets"
    BY <1>1 DEF TargetFields
  <2> HIDE DEF k
  <2>2. Fallback(Layered, k) = 1
    BY <2>1 DEF Fallback
  <2> QED
    BY <2>1, <2>2 DEF k
<1>5. Effective[<<"targets", t, "timeout">>] = 1
  <2> DEFINE k == <<"targets", t, "timeout">>
  <2>1. Effective[k] = Fallback(Layered, k) /\ Field(k) = "timeout" /\ k[1] = "targets"
    BY <1>1 DEF TargetFields
  <2> HIDE DEF k
  <2>2. Fallback(Layered, k) = Layered[<<"http", "timeout">>]
    BY <2>1 DEF Fallback
  <2> QED
    BY <2>1, <2>2, UsualSections, DefaultValues DEF k
<1>6. Effective[<<"targets", t, "proxy">>] = ""
  <2> DEFINE k == <<"targets", t, "proxy">>
  <2>1. /\ Effective[k] = Fallback(Layered, k) /\ Field(k) = "proxy" /\ k[1] = "targets"
        /\ k \in EntrySettings
    BY <1>1 DEF TargetFields
  <2> HIDE DEF k
  <2>2. Fallback(Layered, k) = Layered[<<"http", "proxy">>]
    BY <2>1 DEF Fallback
  <2> QED
    BY <2>1, <2>2, UsualSections, DefaultValues DEF k
<1> QED
  BY <1>2, <1>3, <1>4, <1>5, <1>6

LEMMA UsualAlerters ==
  ASSUME Written, ~Unusual, NEW a \in Alerters
  PROVE  /\ Effective[<<"alerters", a, "type">>] = "telegram"
         /\ Effective[<<"alerters", a, "credentials">>] = TRUE
         /\ Effective[<<"alerters", a, "timeout">>] = 1
         /\ Effective[<<"alerters", a, "proxy">>] = ""
<1>1. ASSUME NEW f \in AlerterFields
      PROVE  LET k == <<"alerters", a, f>>
             IN  /\ k \in Settings /\ k \in EntrySettings /\ Field(k) = f /\ k[1] = "alerters"
                 /\ Effective[k] = IF Layered[k] = Zero(k) THEN Fallback(Layered, k)
                                   ELSE Layered[k]
                 /\ f \in {"type", "credentials"} => Layered[k] = Minimal[k]
                 /\ f \in {"timeout", "proxy"} => Layered[k] = Zero(k)
  <2> DEFINE k == <<"alerters", a, f>>
  <2>1. k \in EntrySettings /\ k \in Settings /\ k[1] = "alerters"
    BY SettingFacts DEF Kept
  <2>2. Field(k) = f
    BY <2>1, RequiredFacts
  <2>3. Required(k) <=> f \in {"type", "enabled", "credentials"}
    BY RequiredFacts
  <2> HIDE DEF k
  <2>4. Effective[k] = IF Layered[k] = Zero(k) THEN Fallback(Layered, k) ELSE Layered[k]
    BY <2>1 DEF Effective, ApplyDefaults
  <2> QED
    BY <2>1, <2>2, <2>3, <2>4, UsualSettings DEF k
<1>2. Effective[<<"alerters", a, "type">>] = "telegram"
  <2> DEFINE k == <<"alerters", a, "type">>
  <2>1. Layered[k] = "telegram"
    BY <1>1, MinimalFacts DEF AlerterFields
  <2>2. Zero(k) = ""
    BY <1>1 DEF Zero, Numeric, AlerterFields
  <2> QED
    BY <1>1, <2>1, <2>2 DEF AlerterFields
<1>3. Effective[<<"alerters", a, "credentials">>] = TRUE
  <2> DEFINE k == <<"alerters", a, "credentials">>
  <2>1. Layered[k] = TRUE
    BY <1>1, MinimalFacts DEF AlerterFields
  <2>2. Zero(k) = FALSE
    BY <1>1 DEF Zero, Numeric, AlerterFields
  <2> QED
    BY <1>1, <2>1, <2>2 DEF AlerterFields
<1>4. Effective[<<"alerters", a, "timeout">>] = 1
  <2> DEFINE k == <<"alerters", a, "timeout">>
  <2>1. Effective[k] = Fallback(Layered, k) /\ Field(k) = "timeout" /\ k[1] = "alerters"
    BY <1>1 DEF AlerterFields
  <2> HIDE DEF k
  <2>2. Fallback(Layered, k) = 1
    BY <2>1 DEF Fallback
  <2> QED
    BY <2>1, <2>2 DEF k
<1>5. Effective[<<"alerters", a, "proxy">>] = ""
  <2> DEFINE k == <<"alerters", a, "proxy">>
  <2>1. /\ Effective[k] = Fallback(Layered, k) /\ Field(k) = "proxy" /\ k[1] = "alerters"
        /\ k \in EntrySettings
    BY <1>1 DEF AlerterFields
  <2> HIDE DEF k
  <2>2. Fallback(Layered, k) = Layered[<<"http", "proxy">>]
    BY <2>1 DEF Fallback
  <2> QED
    BY <2>1, <2>2, UsualSections, DefaultValues DEF k
<1> QED
  BY <1>2, <1>3, <1>4, <1>5

\* No value of such a document is garbage, and the whole of it is valid.
LEMMA UsualDecodes ==
  ASSUME Written, ~Unusual, NEW k \in Settings
  PROVE  Layered[k] # Garbage
BY UsualSettings, ConfigAssumption DEF Settings, Required

LEMMA UsualIsValid ==
  ASSUME Written, ~Unusual, Targets # {}
  PROVE  Valid(Effective)
<1>1. \A s, f : <<s, f>> \in SectionSettings => Effective[<<s, f>>] = Defaults[<<s, f>>]
  BY UsualSections
<1>2. ValidApp(Effective)
  <2>1. Effective[<<"app", "mode">>] = "oneshot" /\ Effective[<<"app", "log_level">>] = "info"
    BY <1>1, DefaultValues
  <2>2. /\ Effective[<<"app", "concurrency">>] = 1
        /\ Effective[<<"app", "reminder_multiplier">>] = 1
    BY <1>1, DefaultValues
  <2> QED
    BY <2>1, <2>2 DEF ValidApp, Modes
<1>3. ValidHTTP(Effective)
  <2>1. Effective[<<"http", "proxy">>] = ""
    BY <1>1, DefaultValues
  <2>2. /\ Effective[<<"http", "timeout">>] = 1
        /\ Effective[<<"http", "cert_expiry_warning">>] = 0
    BY <1>1, DefaultValues
  <2>3. Effective[<<"http", "timeout">>] > 0
    BY <2>2
  <2>4. Effective[<<"http", "proxy">>] # "bad"
    BY <2>1
  <2>5. Effective[<<"http", "cert_expiry_warning">>] >= 0
    BY <2>2
  <2> QED
    BY <2>3, <2>4, <2>5, Zenon DEF ValidHTTP
<1>4. ValidRetry(Effective)
  <2>1. /\ Effective[<<"retry", "max_attempts">>] = 1
        /\ Effective[<<"retry", "initial_wait">>] = 1
        /\ Effective[<<"retry", "max_wait">>] = 2
    BY <1>1, DefaultValues
  <2>2. Effective[<<"retry", "multiplier">>] = "above one"
    BY <1>1, DefaultValues
  <2>3. /\ Effective[<<"retry", "max_attempts">>] >= 1
        /\ Effective[<<"retry", "initial_wait">>] > 0
    BY <2>1
  <2>4. Effective[<<"retry", "max_wait">>] >= Effective[<<"retry", "initial_wait">>]
    BY <2>1
  <2>5. Effective[<<"retry", "multiplier">>] # "below one"
    BY <2>2
  <2> QED
    BY <2>3, <2>4, <2>5, Zenon DEF ValidRetry
<1>5. Effective[<<"metrics", "listen">>] # "bad"
  <2>1. Effective[<<"metrics", "listen">>] = ""
    BY <1>1, DefaultValues
  <2> QED
    BY <2>1
<1>6. ASSUME NEW a \in Alerters PROVE ValidAlerter(Effective, a)
  <2>1. /\ Alerter(Effective, a, "type") = "telegram"
        /\ Alerter(Effective, a, "credentials") = TRUE
        /\ Alerter(Effective, a, "proxy") = ""
    BY UsualAlerters, Zenon DEF Alerter
  <2>5. Alerter(Effective, a, "timeout") = 1
    BY UsualAlerters, Zenon DEF Alerter
  <2>2. Alerter(Effective, a, "type") \in {"telegram", "mattermost"}
    BY <2>1
  <2>3. Alerter(Effective, a, "timeout") > 0
    BY <2>5
  <2>4. Alerter(Effective, a, "proxy") # "bad"
    BY <2>1
  <2> QED
    BY <2>1, <2>2, <2>3, <2>4, Zenon DEF ValidAlerter
<1>7. ASSUME NEW t \in Targets
      PROVE  /\ ValidTarget(Effective, t)
             /\ Target(Effective, t, "name") = t
  <2>1. /\ Target(Effective, t, "name") = t
        /\ Target(Effective, t, "url") \in {"https", "tcp"}
        /\ Target(Effective, t, "proxy") = ""
    BY UsualTargets, Zenon DEF Target
  <2>5. /\ Target(Effective, t, "interval") = 1
        /\ Target(Effective, t, "timeout") = 1
        /\ Target(Effective, t, "expected_status") = 1
    BY UsualTargets, Zenon DEF Target
  <2>2. t # ""
    BY ConfigAssumption
  <2>3. Target(Effective, t, "interval") > 0 /\ Target(Effective, t, "timeout") > 0
    BY <2>5
  <2>4. /\ Target(Effective, t, "proxy") # "bad"
        /\ Target(Effective, t, "proxy") \in {"", "direct", "socks5"}
    BY <2>1
  <2> QED
    BY <2>1, <2>2, <2>3, <2>4, <2>5, Zenon DEF ValidTarget
<1>8. UniqueNames(Effective)
  BY <1>7 DEF UniqueNames
<1> QED
  BY <1>2, <1>3, <1>4, <1>5, <1>6, <1>7, <1>8 DEF Valid

\* Why a configuration was refused, and that the file is a full one.
RejectInv ==
  /\ Written
  /\ flag \in {"", "oneshot", "continuous", "other"}
  /\ DefaultsAreNeverRefused

\* A setting left out, or written as a zero that means the default, never makes
\* Load refuse a configuration: decodeSections and validate, which runs after
\* applyDefaults, find nothing wrong with what is left.
THEOREM DefaultsAreAccepted == Spec => []DefaultsAreNeverRefused
<1>1. Init => RejectInv
  <2> SUFFICES ASSUME Init PROVE RejectInv
    OBVIOUS
  <2>1. \A upper, lower : DOMAIN Over(upper, lower) = DOMAIN upper \cup DOMAIN lower
    BY DEF Over
  <2>2. PICK upper, lower :
          file = Over(upper, Over(lower, Minimal)) \/ file = Over(upper, Minimal)
    BY DEF Init
  <2>3. Written
    <3>1. CASE file = Over(upper, Over(lower, Minimal))
      <4>1. /\ DOMAIN file = DOMAIN upper \cup DOMAIN Over(lower, Minimal)
            /\ DOMAIN Over(lower, Minimal) = DOMAIN lower \cup DOMAIN Minimal
        BY <2>1, <3>1, Zenon
      <4> QED
        BY <4>1 DEF Written
    <3>2. CASE file = Over(upper, Minimal)
      <4>1. DOMAIN file = DOMAIN upper \cup DOMAIN Minimal
        BY <2>1, <3>2
      <4> QED
        BY <4>1 DEF Written
    <3> QED
      BY <2>2, <3>1, <3>2
  <2> QED
    BY <2>3 DEF Init, RejectInv, DefaultsAreNeverRefused
<1>2. IInv /\ RejectInv /\ [Next]_vars => RejectInv'
  <2> SUFFICES ASSUME IInv, RejectInv, [Next]_vars PROVE RejectInv'
    OBVIOUS
  <2>1. UNCHANGED <<file, env, flag>>
    BY DEF Next, vars, Decode, Default, Validate, Provide, Done
  <2>2. (Unusual' <=> Unusual) /\ (Written' <=> Written)
    BY <2>1 DEF Unusual, Written
  <2>3. SUFFICES ASSUME stage' = "rejected", flag # "other", Targets # {}, ~Unusual
                 PROVE  FALSE
    BY <2>1, <2>2 DEF RejectInv, DefaultsAreNeverRefused
  <2>4. (\A k \in Settings : Layered[k] # Garbage) /\ Valid(Effective)
    BY <2>3, UsualDecodes, UsualIsValid DEF RejectInv
  <2>5. CASE Decode
    BY <2>3, <2>4, <2>5 DEF Decode, IInv
  <2>6. CASE Default
    BY <2>3, <2>6 DEF Default
  <2>7. CASE Validate
    BY <2>3, <2>4, <2>7 DEF Validate, IInv
  <2>8. CASE Provide
    BY <2>3, <2>8 DEF Provide, RejectInv, Modes
  <2>9. CASE UNCHANGED vars
    BY <2>3, <2>9 DEF vars, RejectInv, DefaultsAreNeverRefused
  <2> QED
    BY <2>5, <2>6, <2>7, <2>8, <2>9 DEF Next, Done
<1>3. RejectInv => DefaultsAreNeverRefused
  BY DEF RejectInv
<1> QED
  BY <1>1, <1>2, <1>3, Invariance, PTL DEF Spec
=============================================================================
