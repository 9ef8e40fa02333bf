------------------------------- MODULE Tuning -------------------------------
(***************************************************************************)
(* The tuning parameters on their way from the kernel to a request:        *)
(* vtunerEvent, setProperty and setDiseqc (vtuner.cpp), the setters of     *)
(* satipConfig (config.h) and getTuningData (config.cpp).                  *)
(*                                                                         *)
(* The kernel sends one parameter per message and a request may be built   *)
(* between any two of them.  A value is converted when it arrives: the     *)
(* frequency with the tone of that moment.                                 *)
(*                                                                         *)
(* The symbol rate stands for every parameter that is stored, cleared and  *)
(* sent without looking at another one (modulation, roll-off, pilots,      *)
(* bandwidth, transmission mode, guard interval).                          *)
(***************************************************************************)
EXTENDS Integers

CONSTANTS
    Frequencies,   \* values of DTV_FREQUENCY: kHz behind the LNB, or Hz
    SymbolRates,   \* values of DTV_SYMBOL_RATE
    InnerFecs,     \* values of DTV_INNER_FEC
    StreamIds,     \* values of DTV_STREAM_ID
    PlsCodes,      \* values of DTV_SCRAMBLING_SEQUENCE_INDEX
    Switches       \* last byte of a DiSEqC command to a switch

NO_STREAM_ID_FILTER == -1

(* fe_code_rate_t: 9 is "let the frontend find out", 11 the last one known *)
FEC_AUTO == 9
FEC_9_10 == 11

ASSUME TuningAssumption ==
    /\ Frequencies \subseteq Nat
    /\ SymbolRates \subseteq Nat
    /\ InnerFecs \subseteq Nat
    /\ StreamIds \subseteq Nat \cup {NO_STREAM_ID_FILTER}
    /\ PlsCodes \subseteq Nat
    /\ Switches \subseteq 0..255

VARIABLES
    m_fe_type,                                     \* of the tuner, never changes
    m_tone, m_pol, m_signal_source,                \* kept by DTV_CLEAR
    m_frequency, m_symrate, m_fec, m_msys, m_plpid, m_pls_code,
    m_status,
    sent,      \* the tuning of the last request
    asked,     \* history: what the kernel said last, as it said it
    phase      \* external: what the kernel does: "sec", "properties" or "done"

secVars  == <<m_tone, m_pol, m_signal_source>>
propVars == <<m_frequency, m_symrate, m_fec, m_msys, m_plpid, m_pls_code>>
tuningVars == <<m_fe_type, secVars, propVars, m_status, sent, asked, phase>>

Nothing == [type |-> "nothing"]

(* Members and phases have their types. *)
TuningTypeOK ==
    /\ m_fe_type \in {"SAT", "CABLE", "TERRESTRIAL"}
    /\ m_tone \in {"SEC_TONE_ON", "SEC_TONE_OFF"}
    /\ m_pol \in {"h", "v"}
    /\ m_signal_source \in 1..16
    /\ m_frequency \in Nat /\ m_symrate \in Nat /\ m_fec \in 0..FEC_9_10
    /\ m_msys \in {"SYS_UNDEFINED", "first", "second"}
    /\ m_plpid \in Nat \cup {NO_STREAM_ID_FILTER}
    /\ m_pls_code \in Nat
    /\ m_status \in {"INVALID", "CHANGED", "STABLE"}
    /\ phase \in {"sec", "properties", "done"}

(* The kernel's view: DTV_CLEAR forgets the properties. *)
NoProperties == [freq |-> -1, sr |-> 0, fec |-> FEC_AUTO, msys |-> "SYS_UNDEFINED",
                 plp |-> 0, pls |-> 0]
NoSec        == [tone |-> "SEC_TONE_OFF", pol |-> "h", src |-> 1]

TuningInit ==
    /\ m_fe_type \in {"SAT", "CABLE", "TERRESTRIAL"}
    /\ m_tone = "SEC_TONE_OFF" /\ m_pol = "h" /\ m_signal_source = 1
    /\ m_frequency = 0 /\ m_symrate = 0 /\ m_fec = FEC_AUTO /\ m_msys = "SYS_UNDEFINED"
    /\ m_plpid = 0 /\ m_pls_code = 0
    /\ m_status = "INVALID"
    /\ sent = Nothing
    /\ asked = [sec |-> NoSec, prop |-> NoProperties]
    /\ phase = "sec"

-----------------------------------------------------------------------------
(***************************************************************************)
(* Tone, voltage and switches.  external: an application sets up the LNB   *)
(* before it sends the properties of a tuning, not between them.           *)
(***************************************************************************)

SecMessage == phase # "properties" /\ phase' = "sec"

(* MSG_SET_TONE *)
SetTone(tone) ==
    /\ SecMessage
    /\ m_tone' = tone
    /\ asked' = [asked EXCEPT !.sec.tone = tone]
    /\ UNCHANGED <<m_fe_type, m_pol, m_signal_source, propVars, m_status, sent>>

(* MSG_SET_VOLTAGE, 13 V or 18 V *)
SetVoltage(pol) ==
    /\ SecMessage
    /\ m_pol' = pol
    /\ asked' = [asked EXCEPT !.sec.pol = pol]
    /\ UNCHANGED <<m_fe_type, m_tone, m_signal_source, propVars, m_status, sent>>

VoltageOff ==
    /\ SecMessage
    /\ m_status' = "INVALID"
    /\ UNCHANGED <<m_fe_type, secVars, propVars, sent, asked>>

Bit(byte, n) == (byte \div 2^n) % 2 = 1

(* A bit of the low nibble sets, the one above it in the high nibble       *)
(* clears; with neither the value stays.                                   *)
Switched(byte, n, on, off, old) ==
    IF Bit(byte, n) THEN on ELSE IF Bit(byte, n + 4) THEN off ELSE old

(* The position is taken from its two bits whatever the high nibble says.  *)
CommittedSwitch(byte) ==
    /\ SecMessage
    /\ m_tone' = Switched(byte, 0, "SEC_TONE_ON", "SEC_TONE_OFF", m_tone)
    /\ m_pol' = Switched(byte, 1, "h", "v", m_pol)
    /\ m_signal_source' = ((byte \div 4) % 4) + 1
    /\ asked' = [asked EXCEPT !.sec = [tone |-> m_tone', pol |-> m_pol', src |-> m_signal_source']]
    /\ UNCHANGED <<m_fe_type, propVars, m_status, sent>>

UncommittedSwitch(byte) ==
    /\ SecMessage
    /\ m_signal_source' = (byte % 16) + 1
    /\ asked' = [asked EXCEPT !.sec.src = m_signal_source']
    /\ UNCHANGED <<m_fe_type, m_tone, m_pol, propVars, m_status, sent>>

(* MSG_SEND_DISEQC_BURST: position 1 for SEC_MINI_A, 2 for SEC_MINI_B. *)
SendBurst(position) ==
    /\ SecMessage
    /\ m_signal_source' = position
    /\ asked' = [asked EXCEPT !.sec.src = position]
    /\ UNCHANGED <<m_fe_type, m_tone, m_pol, propVars, m_status, sent>>

-----------------------------------------------------------------------------
(***************************************************************************)
(* MSG_SET_PROPERTY                                                        *)
(***************************************************************************)

(* Mutant: the stream id of the transponder before stays. *)
ClearProperty_KeepsPlp ==
    /\ phase' = "properties"
    /\ m_frequency' = 0 /\ m_symrate' = 0 /\ m_fec' = FEC_AUTO /\ m_msys' = "SYS_UNDEFINED"
    /\ m_pls_code' = 0
    /\ asked' = [asked EXCEPT !.prop = NoProperties]
    /\ UNCHANGED <<m_fe_type, secVars, m_plpid, m_status, sent>>

(* DTV_CLEAR; m_status and m_tone stay.  The pids are in SatipConfig. *)
ClearProperty ==
    /\ phase' = "properties"
    /\ m_frequency' = 0 /\ m_symrate' = 0 /\ m_fec' = FEC_AUTO /\ m_msys' = "SYS_UNDEFINED"
    /\ m_plpid' = 0 /\ m_pls_code' = 0
    /\ asked' = [asked EXCEPT !.prop = NoProperties]
    /\ UNCHANGED <<m_fe_type, secVars, m_status, sent>>

(* In units of 100 kHz. *)
FrequencyOf(data) ==
    IF m_fe_type # "SAT" THEN data \div 100000
    ELSE data \div 100 + (IF m_tone = "SEC_TONE_ON" THEN 106000 ELSE 97500)

Property(name, value) ==
    /\ phase = "properties"
    /\ asked' = [asked EXCEPT !.prop[name] = value]
    /\ UNCHANGED <<m_fe_type, secVars, m_status, sent, phase>>

SetFrequency(data) ==
    /\ Property("freq", data)
    /\ m_frequency' = FrequencyOf(data)
    /\ UNCHANGED <<m_symrate, m_fec, m_msys, m_plpid, m_pls_code>>

SetSymrate(data) ==
    /\ Property("sr", data)
    /\ m_symrate' = data \div 1000
    /\ UNCHANGED <<m_frequency, m_fec, m_msys, m_plpid, m_pls_code>>

(* DTV_INNER_FEC; a value the code does not know is refused. *)
FecOf(data)    == data % 32
FecKnown(data) == FecOf(data) <= FEC_9_10
SetFec(data) ==
    /\ Property("fec", IF FecKnown(data) THEN FecOf(data) ELSE asked.prop.fec)
    /\ m_fec' = IF FecKnown(data) THEN FecOf(data) ELSE m_fec
    /\ UNCHANGED <<m_frequency, m_symrate, m_msys, m_plpid, m_pls_code>>

(* DTV_CODE_RATE_LP, DTV_CODE_RATE_HP: the rates are left to the server. *)
SetCodeRate ==
    /\ Property("fec", FEC_AUTO)
    /\ m_fec' = FEC_AUTO
    /\ UNCHANGED <<m_frequency, m_symrate, m_msys, m_plpid, m_pls_code>>

(* "first" is DVB-S, -C or -T, "second" is DVB-S2 or -T2. *)
SetModsys(system) ==
    /\ Property("msys", system)
    /\ m_msys' = system
    /\ UNCHANGED <<m_frequency, m_symrate, m_fec, m_plpid, m_pls_code>>

SetPLP(data) ==
    /\ Property("plp", data)
    /\ m_plpid' = data
    /\ UNCHANGED <<m_frequency, m_symrate, m_fec, m_msys, m_pls_code>>

SetPLScode(data) ==
    /\ Property("pls", data)
    /\ m_pls_code' = data
    /\ UNCHANGED <<m_frequency, m_symrate, m_fec, m_msys, m_plpid>>

(* DTV_TUNE *)
SetChannelChanged ==
    /\ phase = "properties" /\ phase' = "done"
    /\ m_status' = "CHANGED"
    /\ UNCHANGED <<m_fe_type, secVars, propVars, sent, asked>>

SetProperty ==
    \/ ClearProperty
    \/ \E data \in Frequencies : SetFrequency(data)
    \/ \E data \in SymbolRates : SetSymrate(data)
    \/ \E data \in InnerFecs : SetFec(data)
    \/ SetCodeRate
    \/ \E system \in {"first", "second"} : SetModsys(system)
    \/ \E data \in StreamIds : SetPLP(data)
    \/ \E data \in PlsCodes : SetPLScode(data)
    \/ SetChannelChanged

VtunerEvent ==
    \/ \E tone \in {"SEC_TONE_ON", "SEC_TONE_OFF"} : SetTone(tone)
    \/ \E pol \in {"h", "v"} : SetVoltage(pol)
    \/ VoltageOff
    \/ \E byte \in Switches : CommittedSwitch(byte) \/ UncommittedSwitch(byte)
    \/ \E position \in {1, 2} : SendBurst(position)
    \/ SetProperty

-----------------------------------------------------------------------------
(***************************************************************************)
(* getTuningData, and the two ways m_status changes without the kernel     *)
(***************************************************************************)

Absent == -1

(* The gold code of a root code: how many shifts of an 18 bit register     *)
(* lead from 1 to it.                                                      *)
Shift(x) == ((x + x \div 2^7) % 2) * 2^17 + x \div 2
pls_root2gold(root) ==
    LET gold[g \in 0..2^18 - 1, x \in 0..2^18 - 1] ==
            IF g = 2^18 - 1 \/ root = x THEN g ELSE gold[g + 1, Shift(x)]
    IN  gold[0, 1]

(* The old format holds id, mode and code in one number. *)
Isi(plp)        == IF plp > 0 THEN plp % 256 ELSE Absent
PackedMode(plp) == (plp \div 2^26) % 4
PackedCode(plp) == (plp \div 2^8) % 2^18
Plsc(plp, pls) ==
    LET code == IF plp <= 255 THEN pls
                ELSE IF PackedMode(plp) = 0 THEN pls_root2gold(PackedCode(plp))
                ELSE PackedCode(plp)
    IN  IF code > 0 THEN code ELSE Absent

(* A code rate the protocol has no name for is left out of the request. *)
SatFec(fec)         == IF fec \in {1, 2, 3, 4, 5, 7, 8, 10, FEC_9_10} THEN fec ELSE Absent
TerrestrialFec(fec) == IF fec \in {1, 2, 3, 4, 5, 7, 10} THEN fec ELSE Absent

Sat(freq, sr, fec, msys, plp, pls, sec) ==
    LET s2 == msys = "second"
    IN  [type |-> "SAT", src |-> sec.src, pol |-> sec.pol, freq |-> freq, sr |-> sr,
         fec |-> SatFec(fec), s2 |-> s2,
         isi |-> IF s2 THEN Isi(plp) ELSE Absent, plsc |-> IF s2 THEN Plsc(plp, pls) ELSE Absent]

Cable(freq, sr) == [type |-> "CABLE", freq |-> freq, sr |-> sr]

(* After DTV_CLEAR the stream id is 0, and DVB-T2 is asked for with it. *)
Terrestrial(freq, fec, msys, plp) ==
    LET t2 == msys = "second"
    IN  [type |-> "TERRESTRIAL", freq |-> freq, fec |-> TerrestrialFec(fec), t2 |-> t2,
         plp |-> IF t2 /\ plp # NO_STREAM_ID_FILTER THEN plp ELSE Absent]

GetTuningData ==
    CASE m_fe_type = "SAT" ->
             Sat(m_frequency, m_symrate, m_fec, m_msys, m_plpid, m_pls_code,
                 [src |-> m_signal_source, pol |-> m_pol])
      [] m_fe_type = "CABLE" -> Cable(m_frequency, m_symrate)
      [] m_fe_type = "TERRESTRIAL" -> Terrestrial(m_frequency, m_fec, m_msys, m_plpid)

(* getSetupData or getPlayData *)
Request ==
    /\ m_status = "CHANGED"
    /\ m_status' = "STABLE"
    /\ sent' = GetTuningData
    /\ UNCHANGED <<m_fe_type, secVars, propVars, asked, phase>>

(* The connection was lost. *)
SetChannelRetry ==
    /\ m_status = "STABLE"
    /\ m_status' = "CHANGED"
    /\ UNCHANGED <<m_fe_type, secVars, propVars, sent, asked, phase>>

TuningNext == VtunerEvent \/ Request \/ SetChannelRetry

TuningSpec == TuningInit /\ [][TuningNext]_tuningVars

-----------------------------------------------------------------------------
(* The tuning the kernel asked for: its own values, converted as one set,  *)
(* the frequency in kHz with the local oscillator of the band.             *)
WholeFrequency(hz) == IF hz = Absent THEN 0 ELSE hz \div 100000
OscillatorKHz(tone) == IF tone = "SEC_TONE_ON" THEN 10600000 ELSE 9750000
Asked ==
    LET p == asked.prop
    IN  CASE m_fe_type = "SAT" ->
             Sat(IF p.freq = Absent THEN 0 ELSE (p.freq + OscillatorKHz(asked.sec.tone)) \div 100,
                 p.sr \div 1000, p.fec, p.msys, p.plp, p.pls, asked.sec)
          [] m_fe_type = "CABLE" -> Cable(WholeFrequency(p.freq), p.sr \div 1000)
          [] m_fe_type = "TERRESTRIAL" -> Terrestrial(WholeFrequency(p.freq), p.fec, p.msys, p.plp)

(* While the kernel has not begun another tuning a settled channel is      *)
(* exactly the one it asked for: no value of an earlier transponder, of a  *)
(* set that was sent half written or of another band is in the request,    *)
(* whenever requests and retries came in between its messages.             *)
SettledAsAsked ==
    (phase = "done" /\ m_status = "STABLE") => sent = Asked
=============================================================================
