----------------------------- MODULE FansTypes ------------------------------
(***************************************************************************)
(* The types of a FANS-1/A CPDLC message, generated code of asn1/: one     *)
(* file of it and one definition for each, here those of numbers and       *)
(* characters, in FansMessages the others.  What the codecs go by is       *)
(* kept: of a number its bits and bounds, of an enumeration and a choice   *)
(* the bits and how many there are, of a string and a sequence of others   *)
(* the bits and the bounds of the size, of a sequence which members may    *)
(* be left out.  Tags, which only the other encoding rules use, and names  *)
(* of members are not.  Sequence and Choice stand for the codecs           *)
(* themselves, a type that is another one for its inherit_TYPE_descriptor. *)
(***************************************************************************)
EXTENDS AsnTypes

(***************************************************************************)
(* Integers.                                                               *)
(***************************************************************************)
FANSAltimeterEnglish == NativeInteger(10, 2200, 3200)

FANSAltimeterMetric == NativeInteger(13, 7500, 12500)

FANSAltitudeFlightLevel == NativeInteger(10, 30, 600)

FANSAltitudeFlightLevelMetric == NativeInteger(11, 100, 2000)

FANSAltitudeGNSSFeet == NativeInteger(18, 0, 150000)

FANSAltitudeGNSSMeters == NativeInteger(16, 0, 50000)

FANSAltitudeQFE == NativeInteger(12, 0, 2100)

FANSAltitudeQFEMeters == NativeInteger(13, 0, 7000)

FANSAltitudeQNH == NativeInteger(12, 0, 2500)

FANSAltitudeQNHMeters == NativeInteger(14, 0, 16000)

FANSBeaconCodeOctalDigit == NativeInteger(3, 0, 7)

FANSDegreeIncrement == NativeInteger(5, 1, 20)

FANSDegreesMagnetic == NativeInteger(9, 1, 360)

FANSDegreesTrue == NativeInteger(9, 1, 360)

FANSDistanceKm == NativeInteger(10, 1, 1024)

FANSDistanceNm == NativeInteger(14, 0, 9999)

FANSDistanceOffsetKm == NativeInteger(8, 1, 256)

FANSDistanceOffsetNm == NativeInteger(7, 1, 128)

FANSFrequencyhf == NativeInteger(15, 2850, 28000)

FANSFrequencyuhf == NativeInteger(18, 225000, 399975)

FANSFrequencyvhf == NativeInteger(15, 117000, 138000)

FANSLatitudeDegrees == NativeInteger(7, 0, 90)

FANSLegDistanceEnglish == NativeInteger(10, 1, 999)

FANSLegDistanceMetric == NativeInteger(7, 1, 128)

FANSLegTime == NativeInteger(7, 1, 99)

FANSLongitudeDegrees == NativeInteger(8, 0, 180)

FANSMinutesLatLon == NativeInteger(10, 0, 599)

FANSMsgIdentificationNumber == NativeInteger(6, 0, 63)

FANSMsgReferenceNumber == NativeInteger(6, 0, 63)

FANSPDCrevision == NativeInteger(4, 1, 16)

FANSRTATolerance == NativeInteger(8, 1, 150)

FANSRemainingSouls == NativeInteger(10, 1, 1024)

FANSRunwayDirection == NativeInteger(6, 1, 36)

FANSSpeedGround == NativeInteger(6, 7, 70)

FANSSpeedGroundMetric == NativeInteger(8, 10, 265)

FANSSpeedIndicated == NativeInteger(5, 7, 38)

FANSSpeedIndicatedMetric == NativeInteger(7, 10, 137)

FANSSpeedMach == NativeInteger(5, 61, 92)

FANSSpeedMachLarge == NativeInteger(9, 93, 604)

FANSSpeedTrue == NativeInteger(6, 7, 70)

FANSSpeedTrueMetric == NativeInteger(7, 10, 137)

FANSTemperatureC == NativeInteger(7, -80, 47)

FANSTemperatureF == NativeInteger(8, -105, 150)

FANSTimeSeconds == NativeInteger(6, 0, 59)

FANSTimehours == NativeInteger(5, 0, 23)

FANSTimeminutes == NativeInteger(6, 0, 59)

FANSVersionNumber == NativeInteger(4, 0, 15)

FANSVerticalRateEnglish == NativeInteger(6, 0, 60)

FANSVerticalRateMetric == NativeInteger(8, 0, 200)

FANSWindDirection == NativeInteger(9, 1, 360)

FANSWindSpeedEnglish == NativeInteger(8, 0, 255)

FANSWindSpeedMetric == NativeInteger(9, 0, 511)

(***************************************************************************)
(* Enumerations and truth values.                                          *)
(***************************************************************************)
FANSATWAltitudeTolerance == NativeEnumerated(2, 3)

FANSATWDistanceTolerance == NativeEnumerated(1, 2)

FANSCOMNAVApproachEquipmentAvailable == Boolean

FANSCOMNAVEquipmentStatus == NativeEnumerated(4, 16)

FANSDirection == NativeEnumerated(4, 11)

FANSErrorInformation == NativeEnumerated(5, 17)

FANSICAOFacilityFunction == NativeEnumerated(3, 8)

FANSIcing == NativeEnumerated(2, 4)

FANSLatitudeDirection == NativeEnumerated(1, 2)

FANSLongitudeDirection == NativeEnumerated(1, 2)

FANSProcedureType == NativeEnumerated(2, 3)

FANSRunwayConfiguration == NativeEnumerated(2, 4)

FANSSSREquipmentAvailable == NativeEnumerated(3, 7)

FANSTimeTolerance == NativeEnumerated(2, 3)

FANSToFrom == NativeEnumerated(1, 2)

FANSTp4table == NativeEnumerated(1, 2)

FANSTurbulence == NativeEnumerated(2, 3)

FANSVerticalDirection == NativeEnumerated(1, 2)

(***************************************************************************)
(* Strings.                                                                *)
(***************************************************************************)
FANSATISCode == IA5String(0, 1, 1)

FANSAircraftFlightIdentification == IA5String(3, 2, 7)

FANSAircraftType == IA5String(2, 2, 5)

FANSAirport == IA5String(0, 4, 4)

FANSAirwayIdentifier == IA5String(3, 1, 5)

FANSAirwayIntercept == IA5String(3, 1, 5)

FANSFixName == IA5String(3, 1, 5)

FANSFreeText == IA5String(8, 1, 256)

FANSFrequencysatchannel == NumericString(0, 12, 12)

FANSICAOFacilityName == IA5String(4, 3, 18)

FANSICAOfacilityDesignation == IA5String(0, 4, 4)

FANSNavaid == IA5String(2, 1, 4)

FANSProcedure == IA5String(3, 1, 6)

FANSProcedureTransition == IA5String(3, 1, 5)

FANSTrackName == IA5String(2, 3, 6)
=============================================================================
