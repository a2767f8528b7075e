---------------------------- MODULE FansMessages ----------------------------
(***************************************************************************)
(* The types of CPDLC that are made of others, up to the messages.         *)
(***************************************************************************)
EXTENDS FansTypes

FANSAirportDeparture == FANSAirport

FANSAirportDestination == FANSAirport

FANSAltimeter == Choice(1, <<"FANSAltimeterEnglish", "FANSAltimeterMetric">>)

FANSAltitude ==
    Choice(3, <<
        "FANSAltitudeQNH", "FANSAltitudeQNHMeters", "FANSAltitudeQFE", "FANSAltitudeQFEMeters",
        "FANSAltitudeGNSSFeet", "FANSAltitudeGNSSMeters", "FANSAltitudeFlightLevel",
        "FANSAltitudeFlightLevelMetric">>)

FANSBeaconCode == SequenceOf(0, 4, 4, "FANSBeaconCodeOctalDigit")

FANSCOMNAVEquipmentStatusSequence == SequenceOf(4, 1, 16, "FANSCOMNAVEquipmentStatus")

FANSDegrees == Choice(1, <<"FANSDegreesMagnetic", "FANSDegreesTrue">>)

FANSDistance == Choice(1, <<"FANSDistanceNm", "FANSDistanceKm">>)

FANSDistanceOffset == Choice(1, <<"FANSDistanceOffsetNm", "FANSDistanceOffsetKm">>)

FANSFrequency ==
    Choice(2, <<
        "FANSFrequencyhf", "FANSFrequencyvhf", "FANSFrequencyuhf", "FANSFrequencysatchannel">>)

FANSFrequencyDeparture == FANSFrequencyvhf

FANSICAOFacilityDesignationTp4Table ==
    Sequence(<<
        "FANSICAOfacilityDesignation", "FANSTp4table">>, {})

FANSICAOFacilityIdentification ==
    Choice(1, <<
        "FANSICAOfacilityDesignation", "FANSICAOFacilityName">>)

FANSLatitude ==
    Sequence(<<
        "FANSLatitudeDegrees", "FANSMinutesLatLon", "FANSLatitudeDirection">>, {2})

FANSLatitudeReportingPoints == Sequence(<<"FANSLatitudeDirection", "FANSLatitudeDegrees">>, {})

FANSLegDistance == Choice(1, <<"FANSLegDistanceEnglish", "FANSLegDistanceMetric">>)

FANSLongitude ==
    Sequence(<<
        "FANSLongitudeDegrees", "FANSMinutesLatLon", "FANSLongitudeDirection">>, {2})

FANSLongitudeReportingPoints ==
    Sequence(<<
        "FANSLongitudeDirection", "FANSLongitudeDegrees">>, {})

FANSProcedureName ==
    Sequence(<<
        "FANSProcedureType", "FANSProcedure", "FANSProcedureTransition">>, {3})

FANSRemainingFuel == Sequence(<<"FANSTimehours", "FANSTimeminutes">>, {})

FANSRunway == Sequence(<<"FANSRunwayDirection", "FANSRunwayConfiguration">>, {})

FANSSpeed ==
    Choice(3, <<
        "FANSSpeedIndicated", "FANSSpeedIndicatedMetric", "FANSSpeedTrue",
        "FANSSpeedTrueMetric", "FANSSpeedGround", "FANSSpeedGroundMetric", "FANSSpeedMach",
        "FANSSpeedMachLarge">>)

FANSSupplementaryInformation == FANSFreeText

FANSTemperature == Choice(1, <<"FANSTemperatureC", "FANSTemperatureF">>)

FANSTime == Sequence(<<"FANSTimehours", "FANSTimeminutes">>, {})

FANSTimestamp == Sequence(<<"FANSTimehours", "FANSTimeminutes", "FANSTimeSeconds">>, {})

FANSVerticalRate == Choice(1, <<"FANSVerticalRateEnglish", "FANSVerticalRateMetric">>)

FANSWindSpeed == Choice(1, <<"FANSWindSpeedEnglish", "FANSWindSpeedMetric">>)

FANSATCMessageHeader ==
    Sequence(<<
        "FANSMsgIdentificationNumber", "FANSMsgReferenceNumber", "FANSTimestamp">>, {2, 3})

FANSATWAltitude == Sequence(<<"FANSATWAltitudeTolerance", "FANSAltitude">>, {})

FANSATWDistance == Sequence(<<"FANSATWDistanceTolerance", "FANSDistance">>, {})

FANSAircraftEquipmentCode ==
    Sequence(<<
        "FANSCOMNAVApproachEquipmentAvailable", "FANSCOMNAVEquipmentStatusSequence",
        "FANSSSREquipmentAvailable">>, {2})

FANSAltitudeAltitude == SequenceOf(0, 2, 2, "FANSAltitude")

FANSAltitudeRestriction == FANSAltitude

FANSAltitudeSpeed == Sequence(<<"FANSAltitude", "FANSSpeed">>, {})

FANSAltitudeTime == Sequence(<<"FANSAltitude", "FANSTime">>, {})

FANSDirectionDegrees == Sequence(<<"FANSDirection", "FANSDegrees">>, {})

FANSDistanceOffsetDirection == Sequence(<<"FANSDistanceOffset", "FANSDirection">>, {})

FANSEFCtime == FANSTime

FANSHoldatwaypointSpeedHigh == FANSSpeed

FANSHoldatwaypointSpeedLow == FANSSpeed

FANSICAOUnitName ==
    Sequence(<<
        "FANSICAOFacilityIdentification", "FANSICAOFacilityFunction">>, {})

FANSLatLonReportingPoints ==
    Choice(1, <<
        "FANSLatitudeReportingPoints", "FANSLongitudeReportingPoints">>)

FANSLatitudeLongitude == Sequence(<<"FANSLatitude", "FANSLongitude">>, {})

FANSLegType == Choice(1, <<"FANSLegDistance", "FANSLegTime">>)

FANSProcedureApproach == FANSProcedureName

FANSProcedureArrival == FANSProcedureName

FANSProcedureDeparture == FANSProcedureName

FANSRTATime == Sequence(<<"FANSTime", "FANSTimeTolerance">>, {})

FANSRemainingFuelRemainingSouls == Sequence(<<"FANSRemainingFuel", "FANSRemainingSouls">>, {})

FANSReportedWaypointAltitude == FANSAltitude

FANSReportedWaypointTime == FANSTime

FANSRunwayArrival == FANSRunway

FANSRunwayDeparture == FANSRunway

FANSSpeedSpeed == SequenceOf(0, 2, 2, "FANSSpeed")

FANSTimeAltitude == Sequence(<<"FANSTime", "FANSAltitude">>, {})

FANSTimeAtPositionCurrent == FANSTime

FANSTimeDepartureEdct == FANSTime

FANSTimeDistanceOffsetDirection ==
    Sequence(<<
        "FANSTime", "FANSDistanceOffset", "FANSDirection">>, {})

FANSTimeEtaAtFixNext == FANSTime

FANSTimeEtaDestination == FANSTime

FANSTimeSpeed == Sequence(<<"FANSTime", "FANSSpeed">>, {})

FANSTimeTime == SequenceOf(0, 2, 2, "FANSTime")

FANSTrackAngle == FANSDegrees

FANSTrueheading == FANSDegrees

FANSVerticalChange == Sequence(<<"FANSVerticalDirection", "FANSVerticalRate">>, {})

FANSWinds == Sequence(<<"FANSWindDirection", "FANSWindSpeed">>, {})

FANSATWAltitudeSequence == SequenceOf(1, 1, 2, "FANSATWAltitude")

FANSAltitudeSpeedSpeed == Sequence(<<"FANSAltitude", "FANSSpeedSpeed">>, {})

FANSICAOUnitNameFrequency == Sequence(<<"FANSICAOUnitName", "FANSFrequency">>, {})

FANSLatitudeLongitudeSequence == SequenceOf(7, 1, 128, "FANSLatitudeLongitude")

FANSPlaceBearing == Sequence(<<"FANSFixName", "FANSLatitudeLongitude", "FANSDegrees">>, {2})

FANSPlaceBearingDistance ==
    Sequence(<<
        "FANSFixName", "FANSLatitudeLongitude", "FANSDegrees", "FANSDistance">>, {2})

FANSPublishedIdentifier == Sequence(<<"FANSFixName", "FANSLatitudeLongitude">>, {2})

FANSReportingPoints == Sequence(<<"FANSLatLonReportingPoints", "FANSDegreeIncrement">>, {2})

FANSTimeICAOunitnameFrequency ==
    Sequence(<<
        "FANSTime", "FANSICAOUnitName", "FANSFrequency">>, {})

FANSTimeSpeedSpeed == Sequence(<<"FANSTime", "FANSSpeedSpeed">>, {})

FANSPlaceBearingPlaceBearing == SequenceOf(0, 2, 2, "FANSPlaceBearing")

FANSPosition ==
    Choice(3, <<
        "FANSFixName", "FANSNavaid", "FANSAirport", "FANSLatitudeLongitude",
        "FANSPlaceBearingDistance">>)

FANSTrackDetail == Sequence(<<"FANSTrackName", "FANSLatitudeLongitudeSequence">>, {})

FANSATWAlongTrackWaypoint ==
    Sequence(<<
        "FANSPosition", "FANSATWDistance", "FANSSpeed", "FANSATWAltitudeSequence">>, {3, 4})

FANSAltitudePosition == Sequence(<<"FANSAltitude", "FANSPosition">>, {})

FANSFixNext == FANSPosition

FANSFixNextPlusOne == FANSPosition

FANSHoldClearance ==
    Sequence(<<
        "FANSPosition", "FANSAltitude", "FANSDegrees", "FANSDirection", "FANSLegType">>, {5})

FANSHoldatwaypoint ==
    Sequence(<<
        "FANSPosition", "FANSHoldatwaypointSpeedLow", "FANSATWAltitude",
        "FANSHoldatwaypointSpeedHigh", "FANSDirection", "FANSDegrees", "FANSEFCtime",
        "FANSLegType">>, {2, 3, 4, 5, 6, 7, 8})

FANSInterceptCourseFromSelection ==
    Choice(2, <<
        "FANSPublishedIdentifier", "FANSLatitudeLongitude", "FANSPlaceBearingPlaceBearing",
        "FANSPlaceBearingDistance">>)

FANSPositionAltitude == Sequence(<<"FANSPosition", "FANSAltitude">>, {})

FANSPositionAltitudeAltitude == Sequence(<<"FANSPosition", "FANSAltitudeAltitude">>, {})

FANSPositionAltitudeSpeed == Sequence(<<"FANSPosition", "FANSAltitude", "FANSSpeed">>, {})

FANSPositionCurrent == FANSPosition

FANSPositionDegrees == Sequence(<<"FANSPosition", "FANSDegrees">>, {})

FANSPositionDistanceOffsetDirection ==
    Sequence(<<
        "FANSPosition", "FANSDistanceOffset", "FANSDirection">>, {})

FANSPositionICAOUnitNameFrequency ==
    Sequence(<<
        "FANSPosition", "FANSICAOUnitName", "FANSFrequency">>, {})

FANSPositionPosition == SequenceOf(0, 2, 2, "FANSPosition")

FANSPositionProcedureName == Sequence(<<"FANSPosition", "FANSProcedureName">>, {})

FANSPositionSpeed == Sequence(<<"FANSPosition", "FANSSpeed">>, {})

FANSPositionSpeedSpeed == Sequence(<<"FANSPosition", "FANSSpeedSpeed">>, {})

FANSPositionTime == Sequence(<<"FANSPosition", "FANSTime">>, {})

FANSPositionTimeAltitude == Sequence(<<"FANSPosition", "FANSTime", "FANSAltitude">>, {})

FANSPositionTimeTime == Sequence(<<"FANSPosition", "FANSTimeTime">>, {})

FANSRTARequiredTimeArrival ==
    Sequence(<<
        "FANSPosition", "FANSRTATime", "FANSRTATolerance">>, {3})

FANSReportedWaypointPosition == FANSPosition

FANSRouteInformation ==
    Choice(3, <<
        "FANSPublishedIdentifier", "FANSLatitudeLongitude", "FANSPlaceBearingPlaceBearing",
        "FANSPlaceBearingDistance", "FANSAirwayIdentifier", "FANSTrackDetail">>)

FANSTimeDistanceToFromPosition ==
    Sequence(<<
        "FANSTime", "FANSDistance", "FANSToFrom", "FANSPosition">>, {})

FANSTimePosition == Sequence(<<"FANSTime", "FANSPosition">>, {})

FANSTimePositionAltitude == Sequence(<<"FANSTime", "FANSPosition", "FANSAltitude">>, {})

FANSTimePositionAltitudeSpeed ==
    Sequence(<<
        "FANSTime", "FANSPosition", "FANSAltitude", "FANSSpeed">>, {})

FANSToFromPosition == Sequence(<<"FANSToFrom", "FANSPosition">>, {})

FANSWaypointSpeedAltitude ==
    Sequence(<<
        "FANSPosition", "FANSSpeed", "FANSATWAltitudeSequence">>, {2, 3})

FANSATWAlongTrackWaypointSequence == SequenceOf(3, 1, 8, "FANSATWAlongTrackWaypoint")

FANSHoldatwaypointSequence == SequenceOf(3, 1, 8, "FANSHoldatwaypoint")

FANSInterceptCourseFrom == Sequence(<<"FANSInterceptCourseFromSelection", "FANSDegrees">>, {})

FANSPositionReport ==
    Sequence(<<
        "FANSPositionCurrent", "FANSTimeAtPositionCurrent", "FANSAltitude", "FANSFixNext",
        "FANSTimeEtaAtFixNext", "FANSFixNextPlusOne", "FANSTimeEtaDestination",
        "FANSRemainingFuel", "FANSTemperature", "FANSWinds", "FANSTurbulence", "FANSIcing",
        "FANSSpeed", "FANSSpeedGround", "FANSVerticalChange", "FANSTrackAngle",
        "FANSTrueheading", "FANSDistance", "FANSSupplementaryInformation",
        "FANSReportedWaypointPosition", "FANSReportedWaypointTime",
        "FANSReportedWaypointAltitude">>, {4, 5, 6, 7, 8, 9, 10, 11, 12, 13, 14, 15, 16, 17, 18, 19, 20, 21, 22})

FANSRTARequiredTimeArrivalSequence == SequenceOf(5, 1, 32, "FANSRTARequiredTimeArrival")

FANSRouteInformationSequence == SequenceOf(7, 1, 128, "FANSRouteInformation")

FANSWaypointSpeedAltitudesequence == SequenceOf(5, 1, 32, "FANSWaypointSpeedAltitude")

FANSInterceptCourseFromSequence == SequenceOf(2, 1, 4, "FANSInterceptCourseFrom")

FANSRouteInformationAdditional ==
    Sequence(<<
        "FANSATWAlongTrackWaypointSequence", "FANSReportingPoints",
        "FANSInterceptCourseFromSequence", "FANSHoldatwaypointSequence",
        "FANSWaypointSpeedAltitudesequence",
        "FANSRTARequiredTimeArrivalSequence">>, {1, 2, 3, 4, 5, 6})

FANSRouteClearance ==
    Sequence(<<
        "FANSAirportDeparture", "FANSAirportDestination", "FANSRunwayDeparture",
        "FANSProcedureDeparture", "FANSRunwayArrival", "FANSProcedureApproach",
        "FANSProcedureArrival", "FANSAirwayIntercept", "FANSRouteInformationSequence",
        "FANSRouteInformationAdditional">>, {1, 2, 3, 4, 5, 6, 7, 8, 9, 10})

FANSPositionRouteClearance == Sequence(<<"FANSPosition", "FANSRouteClearance">>, {})

FANSPredepartureClearance ==
    Sequence(<<
        "FANSAircraftFlightIdentification", "FANSAircraftType", "FANSAircraftEquipmentCode",
        "FANSTimeDepartureEdct", "FANSRouteClearance", "FANSAltitudeRestriction",
        "FANSFrequencyDeparture", "FANSBeaconCode", "FANSPDCrevision">>, {2, 3, 6})

FANSATCDownlinkMsgElementId ==
    Choice(8, <<
        "NULL", "NULL", "NULL", "NULL", "NULL", "NULL", "FANSAltitude", "FANSAltitudeAltitude",
        "FANSAltitude", "FANSAltitude", "FANSAltitude", "FANSPositionAltitude",
        "FANSPositionAltitude", "FANSTimeAltitude", "FANSTimeAltitude",
        "FANSDistanceOffsetDirection", "FANSPositionDistanceOffsetDirection",
        "FANSTimeDistanceOffsetDirection", "FANSSpeed", "FANSSpeedSpeed", "NULL",
        "FANSFrequency", "FANSPosition", "FANSProcedureName", "FANSRouteClearance", "NULL",
        "FANSPositionRouteClearance", "FANSDistanceOffsetDirection", "FANSAltitude",
        "FANSAltitude", "FANSAltitude", "FANSPosition", "FANSAltitude", "FANSPosition",
        "FANSSpeed", "FANSDegrees", "FANSDegrees", "FANSAltitude", "FANSAltitude", "FANSSpeed",
        "FANSRouteClearance", "NULL", "FANSPosition", "FANSTime", "FANSPosition",
        "FANSPosition", "FANSTime", "FANSBeaconCode", "FANSPositionReport", "FANSSpeed",
        "FANSSpeedSpeed", "NULL", "NULL", "NULL", "FANSAltitude", "NULL", "NULL",
        "FANSRemainingFuelRemainingSouls", "NULL", "FANSPositionRouteClearance",
        "FANSDistanceOffsetDirection", "FANSAltitude", "FANSErrorInformation", "NULL",
        "FANSICAOfacilityDesignation", "NULL", "NULL", "FANSFreeText", "FANSFreeText", "NULL",
        "FANSDegrees", "FANSDegrees", "FANSAltitude", "FANSVersionNumber", "NULL", "NULL",
        "FANSAltitudeAltitude", "FANSAltitudeAltitude", "FANSTimeDistanceToFromPosition",
        "FANSATISCode", "FANSDistanceOffsetDirection", "NULL", "NULL", "NULL", "NULL", "NULL",
        "NULL", "NULL", "NULL", "NULL", "NULL", "NULL", "NULL", "NULL", "NULL", "NULL", "NULL",
        "NULL", "NULL", "NULL", "NULL", "NULL", "NULL", "NULL", "NULL", "NULL", "NULL", "NULL",
        "NULL", "NULL", "NULL", "NULL", "NULL", "NULL", "NULL", "NULL", "NULL", "NULL", "NULL",
        "NULL", "NULL", "NULL", "NULL", "NULL", "NULL", "NULL", "NULL", "NULL", "NULL">>)

FANSATCUplinkMsgElementId ==
    Choice(8, <<
        "NULL", "NULL", "NULL", "NULL", "NULL", "NULL", "FANSAltitude", "FANSTime",
        "FANSPosition", "FANSTime", "FANSPosition", "FANSTime", "FANSPosition",
        "FANSTimeAltitude", "FANSPositionAltitude", "FANSTimeAltitude", "FANSPositionAltitude",
        "FANSTimeAltitude", "FANSPositionAltitude", "FANSAltitude", "FANSAltitude",
        "FANSTimeAltitude", "FANSPositionAltitude", "FANSAltitude", "FANSTimeAltitude",
        "FANSPositionAltitude", "FANSAltitudeTime", "FANSAltitudePosition", "FANSAltitudeTime",
        "FANSAltitudePosition", "FANSAltitudeAltitude", "FANSAltitudeAltitude",
        "FANSAltitudeAltitude", "FANSAltitude", "FANSAltitude", "FANSAltitude", "FANSAltitude",
        "FANSAltitude", "FANSAltitude", "FANSAltitude", "FANSAltitude", "FANSAltitude",
        "FANSPositionAltitude", "FANSPositionAltitude", "FANSPositionAltitude",
        "FANSPositionAltitude", "FANSPositionAltitude", "FANSPositionAltitude",
        "FANSPositionAltitude", "FANSPositionAltitude", "FANSPositionAltitudeAltitude",
        "FANSPositionTime", "FANSPositionTime", "FANSPositionTime", "FANSPositionTimeTime",
        "FANSPositionSpeed", "FANSPositionSpeed", "FANSPositionSpeed",
        "FANSPositionTimeAltitude", "FANSPositionTimeAltitude", "FANSPositionTimeAltitude",
        "FANSPositionAltitudeSpeed", "FANSTimePositionAltitude",
        "FANSTimePositionAltitudeSpeed", "FANSDistanceOffsetDirection",
        "FANSPositionDistanceOffsetDirection", "FANSTimeDistanceOffsetDirection", "NULL",
        "FANSPosition", "FANSTime", "FANSPosition", "FANSTime", "NULL",
        "FANSPredepartureClearance", "FANSPosition", "FANSPosition", "FANSTimePosition",
        "FANSPositionPosition", "FANSAltitudePosition", "FANSPositionRouteClearance",
        "FANSRouteClearance", "FANSProcedureName", "FANSDistanceOffsetDirection",
        "FANSPositionRouteClearance", "FANSPositionProcedureName", "FANSRouteClearance",
        "FANSPositionRouteClearance", "FANSPosition", "FANSPositionPosition",
        "FANSTimePosition", "FANSAltitudePosition", "FANSHoldClearance",
        "FANSPositionAltitude", "FANSTime", "FANSDirectionDegrees", "FANSDirectionDegrees",
        "NULL", "FANSPositionDegrees", "FANSDirectionDegrees", "FANSProcedureName",
        "FANSTimeSpeed", "FANSPositionSpeed", "FANSAltitudeSpeed", "FANSTimeSpeedSpeed",
        "FANSPositionSpeedSpeed", "FANSAltitudeSpeedSpeed", "FANSSpeed", "NULL", "FANSSpeed",
        "FANSSpeed", "FANSSpeedSpeed", "FANSSpeed", "FANSSpeed", "FANSSpeed", "FANSSpeed",
        "FANSSpeed", "NULL", "FANSICAOUnitNameFrequency", "FANSPositionICAOUnitNameFrequency",
        "FANSTimeICAOunitnameFrequency", "FANSICAOUnitNameFrequency",
        "FANSPositionICAOUnitNameFrequency", "FANSTimeICAOunitnameFrequency", "FANSBeaconCode",
        "NULL", "NULL", "NULL", "NULL", "FANSAltitude", "FANSAltitude", "FANSPosition", "NULL",
        "NULL", "NULL", "NULL", "NULL", "NULL", "NULL", "NULL", "NULL", "NULL", "NULL", "NULL",
        "NULL", "NULL", "NULL", "NULL", "NULL", "FANSAltitude", "FANSAltitudePosition",
        "FANSAltitudeTime", "FANSSpeed", "FANSDistanceOffsetDirection", "FANSAltimeter",
        "NULL", "FANSPosition", "NULL", "FANSFrequency", "FANSATISCode",
        "FANSErrorInformation", "FANSICAOfacilityDesignation", "NULL", "NULL",
        "FANSICAOFacilityDesignationTp4Table", "NULL", "NULL", "NULL", "NULL", "NULL",
        "FANSFreeText", "FANSFreeText", "FANSVerticalRate", "FANSVerticalRate",
        "FANSVerticalRate", "FANSVerticalRate", "FANSAltitude", "NULL", "NULL", "NULL", "NULL",
        "FANSAltitudeAltitude", "FANSToFromPosition", "NULL">>)

FANSATCDownlinkMsgElementIdSequence == SequenceOf(2, 1, 4, "FANSATCDownlinkMsgElementId")

FANSATCUplinkMsgElementIdSequence == SequenceOf(2, 1, 4, "FANSATCUplinkMsgElementId")

FANSATCDownlinkMessage ==
    Sequence(<<
        "FANSATCMessageHeader", "FANSATCDownlinkMsgElementId",
        "FANSATCDownlinkMsgElementIdSequence">>, {3})

FANSATCUplinkMessage ==
    Sequence(<<
        "FANSATCMessageHeader", "FANSATCUplinkMsgElementId",
        "FANSATCUplinkMsgElementIdSequence">>, {3})

\* The descriptors by their names.
asn_DEF ==
   [FANSAltimeterEnglish |-> FANSAltimeterEnglish,
    FANSAltimeterMetric |-> FANSAltimeterMetric,
    FANSAltitudeFlightLevel |-> FANSAltitudeFlightLevel,
    FANSAltitudeFlightLevelMetric |-> FANSAltitudeFlightLevelMetric,
    FANSAltitudeGNSSFeet |-> FANSAltitudeGNSSFeet,
    FANSAltitudeGNSSMeters |-> FANSAltitudeGNSSMeters, FANSAltitudeQFE |-> FANSAltitudeQFE,
    FANSAltitudeQFEMeters |-> FANSAltitudeQFEMeters, FANSAltitudeQNH |-> FANSAltitudeQNH,
    FANSAltitudeQNHMeters |-> FANSAltitudeQNHMeters,
    FANSBeaconCodeOctalDigit |-> FANSBeaconCodeOctalDigit,
    FANSDegreeIncrement |-> FANSDegreeIncrement, FANSDegreesMagnetic |-> FANSDegreesMagnetic,
    FANSDegreesTrue |-> FANSDegreesTrue, FANSDistanceKm |-> FANSDistanceKm,
    FANSDistanceNm |-> FANSDistanceNm, FANSDistanceOffsetKm |-> FANSDistanceOffsetKm,
    FANSDistanceOffsetNm |-> FANSDistanceOffsetNm, FANSFrequencyhf |-> FANSFrequencyhf,
    FANSFrequencyuhf |-> FANSFrequencyuhf, FANSFrequencyvhf |-> FANSFrequencyvhf,
    FANSLatitudeDegrees |-> FANSLatitudeDegrees,
    FANSLegDistanceEnglish |-> FANSLegDistanceEnglish,
    FANSLegDistanceMetric |-> FANSLegDistanceMetric, FANSLegTime |-> FANSLegTime,
    FANSLongitudeDegrees |-> FANSLongitudeDegrees, FANSMinutesLatLon |-> FANSMinutesLatLon,
    FANSMsgIdentificationNumber |-> FANSMsgIdentificationNumber,
    FANSMsgReferenceNumber |-> FANSMsgReferenceNumber, FANSPDCrevision |-> FANSPDCrevision,
    FANSRTATolerance |-> FANSRTATolerance, FANSRemainingSouls |-> FANSRemainingSouls,
    FANSRunwayDirection |-> FANSRunwayDirection, FANSSpeedGround |-> FANSSpeedGround,
    FANSSpeedGroundMetric |-> FANSSpeedGroundMetric,
    FANSSpeedIndicated |-> FANSSpeedIndicated,
    FANSSpeedIndicatedMetric |-> FANSSpeedIndicatedMetric, FANSSpeedMach |-> FANSSpeedMach,
    FANSSpeedMachLarge |-> FANSSpeedMachLarge, FANSSpeedTrue |-> FANSSpeedTrue,
    FANSSpeedTrueMetric |-> FANSSpeedTrueMetric, FANSTemperatureC |-> FANSTemperatureC,
    FANSTemperatureF |-> FANSTemperatureF, FANSTimeSeconds |-> FANSTimeSeconds,
    FANSTimehours |-> FANSTimehours, FANSTimeminutes |-> FANSTimeminutes,
    FANSVersionNumber |-> FANSVersionNumber,
    FANSVerticalRateEnglish |-> FANSVerticalRateEnglish,
    FANSVerticalRateMetric |-> FANSVerticalRateMetric,
    FANSWindDirection |-> FANSWindDirection, FANSWindSpeedEnglish |-> FANSWindSpeedEnglish,
    FANSWindSpeedMetric |-> FANSWindSpeedMetric,
    FANSATWAltitudeTolerance |-> FANSATWAltitudeTolerance,
    FANSATWDistanceTolerance |-> FANSATWDistanceTolerance,
    FANSCOMNAVApproachEquipmentAvailable |-> FANSCOMNAVApproachEquipmentAvailable,
    FANSCOMNAVEquipmentStatus |-> FANSCOMNAVEquipmentStatus, FANSDirection |-> FANSDirection,
    FANSErrorInformation |-> FANSErrorInformation,
    FANSICAOFacilityFunction |-> FANSICAOFacilityFunction, FANSIcing |-> FANSIcing,
    FANSLatitudeDirection |-> FANSLatitudeDirection,
    FANSLongitudeDirection |-> FANSLongitudeDirection,
    FANSProcedureType |-> FANSProcedureType,
    FANSRunwayConfiguration |-> FANSRunwayConfiguration,
    FANSSSREquipmentAvailable |-> FANSSSREquipmentAvailable,
    FANSTimeTolerance |-> FANSTimeTolerance, FANSToFrom |-> FANSToFrom,
    FANSTp4table |-> FANSTp4table, FANSTurbulence |-> FANSTurbulence,
    FANSVerticalDirection |-> FANSVerticalDirection, FANSATISCode |-> FANSATISCode,
    FANSAircraftFlightIdentification |-> FANSAircraftFlightIdentification,
    FANSAircraftType |-> FANSAircraftType, FANSAirport |-> FANSAirport,
    FANSAirwayIdentifier |-> FANSAirwayIdentifier,
    FANSAirwayIntercept |-> FANSAirwayIntercept, FANSFixName |-> FANSFixName,
    FANSFreeText |-> FANSFreeText, FANSFrequencysatchannel |-> FANSFrequencysatchannel,
    FANSICAOFacilityName |-> FANSICAOFacilityName,
    FANSICAOfacilityDesignation |-> FANSICAOfacilityDesignation, FANSNavaid |-> FANSNavaid,
    FANSProcedure |-> FANSProcedure, FANSProcedureTransition |-> FANSProcedureTransition,
    FANSTrackName |-> FANSTrackName, FANSAirportDeparture |-> FANSAirportDeparture,
    FANSAirportDestination |-> FANSAirportDestination, FANSAltimeter |-> FANSAltimeter,
    FANSAltitude |-> FANSAltitude, FANSBeaconCode |-> FANSBeaconCode,
    FANSCOMNAVEquipmentStatusSequence |-> FANSCOMNAVEquipmentStatusSequence,
    FANSDegrees |-> FANSDegrees, FANSDistance |-> FANSDistance,
    FANSDistanceOffset |-> FANSDistanceOffset, FANSFrequency |-> FANSFrequency,
    FANSFrequencyDeparture |-> FANSFrequencyDeparture,
    FANSICAOFacilityDesignationTp4Table |-> FANSICAOFacilityDesignationTp4Table,
    FANSICAOFacilityIdentification |-> FANSICAOFacilityIdentification,
    FANSLatitude |-> FANSLatitude,
    FANSLatitudeReportingPoints |-> FANSLatitudeReportingPoints,
    FANSLegDistance |-> FANSLegDistance, FANSLongitude |-> FANSLongitude,
    FANSLongitudeReportingPoints |-> FANSLongitudeReportingPoints,
    FANSProcedureName |-> FANSProcedureName, FANSRemainingFuel |-> FANSRemainingFuel,
    FANSRunway |-> FANSRunway, FANSSpeed |-> FANSSpeed,
    FANSSupplementaryInformation |-> FANSSupplementaryInformation,
    FANSTemperature |-> FANSTemperature, FANSTime |-> FANSTime,
    FANSTimestamp |-> FANSTimestamp, FANSVerticalRate |-> FANSVerticalRate,
    FANSWindSpeed |-> FANSWindSpeed, FANSATCMessageHeader |-> FANSATCMessageHeader,
    FANSATWAltitude |-> FANSATWAltitude, FANSATWDistance |-> FANSATWDistance,
    FANSAircraftEquipmentCode |-> FANSAircraftEquipmentCode,
    FANSAltitudeAltitude |-> FANSAltitudeAltitude,
    FANSAltitudeRestriction |-> FANSAltitudeRestriction,
    FANSAltitudeSpeed |-> FANSAltitudeSpeed, FANSAltitudeTime |-> FANSAltitudeTime,
    FANSDirectionDegrees |-> FANSDirectionDegrees,
    FANSDistanceOffsetDirection |-> FANSDistanceOffsetDirection, FANSEFCtime |-> FANSEFCtime,
    FANSHoldatwaypointSpeedHigh |-> FANSHoldatwaypointSpeedHigh,
    FANSHoldatwaypointSpeedLow |-> FANSHoldatwaypointSpeedLow,
    FANSICAOUnitName |-> FANSICAOUnitName,
    FANSLatLonReportingPoints |-> FANSLatLonReportingPoints,
    FANSLatitudeLongitude |-> FANSLatitudeLongitude, FANSLegType |-> FANSLegType,
    FANSProcedureApproach |-> FANSProcedureApproach,
    FANSProcedureArrival |-> FANSProcedureArrival,
    FANSProcedureDeparture |-> FANSProcedureDeparture, FANSRTATime |-> FANSRTATime,
    FANSRemainingFuelRemainingSouls |-> FANSRemainingFuelRemainingSouls,
    FANSReportedWaypointAltitude |-> FANSReportedWaypointAltitude,
    FANSReportedWaypointTime |-> FANSReportedWaypointTime,
    FANSRunwayArrival |-> FANSRunwayArrival, FANSRunwayDeparture |-> FANSRunwayDeparture,
    FANSSpeedSpeed |-> FANSSpeedSpeed, FANSTimeAltitude |-> FANSTimeAltitude,
    FANSTimeAtPositionCurrent |-> FANSTimeAtPositionCurrent,
    FANSTimeDepartureEdct |-> FANSTimeDepartureEdct,
    FANSTimeDistanceOffsetDirection |-> FANSTimeDistanceOffsetDirection,
    FANSTimeEtaAtFixNext |-> FANSTimeEtaAtFixNext,
    FANSTimeEtaDestination |-> FANSTimeEtaDestination, FANSTimeSpeed |-> FANSTimeSpeed,
    FANSTimeTime |-> FANSTimeTime, FANSTrackAngle |-> FANSTrackAngle,
    FANSTrueheading |-> FANSTrueheading, FANSVerticalChange |-> FANSVerticalChange,
    FANSWinds |-> FANSWinds, FANSATWAltitudeSequence |-> FANSATWAltitudeSequence,
    FANSAltitudeSpeedSpeed |-> FANSAltitudeSpeedSpeed,
    FANSICAOUnitNameFrequency |-> FANSICAOUnitNameFrequency,
    FANSLatitudeLongitudeSequence |-> FANSLatitudeLongitudeSequence,
    FANSPlaceBearing |-> FANSPlaceBearing,
    FANSPlaceBearingDistance |-> FANSPlaceBearingDistance,
    FANSPublishedIdentifier |-> FANSPublishedIdentifier,
    FANSReportingPoints |-> FANSReportingPoints,
    FANSTimeICAOunitnameFrequency |-> FANSTimeICAOunitnameFrequency,
    FANSTimeSpeedSpeed |-> FANSTimeSpeedSpeed,
    FANSPlaceBearingPlaceBearing |-> FANSPlaceBearingPlaceBearing,
    FANSPosition |-> FANSPosition, FANSTrackDetail |-> FANSTrackDetail,
    FANSATWAlongTrackWaypoint |-> FANSATWAlongTrackWaypoint,
    FANSAltitudePosition |-> FANSAltitudePosition, FANSFixNext |-> FANSFixNext,
    FANSFixNextPlusOne |-> FANSFixNextPlusOne, FANSHoldClearance |-> FANSHoldClearance,
    FANSHoldatwaypoint |-> FANSHoldatwaypoint,
    FANSInterceptCourseFromSelection |-> FANSInterceptCourseFromSelection,
    FANSPositionAltitude |-> FANSPositionAltitude,
    FANSPositionAltitudeAltitude |-> FANSPositionAltitudeAltitude,
    FANSPositionAltitudeSpeed |-> FANSPositionAltitudeSpeed,
    FANSPositionCurrent |-> FANSPositionCurrent, FANSPositionDegrees |-> FANSPositionDegrees,
    FANSPositionDistanceOffsetDirection |-> FANSPositionDistanceOffsetDirection,
    FANSPositionICAOUnitNameFrequency |-> FANSPositionICAOUnitNameFrequency,
    FANSPositionPosition |-> FANSPositionPosition,
    FANSPositionProcedureName |-> FANSPositionProcedureName,
    FANSPositionSpeed |-> FANSPositionSpeed,
    FANSPositionSpeedSpeed |-> FANSPositionSpeedSpeed, FANSPositionTime |-> FANSPositionTime,
    FANSPositionTimeAltitude |-> FANSPositionTimeAltitude,
    FANSPositionTimeTime |-> FANSPositionTimeTime,
    FANSRTARequiredTimeArrival |-> FANSRTARequiredTimeArrival,
    FANSReportedWaypointPosition |-> FANSReportedWaypointPosition,
    FANSRouteInformation |-> FANSRouteInformation,
    FANSTimeDistanceToFromPosition |-> FANSTimeDistanceToFromPosition,
    FANSTimePosition |-> FANSTimePosition,
    FANSTimePositionAltitude |-> FANSTimePositionAltitude,
    FANSTimePositionAltitudeSpeed |-> FANSTimePositionAltitudeSpeed,
    FANSToFromPosition |-> FANSToFromPosition,
    FANSWaypointSpeedAltitude |-> FANSWaypointSpeedAltitude,
    FANSATWAlongTrackWaypointSequence |-> FANSATWAlongTrackWaypointSequence,
    FANSHoldatwaypointSequence |-> FANSHoldatwaypointSequence,
    FANSInterceptCourseFrom |-> FANSInterceptCourseFrom,
    FANSPositionReport |-> FANSPositionReport,
    FANSRTARequiredTimeArrivalSequence |-> FANSRTARequiredTimeArrivalSequence,
    FANSRouteInformationSequence |-> FANSRouteInformationSequence,
    FANSWaypointSpeedAltitudesequence |-> FANSWaypointSpeedAltitudesequence,
    FANSInterceptCourseFromSequence |-> FANSInterceptCourseFromSequence,
    FANSRouteInformationAdditional |-> FANSRouteInformationAdditional,
    FANSRouteClearance |-> FANSRouteClearance,
    FANSPositionRouteClearance |-> FANSPositionRouteClearance,
    FANSPredepartureClearance |-> FANSPredepartureClearance,
    FANSATCDownlinkMsgElementId |-> FANSATCDownlinkMsgElementId,
    FANSATCUplinkMsgElementId |-> FANSATCUplinkMsgElementId,
    FANSATCDownlinkMsgElementIdSequence |-> FANSATCDownlinkMsgElementIdSequence,
    FANSATCUplinkMsgElementIdSequence |-> FANSATCUplinkMsgElementIdSequence,
    FANSATCDownlinkMessage |-> FANSATCDownlinkMessage,
    FANSATCUplinkMessage |-> FANSATCUplinkMessage, NULL |-> Null]
=============================================================================
